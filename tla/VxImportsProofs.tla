--------------------------- MODULE VxImportsProofs ---------------------------
(***************************************************************************)
(* Proofs about VxImports: the parser stays aligned with the records of    *)
(* vecIAT, natv calls what its line imports, the stacks stay balanced and  *)
(* the parameters arrive.                                                  *)
(*                                                                         *)
(* The table is described by two functions: own[k], the line that made     *)
(* import k, and off[k], the byte behind which its record begins.  What    *)
(* IatContains takes for a record's number is half the marks before the    *)
(* hit, so it is right because a hit lies inside a record's module name    *)
(* (HitIsTail) and two marks belong to each record before.                 *)
(***************************************************************************)
EXTENDS VxImports, SequenceTheorems, FiniteSetTheorems, WellFoundedInduction, TLAPS

ByteSet == 0..255
Counts == 0..254
Plain(byte) == byte # 0 /\ byte # 255

\* A record begins behind byte b.
RecordAt(bytes, b, mod, func, params, conv) ==
    LET atFunc == b + Len(mod) + 2
        atParams == b + Len(mod) + Len(func) + 3
    IN  /\ bytes[b + 1] = 255
        /\ \A y \in (b + 2)..(b + Len(mod) + 1) : bytes[y] = mod[y - b - 1]
        /\ bytes[atFunc] = 0
        /\ \A y \in (atFunc + 1)..(atFunc + Len(func)) : bytes[y] = func[y - atFunc]
        /\ bytes[atParams] = 0
        /\ bytes[atParams + 1] = params /\ bytes[atParams + 2] = 0
        /\ bytes[atParams + 3] = conv /\ bytes[atParams + 4] = 0
        /\ bytes[atParams + 5] = 255
----------------------------------------------------------------------------
(* Bytes *)

LEMMA Words ==
    ASSUME NEW w \in 0..255
    PROVE  LowHigh(w) = <<w, 0>>
<1>1. w % 256 = w
  BY SMT
<1>2. (w % 65536) \div 256 = 0
  <2>1. w % 65536 = w
    BY SMT
  <2> QED
    BY <2>1, SMT
<1> QED
  BY <1>1, <1>2, SMT DEF LowHigh, Word

LEMMA Singles ==
    /\ \A w \in ByteSet : <<w>> \in Seq(ByteSet) /\ Len(<<w>>) = 1 /\ <<w>>[1] = w
    /\ \A w \in ByteSet : <<w, 0>> \in Seq(ByteSet) /\ Len(<<w, 0>>) = 2 /\ <<w, 0>>[1] = w /\ <<w, 0>>[2] = 0
BY SMT DEF ByteSet

LEMMA NameBytes ==
    ASSUME NEW s \in Names
    PROVE  /\ s \in Seq(ByteSet) /\ Len(s) \in Nat /\ Len(s) >= 1
           /\ DOMAIN s = 1..Len(s)
           /\ \A y \in 1..Len(s) : Plain(s[y])
<1>1. s \in Seq(1..254) /\ s # <<>>
  BY DEF Names
<1>2. Len(s) \in Nat /\ Len(s) >= 1 /\ DOMAIN s = 1..Len(s)
  BY <1>1, LenProperties, EmptySeq
<1>3. s \in Seq(ByteSet)
  BY <1>1, SeqMonotonic DEF ByteSet
<1>4. \A y \in 1..Len(s) : s[y] \in 1..254
  BY <1>1, ElementOfSeq
<1>5. \A y \in 1..Len(s) : Plain(s[y])
  <2> SUFFICES ASSUME NEW y \in 1..Len(s) PROVE Plain(s[y])
    OBVIOUS
  <2>1. PICK c : c = s[y]
    OBVIOUS
  <2>2. c \in 1..254
    BY <1>4, <2>1
  <2>3. Plain(c)
    BY <2>2 DEF Plain
  <2> QED
    BY <2>1, <2>3, Zenon
<1> QED
  BY <1>2, <1>3, <1>5

LEMMA Joined ==
    ASSUME NEW s \in Seq(ByteSet), NEW t \in Seq(ByteSet), NEW n \in Nat, Len(s) = n,
           NEW k \in Nat, Len(t) = k, NEW r, r = s \o t
    PROVE  /\ r \in Seq(ByteSet) /\ Len(r) = n + k
           /\ \A y \in 1..n : r[y] = s[y]
           /\ \A y \in (n + 1)..(n + k) : r[y] = t[y - n]
<1>1. /\ s \o t \in Seq(ByteSet)
      /\ Len(s \o t) = Len(s) + Len(t)
      /\ \A y \in 1..Len(s) + Len(t) : (s \o t)[y] = IF y <= Len(s) THEN s[y] ELSE t[y - Len(s)]
  BY ConcatProperties, Zenon
<1>2. \A y \in 1..(n + k) : r[y] = IF y <= n THEN s[y] ELSE t[y - n]
  BY <1>1
<1> QED
  BY <1>1, <1>2

LEMMA Part ==
    ASSUME NEW s, NEW a \in Nat, NEW z \in Nat, a <= z + 1,
           \A y \in a..z : s[y] \in ByteSet, NEW r, r = SubSeq(s, a, z)
    PROVE  /\ r \in Seq(ByteSet) /\ Len(r) = z - a + 1
           /\ \A y \in 1..(z - a + 1) : r[y] = s[a + y - 1]
<1>1. a \in Int /\ z \in Int
  OBVIOUS
<1>2. r \in Seq(ByteSet)
  BY <1>1, SubSeqProperties, Zenon
<1>3. Len(SubSeq(s, a, z)) = IF a <= z THEN z - a + 1 ELSE 0
  BY <1>1, SubSeqProperties, Zenon
<1>4. \A y \in 1..(z - a + 1) : SubSeq(s, a, z)[y] = s[a + y - 1]
  BY <1>1, SubSeqProperties
<1> QED
  BY <1>2, <1>3, <1>4

LEMMA EntryBytes ==
    ASSUME NEW mod \in Names, NEW func \in Names, NEW params \in Counts, NEW conv \in 0..2
    PROVE  /\ Entry(mod, func, params, conv) \in Seq(ByteSet)
           /\ Len(Entry(mod, func, params, conv)) = Len(mod) + Len(func) + 8
           /\ RecordAt(Entry(mod, func, params, conv), 0, mod, func, params, conv)
<1>1. PICK m \in Nat, f \in Nat :
         mod \in Seq(ByteSet) /\ m = Len(mod) /\ func \in Seq(ByteSet) /\ f = Len(func)
  BY NameBytes
<1>2. /\ <<255>> \in Seq(ByteSet) /\ Len(<<255>>) = 1 /\ <<255>>[1] = 255
      /\ <<0>> \in Seq(ByteSet) /\ Len(<<0>>) = 1 /\ <<0>>[1] = 0
      /\ <<params, 0>> \in Seq(ByteSet) /\ Len(<<params, 0>>) = 2 /\ <<params, 0>>[1] = params /\ <<params, 0>>[2] = 0
      /\ <<conv, 0>> \in Seq(ByteSet) /\ Len(<<conv, 0>>) = 2 /\ <<conv, 0>>[1] = conv /\ <<conv, 0>>[2] = 0
  <2>1. 255 \in ByteSet /\ 0 \in ByteSet /\ params \in ByteSet /\ conv \in ByteSet
    BY SMT DEF ByteSet, Counts
  <2> QED
    BY <2>1, Singles
<1>3. PICK s1 : s1 = <<255>> \o mod
  OBVIOUS
<1>4. PICK s2 : s2 = s1 \o <<0>>
  OBVIOUS
<1>5. PICK s3 : s3 = s2 \o func
  OBVIOUS
<1>6. PICK s4 : s4 = s3 \o <<0>>
  OBVIOUS
<1>7. PICK s5 : s5 = s4 \o <<params, 0>>
  OBVIOUS
<1>8. PICK s6 : s6 = s5 \o <<conv, 0>>
  OBVIOUS
<1>9. PICK s7 : s7 = s6 \o <<255>>
  OBVIOUS
<1>10. Entry(mod, func, params, conv) = s7
  <2>1. LowHigh(params) = <<params, 0>> /\ LowHigh(conv) = <<conv, 0>>
    <3>1. params \in 0..255 /\ conv \in 0..255
      BY SMT DEF Counts
    <3> QED
      BY <3>1, Words
  <2> QED
    BY <2>1, <1>3, <1>4, <1>5, <1>6, <1>7, <1>8, <1>9, Zenon DEF Entry
<1>11. s1 \in Seq(ByteSet) /\ Len(s1) = 1 + m /\ s1[1] = 255 /\ \A y \in 2..(m + 1) : s1[y] = mod[y - 1]
  <2>1. /\ s1 \in Seq(ByteSet) /\ Len(s1) = 1 + m /\ \A y \in 1..1 : s1[y] = <<255>>[y]
        /\ \A y \in (1 + 1)..(1 + m) : s1[y] = mod[y - 1]
    BY <1>1, <1>2, <1>3, Joined
  <2> QED
    BY <1>2, <2>1
<1>12. s2 \in Seq(ByteSet) /\ Len(s2) = 2 + m /\ (\A y \in 1..(m + 1) : s2[y] = s1[y]) /\ s2[m + 2] = 0
  <2>1. /\ s2 \in Seq(ByteSet) /\ Len(s2) = (1 + m) + 1 /\ \A y \in 1..(1 + m) : s2[y] = s1[y]
        /\ \A y \in ((1 + m) + 1)..((1 + m) + 1) : s2[y] = <<0>>[y - (1 + m)]
    BY <1>2, <1>4, <1>11, Joined
  <2> QED
    BY <1>2, <2>1
<1>13. s3 \in Seq(ByteSet) /\ Len(s3) = 2 + m + f /\ (\A y \in 1..(m + 2) : s3[y] = s2[y])
       /\ \A y \in (m + 3)..(m + 2 + f) : s3[y] = func[y - (m + 2)]
  <2>1. /\ s3 \in Seq(ByteSet) /\ Len(s3) = (2 + m) + f /\ \A y \in 1..(2 + m) : s3[y] = s2[y]
        /\ \A y \in ((2 + m) + 1)..((2 + m) + f) : s3[y] = func[y - (2 + m)]
    <3>1. /\ s3 \in Seq(ByteSet) /\ \A y \in 1..(2 + m) : s3[y] = s2[y]
          /\ \A y \in ((2 + m) + 1)..((2 + m) + f) : s3[y] = func[y - (2 + m)]
      BY <1>1, <1>5, <1>12, Joined
    <3>2. Len(s2 \o func) = Len(s2) + Len(func)
      BY <1>1, <1>12, ConcatProperties, Zenon
    <3> QED
      BY <3>1, <3>2, <1>1, <1>5, <1>12
  <2> QED
    BY <2>1
<1>14. s4 \in Seq(ByteSet) /\ Len(s4) = 3 + m + f /\ (\A y \in 1..(m + 2 + f) : s4[y] = s3[y]) /\ s4[m + f + 3] = 0
  <2>1. /\ s4 \in Seq(ByteSet) /\ Len(s4) = (2 + m + f) + 1 /\ \A y \in 1..(2 + m + f) : s4[y] = s3[y]
        /\ \A y \in ((2 + m + f) + 1)..((2 + m + f) + 1) : s4[y] = <<0>>[y - (2 + m + f)]
    BY <1>2, <1>6, <1>13, Joined
  <2> QED
    BY <1>2, <2>1
<1>15. s5 \in Seq(ByteSet) /\ Len(s5) = 5 + m + f /\ (\A y \in 1..(m + f + 3) : s5[y] = s4[y])
       /\ s5[m + f + 4] = params /\ s5[m + f + 5] = 0
  <2>1. /\ s5 \in Seq(ByteSet) /\ Len(s5) = (3 + m + f) + 2 /\ \A y \in 1..(3 + m + f) : s5[y] = s4[y]
        /\ \A y \in ((3 + m + f) + 1)..((3 + m + f) + 2) : s5[y] = <<params, 0>>[y - (3 + m + f)]
    BY <1>2, <1>7, <1>14, Joined
  <2> QED
    BY <1>2, <2>1
<1>16. s6 \in Seq(ByteSet) /\ Len(s6) = 7 + m + f /\ (\A y \in 1..(m + f + 5) : s6[y] = s5[y])
       /\ s6[m + f + 6] = conv /\ s6[m + f + 7] = 0
  <2>1. /\ s6 \in Seq(ByteSet) /\ Len(s6) = (5 + m + f) + 2 /\ \A y \in 1..(5 + m + f) : s6[y] = s5[y]
        /\ \A y \in ((5 + m + f) + 1)..((5 + m + f) + 2) : s6[y] = <<conv, 0>>[y - (5 + m + f)]
    BY <1>2, <1>8, <1>15, Joined
  <2> QED
    BY <1>2, <2>1
<1>17. s7 \in Seq(ByteSet) /\ Len(s7) = 8 + m + f /\ (\A y \in 1..(m + f + 7) : s7[y] = s6[y]) /\ s7[m + f + 8] = 255
  <2>1. /\ s7 \in Seq(ByteSet) /\ Len(s7) = (7 + m + f) + 1 /\ \A y \in 1..(7 + m + f) : s7[y] = s6[y]
        /\ \A y \in ((7 + m + f) + 1)..((7 + m + f) + 1) : s7[y] = <<255>>[y - (7 + m + f)]
    BY <1>2, <1>9, <1>16, Joined
  <2> QED
    BY <1>2, <2>1
<1>19. \A y \in 1..(m + f + 3) : s7[y] = s4[y]
  BY <1>15, <1>16, <1>17, <1>1
<1>20. \A y \in 1..(m + 2) : s7[y] = s2[y]
  BY <1>13, <1>14, <1>1, <1>19
<1>21. RecordAt(s7, 0, mod, func, params, conv)
  <2>1. s7[1] = 255 /\ (\A y \in 2..(m + 1) : s7[y] = mod[y - 1]) /\ s7[m + 2] = 0
    <3>1. s7[1] = s1[1] /\ s7[m + 2] = s2[m + 2]
      BY <1>12, <1>1, <1>20
    <3>2. \A y \in 2..(m + 1) : s7[y] = s1[y]
      BY <1>12, <1>1, <1>20
    <3> QED
      BY <1>11, <1>12, <3>1, <3>2
  <2>2. (\A y \in (m + 3)..(m + 2 + f) : s7[y] = func[y - (m + 2)]) /\ s7[m + f + 3] = 0
    BY <1>13, <1>14, <1>1, <1>19
  <2>3. /\ s7[m + f + 4] = params /\ s7[m + f + 5] = 0 /\ s7[m + f + 6] = conv
        /\ s7[m + f + 7] = 0 /\ s7[m + f + 8] = 255
    BY <1>15, <1>16, <1>17, <1>1
  <2> QED
    BY <2>1, <2>2, <2>3, <1>1 DEF RecordAt
<1> QED
  BY <1>10, <1>17, <1>1, <1>21

\* The same record, in a longer table.
LEMMA RecordMoves ==
    ASSUME NEW bytes, NEW others, NEW b \in Nat, NEW d \in Nat,
           NEW mod \in Names, NEW func \in Names, NEW params, NEW conv,
           RecordAt(bytes, b, mod, func, params, conv),
           \A y \in (b + 1)..(b + Len(mod) + Len(func) + 8) : others[d + y] = bytes[y]
    PROVE  RecordAt(others, d + b, mod, func, params, conv)
<1>1. PICK m \in Nat, f \in Nat : m = Len(mod) /\ f = Len(func)
  BY NameBytes
<1>2. \A y \in (b + 1)..(b + m + f + 8) : others[d + y] = bytes[y]
  BY <1>1
<1>3. /\ bytes[b + 1] = 255 /\ bytes[b + m + 2] = 0 /\ bytes[b + m + f + 3] = 0
      /\ \A y \in (b + 2)..(b + m + 1) : bytes[y] = mod[y - b - 1]
      /\ \A y \in (b + m + 3)..(b + m + 2 + f) : bytes[y] = func[y - (b + m + 2)]
      /\ bytes[b + m + f + 4] = params /\ bytes[b + m + f + 5] = 0
      /\ bytes[b + m + f + 6] = conv /\ bytes[b + m + f + 7] = 0
      /\ bytes[b + m + f + 8] = 255
  BY <1>1 DEF RecordAt
<1>4. /\ others[d + b + 1] = 255 /\ others[d + b + m + 2] = 0 /\ others[d + b + m + f + 3] = 0
      /\ others[d + b + m + f + 4] = params /\ others[d + b + m + f + 5] = 0
      /\ others[d + b + m + f + 6] = conv /\ others[d + b + m + f + 7] = 0
      /\ others[d + b + m + f + 8] = 255
  <2>1. /\ b + 1 \in (b + 1)..(b + m + f + 8) /\ b + m + 2 \in (b + 1)..(b + m + f + 8)
        /\ b + m + f + 3 \in (b + 1)..(b + m + f + 8) /\ b + m + f + 4 \in (b + 1)..(b + m + f + 8)
        /\ b + m + f + 5 \in (b + 1)..(b + m + f + 8) /\ b + m + f + 6 \in (b + 1)..(b + m + f + 8)
        /\ b + m + f + 7 \in (b + 1)..(b + m + f + 8) /\ b + m + f + 8 \in (b + 1)..(b + m + f + 8)
    BY <1>1
  <2>2. /\ others[d + (b + 1)] = bytes[b + 1] /\ others[d + (b + m + 2)] = bytes[b + m + 2]
        /\ others[d + (b + m + f + 3)] = bytes[b + m + f + 3]
        /\ others[d + (b + m + f + 4)] = bytes[b + m + f + 4]
        /\ others[d + (b + m + f + 5)] = bytes[b + m + f + 5]
        /\ others[d + (b + m + f + 6)] = bytes[b + m + f + 6]
        /\ others[d + (b + m + f + 7)] = bytes[b + m + f + 7]
        /\ others[d + (b + m + f + 8)] = bytes[b + m + f + 8]
    BY <1>2, <2>1, Zenon
  <2>3. /\ d + (b + 1) = d + b + 1 /\ d + (b + m + 2) = d + b + m + 2
        /\ d + (b + m + f + 3) = d + b + m + f + 3 /\ d + (b + m + f + 4) = d + b + m + f + 4
        /\ d + (b + m + f + 5) = d + b + m + f + 5 /\ d + (b + m + f + 6) = d + b + m + f + 6
        /\ d + (b + m + f + 7) = d + b + m + f + 7 /\ d + (b + m + f + 8) = d + b + m + f + 8
    BY <1>1
  <2> QED
    BY <1>3, <2>2, <2>3
<1>5. ASSUME NEW y \in (d + b + 2)..(d + b + m + 1) PROVE others[y] = mod[y - (d + b) - 1]
  <2>1. others[d + (y - d)] = bytes[y - d] /\ bytes[y - d] = mod[(y - d) - b - 1]
    BY <1>2, <1>3
  <2> QED
    BY <2>1
<1>6. ASSUME NEW y \in (d + b + m + 3)..(d + b + m + 2 + f) PROVE others[y] = func[y - (d + b + m + 2)]
  <2>1. others[d + (y - d)] = bytes[y - d] /\ bytes[y - d] = func[(y - d) - (b + m + 2)]
    BY <1>2, <1>3
  <2> QED
    BY <2>1
<1> QED
  BY <1>1, <1>4, <1>5, <1>6 DEF RecordAt

\* A string that IatContains compares ends with its zero.
LEMMA StringBytes ==
    ASSUME NEW v \in Seq(ByteSet), NEW at \in Nat, at >= 1, NEW s \in Names, StringAt(v, at, s)
    PROVE  /\ at + Len(s) <= Len(v)
           /\ \A y \in at..(at + Len(s) - 1) : v[y] = s[y - at + 1]
           /\ v[at + Len(s)] = 0
<1>1. PICK n \in Nat : n = Len(s) /\ n >= 1 /\ s \in Seq(ByteSet)
  BY NameBytes
<1>2. at + n <= Len(v) /\ Len(v) \in Nat
  BY <1>1, LenProperties DEF StringAt
<1>3. PICK t : t = SubSeq(v, at, at + n) /\ t = Append(s, 0)
  BY <1>1 DEF StringAt
<1>4. \A y \in 1..(n + 1) : t[y] = v[at + y - 1]
  <2>1. \A y \in at..(at + n) : v[y] \in ByteSet
    BY <1>2, ElementOfSeq
  <2>2. \A y \in 1..((at + n) - at + 1) : SubSeq(v, at, at + n)[y] = v[at + y - 1]
    BY <1>1, <2>1, SubSeqProperties
  <2> QED
    BY <1>3, <2>2
<1>5. (\A y \in 1..n : t[y] = s[y]) /\ t[n + 1] = 0
  <2>1. 0 \in ByteSet
    BY DEF ByteSet
  <2>2. \A y \in 1..Len(s) : Append(s, 0)[y] = s[y]
    BY <1>1, <2>1, AppendProperties
  <2>3. Append(s, 0)[Len(s) + 1] = 0
    BY <1>1, <2>1, AppendProperties, Zenon
  <2> QED
    BY <1>1, <1>3, <2>2, <2>3
<1>6. ASSUME NEW y \in at..(at + n - 1) PROVE v[y] = s[y - at + 1]
  <2>1. t[y - at + 1] = v[at + (y - at + 1) - 1] /\ t[y - at + 1] = s[y - at + 1]
    BY <1>1, <1>4, <1>5
  <2>2. at + (y - at + 1) - 1 = y
    OBVIOUS
  <2> QED
    BY <2>1, <2>2
<1>7. v[at + n] = 0
  <2>1. t[n + 1] = v[at + (n + 1) - 1]
    BY <1>4
  <2> QED
    BY <1>5, <2>1
<1> QED
  BY <1>1, <1>2, <1>6, <1>7

LEMMA IntBytes ==
    ASSUME NEW v \in Seq(ByteSet), NEW at \in Nat, at >= 1, NEW params \in Counts,
           IntIs(v, at, params)
    PROVE  /\ at + 3 <= Len(v)
           /\ v[at] = params /\ v[at + 1] = 0 /\ v[at + 2] = 0 /\ v[at + 3] = 0
<1>1. at + 3 <= Len(v) /\ Len(v) \in Nat
  BY LenProperties DEF IntIs
<1>2. LowHigh(params) = <<params, 0>>
  <2>1. params \in 0..255
    BY DEF Counts
  <2> QED
    BY <2>1, Words
<1>3. PICK t : t = SubSeq(v, at, at + 3) /\ t = <<params, 0>> \o <<0, 0>>
  BY <1>2 DEF IntIs
<1>4. \A y \in 1..4 : t[y] = v[at + y - 1]
  <2>1. \A y \in at..(at + 3) : v[y] \in ByteSet
    BY <1>1, ElementOfSeq
  <2>2. \A y \in 1..((at + 3) - at + 1) : SubSeq(v, at, at + 3)[y] = v[at + y - 1]
    BY <2>1, SubSeqProperties
  <2> QED
    BY <1>3, <2>2
<1>5. t[1] = params /\ t[2] = 0 /\ t[3] = 0 /\ t[4] = 0
  BY <1>3
<1> QED
  BY <1>1, <1>4, <1>5

\* What IatContains finds inside a record is the end of its module's name, the
\* function and the parameters of that record, and its convention is cdecl.
LEMMA HitIsTail ==
    ASSUME NEW v \in Seq(ByteSet), NEW b \in Nat,
           NEW M \in Names, NEW F \in Names, NEW p \in Counts, NEW c \in 0..2,
           RecordAt(v, b, M, F, p, c),
           NEW mod \in Names, NEW func \in Names, NEW params \in Counts,
           NEW h \in (b + 1)..(b + Len(M) + Len(F) + 8),
           Matches(v, h, mod, func, params)
    PROVE  /\ v[h] # 255 /\ h # b + Len(M) + Len(F) + 8
           /\ func = F /\ params = p /\ c = 0 /\ EndsIn(M, mod)
<1>1. PICK m \in Nat, f \in Nat, n \in Nat, k \in Nat :
         /\ m = Len(M) /\ f = Len(F) /\ n = Len(mod) /\ k = Len(func)
         /\ m >= 1 /\ f >= 1 /\ n >= 1 /\ k >= 1
  BY NameBytes
<1>2. h \in Nat /\ h >= b + 1 /\ h <= b + m + f + 8
  BY <1>1
<1>3. PICK z \in Nat, w \in Nat : z = h + n /\ w = h + n + 1 + k
  BY <1>1, <1>2
<1>4. /\ \A y \in h..(z - 1) : v[y] = mod[y - h + 1]
      /\ v[z] = 0
  <2>1. StringAt(v, h, mod)
    BY DEF Matches
  <2> QED
    BY <1>1, <1>2, <1>3, <2>1, StringBytes, SMTT(30)
<1>5. /\ \A y \in (z + 1)..(w - 1) : v[y] = func[y - z]
      /\ v[w] = 0
  <2>1. StringAt(v, z + 1, func)
    BY <1>1, <1>3 DEF Matches
  <2>2. z + 1 \in Nat /\ z + 1 >= 1
    BY <1>3
  <2>3. /\ \A y \in (z + 1)..((z + 1) + Len(func) - 1) : v[y] = func[y - (z + 1) + 1]
        /\ v[(z + 1) + Len(func)] = 0
    BY <2>1, <2>2, StringBytes, Zenon
  <2>4. (z + 1) + k - 1 = w - 1 /\ (z + 1) + k = w
    BY <1>1, <1>2, <1>3
  <2>5. \A y \in (z + 1)..(w - 1) : v[y] = func[y - (z + 1) + 1]
    BY <1>1, <2>3, <2>4
  <2>6. ASSUME NEW y \in (z + 1)..(w - 1) PROVE v[y] = func[y - z]
    <3>1. y - (z + 1) + 1 = y - z
      BY <1>3
    <3> QED
      BY <2>5, <3>1
  <2> QED
    BY <1>1, <2>3, <2>4, <2>6
<1>6. v[w + 1] = params /\ v[w + 3] = 0 /\ v[w + 4] = 0
  <2>1. IntIs(v, w + 1, params)
    <3>1. h + Len(mod) + Len(func) + 2 = w + 1
      BY <1>1, <1>2, <1>3
    <3> QED
      BY <3>1 DEF Matches
  <2>2. w + 1 \in Nat /\ w + 1 >= 1 /\ (w + 1) + 2 = w + 3 /\ (w + 1) + 3 = w + 4
    BY <1>3
  <2>3. v[w + 1] = params /\ v[(w + 1) + 2] = 0 /\ v[(w + 1) + 3] = 0
    BY <2>1, <2>2, IntBytes, SMTT(30)
  <2> QED
    BY <2>2, <2>3
\* No zeros or marks in names.
<1>7. /\ \A y \in h..(z - 1) : v[y] # 0 /\ v[y] # 255
      /\ \A y \in (z + 1)..(w - 1) : v[y] # 0 /\ v[y] # 255
  <2>1. ASSUME NEW y \in h..(z - 1) PROVE v[y] # 0 /\ v[y] # 255
    <3>1. y - h + 1 \in 1..n
      BY <1>2, <1>3
    <3>2. Plain(mod[y - h + 1]) /\ v[y] = mod[y - h + 1]
      BY <1>1, <1>4, <3>1, NameBytes, Zenon
    <3> QED
      BY <3>2 DEF Plain
  <2>2. ASSUME NEW y \in (z + 1)..(w - 1) PROVE v[y] # 0 /\ v[y] # 255
    <3>1. y - z \in 1..k
      BY <1>2, <1>3
    <3>2. Plain(func[y - z]) /\ v[y] = func[y - z]
      BY <1>1, <1>5, <3>1, NameBytes, Zenon
    <3> QED
      BY <3>2 DEF Plain
  <2> QED
    BY <2>1, <2>2
<1>8. /\ v[b + 1] = 255 /\ v[b + m + 2] = 0 /\ v[b + m + f + 3] = 0
      /\ \A y \in (b + 2)..(b + m + 1) : v[y] = M[y - b - 1]
      /\ \A y \in (b + m + 3)..(b + m + 2 + f) : v[y] = F[y - (b + m + 2)]
      /\ v[b + m + f + 4] = p /\ v[b + m + f + 5] = 0
      /\ v[b + m + f + 6] = c /\ v[b + m + f + 7] = 0
      /\ v[b + m + f + 8] = 255
  BY <1>1 DEF RecordAt
<1>9. /\ \A y \in (b + 2)..(b + m + 1) : v[y] # 0 /\ v[y] # 255
      /\ \A y \in (b + m + 3)..(b + m + 2 + f) : v[y] # 0 /\ v[y] # 255
  <2>1. ASSUME NEW y \in (b + 2)..(b + m + 1) PROVE v[y] # 0 /\ v[y] # 255
    <3>1. y - b - 1 \in 1..m
      BY <1>2, <1>3
    <3>2. Plain(M[y - b - 1]) /\ v[y] = M[y - b - 1]
      BY <1>1, <1>8, <3>1, NameBytes, Zenon
    <3> QED
      BY <3>2 DEF Plain
  <2>2. ASSUME NEW y \in (b + m + 3)..(b + m + 2 + f) PROVE v[y] # 0 /\ v[y] # 255
    <3>1. y - (b + m + 2) \in 1..f
      BY <1>2, <1>3
    <3>2. Plain(F[y - (b + m + 2)]) /\ v[y] = F[y - (b + m + 2)]
      BY <1>1, <1>8, <3>1, NameBytes, Zenon
    <3> QED
      BY <3>2 DEF Plain
  <2> QED
    BY <2>1, <2>2
<1>10. v[h] # 0 /\ v[h] # 255 /\ v[z + 1] # 0 /\ v[z + 1] # 255 /\ h + 1 <= z /\ z + 2 <= w
  <2>1. h \in h..(z - 1) /\ z + 1 \in (z + 1)..(w - 1) /\ h + 1 <= z /\ z + 2 <= w
    BY <1>1, <1>2, <1>3
  <2> QED
    BY <1>7, <2>1
\* It does not begin behind the module.
<1>11. h \in (b + 2)..(b + m + 1)
  <2>1. h # b + 1 /\ h # b + m + 2 /\ h # b + m + f + 3 /\ h # b + m + f + 5
        /\ h # b + m + f + 7 /\ h # b + m + f + 8
    BY <1>8, <1>10
  <2>2. ~(h \in (b + m + 3)..(b + m + 2 + f))
    <3> SUFFICES ASSUME h \in (b + m + 3)..(b + m + 2 + f) PROVE FALSE
      OBVIOUS
    <3>1. z = b + m + f + 3
      <4>1. z <= b + m + f + 3
        <5>1. ~(b + m + f + 3 \in h..(z - 1))
          BY <1>7, <1>8
        <5> QED
          BY <1>2, <5>1
      <4>2. ~(z \in (b + m + 3)..(b + m + 2 + f))
        BY <1>4, <1>9
      <4> QED
        BY <1>2, <1>10, <4>1, <4>2
    <3>2. w = z + 2
      <4>1. ~(z + 2 \in (z + 1)..(w - 1))
        BY <1>7, <1>8, <3>1, SMTT(30)
      <4> QED
        BY <1>10, <4>1
    <3>3. w + 3 = b + m + f + 8
      BY <1>1, <3>1, <3>2
    <3>4. v[w + 3] = 0 /\ v[b + m + f + 8] = 255
      BY <1>6, <1>8
    <3> QED
      BY <3>3, <3>4
  <2>3. h # b + m + f + 4
    <3> SUFFICES ASSUME h = b + m + f + 4 PROVE FALSE
      OBVIOUS
    <3>1. z = h + 1
      <4>1. ~(h + 1 \in h..(z - 1))
        BY <1>7, <1>8
      <4> QED
        BY <1>2, <1>10, <4>1
    <3>2. w = z + 2
      <4>1. ~(z + 2 \in (z + 1)..(w - 1))
        BY <1>7, <1>8, <3>1
      <4> QED
        BY <1>10, <4>1
    <3>3. w + 1 = b + m + f + 8
      BY <3>1, <3>2
    <3>4. params # 255
      BY DEF Counts
    <3> QED
      BY <1>6, <1>8, <3>3, <3>4
  <2>4. h # b + m + f + 6
    <3> SUFFICES ASSUME h = b + m + f + 6 PROVE FALSE
      OBVIOUS
    <3>1. z = h + 1
      <4>1. ~(h + 1 \in h..(z - 1))
        BY <1>7, <1>8
      <4> QED
        BY <1>2, <1>10, <4>1
    <3>2. z + 1 = b + m + f + 8
      BY <3>1
    <3> QED
      BY <1>8, <1>10, <3>2
  <2> QED
    BY <1>2, <2>1, <2>2, <2>3, <2>4
\* So it ends where the module ends, and the rest is the rest of the record.
<1>12. z = b + m + 2
  <2>1. z <= b + m + 2
    <3>1. ~(b + m + 2 \in h..(z - 1))
      BY <1>7, <1>8
    <3> QED
      BY <1>11, <3>1
  <2>2. ~(z \in (b + 2)..(b + m + 1))
    BY <1>4, <1>9
  <2> QED
    BY <1>10, <1>11, <2>1, <2>2
<1>13. w = b + m + f + 3
  <2>1. w <= b + m + f + 3
    <3>1. ~(b + m + f + 3 \in (z + 1)..(w - 1))
      BY <1>7, <1>8
    <3> QED
      BY <1>12, <3>1
  <2>2. ~(w \in (b + m + 3)..(b + m + 2 + f))
    BY <1>5, <1>9
  <2> QED
    BY <1>10, <1>12, <2>1, <2>2
<1>14. params = p /\ c = 0
  <2>1. w + 1 = b + m + f + 4 /\ w + 3 = b + m + f + 6
    BY <1>13
  <2> QED
    BY <1>6, <1>8, <2>1
<1>15. func = F
  <2>1. k = f
    BY <1>3, <1>12, <1>13
  <2>2. ASSUME NEW y \in 1..k PROVE func[y] = F[y]
    <3>1. v[z + y] = func[(z + y) - z]
      BY <1>3, <1>5
    <3>2. v[b + m + 2 + y] = F[(b + m + 2 + y) - (b + m + 2)]
      BY <1>8, <2>1
    <3> QED
      BY <1>12, <3>1, <3>2
  <2>3. func \in Seq(ByteSet) /\ F \in Seq(ByteSet)
    BY NameBytes
  <2> QED
    BY <1>1, <2>1, <2>2, <2>3, SeqEqual
<1>16. EndsIn(M, mod)
  <2>1. n <= m /\ h = b + 2 + (m - n)
    BY <1>3, <1>11, <1>12
  <2>2. M \in Seq(ByteSet) /\ mod \in Seq(ByteSet)
    BY NameBytes
  <2>3. PICK s : s = SubSeq(M, (m - n) + 1, m)
    OBVIOUS
  <2>4. s \in Seq(ByteSet) /\ Len(s) = n /\ \A y \in 1..n : s[y] = M[(m - n) + y]
    <3>1. \A y \in ((m - n) + 1)..m : M[y] \in ByteSet
      BY <1>1, <2>1, <2>2, ElementOfSeq
    <3>2. PICK a \in Nat : a = (m - n) + 1 /\ a <= m + 1
      <4>1. (m - n) + 1 \in Nat /\ (m - n) + 1 <= m + 1
        BY <1>1, <2>1
      <4> QED
        BY <4>1
    <3>3. /\ s \in Seq(ByteSet) /\ Len(s) = m - a + 1
          /\ \A y \in 1..(m - a + 1) : s[y] = M[a + y - 1]
      BY <1>1, <2>3, <3>1, <3>2, Part
    <3>4. m - a + 1 = n
      BY <1>1, <3>2
    <3>5. ASSUME NEW y \in 1..n PROVE s[y] = M[(m - n) + y]
      <4>1. a + y - 1 = (m - n) + y
        BY <1>1, <3>2
      <4> QED
        BY <3>3, <3>4, <4>1
    <3> QED
      BY <3>3, <3>4, <3>5
  <2>5. ASSUME NEW y \in 1..n PROVE mod[y] = s[y]
    <3>1. v[h + y - 1] = mod[(h + y - 1) - h + 1]
      BY <1>2, <1>3, <1>4
    <3>2. v[b + 1 + (m - n) + y] = M[(b + 1 + (m - n) + y) - b - 1]
      BY <1>8, <2>1
    <3> QED
      BY <2>1, <2>4, <3>1, <3>2
  <2>6. mod = s
    BY <1>1, <2>2, <2>4, <2>5, SeqEqual
  <2> QED
    BY <1>1, <2>1, <2>3, <2>6 DEF EndsIn, Drop
<1>17. v[h] # 255 /\ h # b + m + f + 8
  BY <1>10, <1>11
<1> QED
  BY <1>1, <1>14, <1>15, <1>16, <1>17
----------------------------------------------------------------------------
(* The table *)

ModOf(l) == source[l].mod
FuncOf(l) == source[l].func
ParamsOf(l) == source[l].params
ConvOf(l) == GetCallingConvention(source[l].conv)
SizeOf(l) == Len(ModOf(l)) + Len(FuncOf(l)) + 8

MarksUpTo(v, b) == {x \in 1..b : v[x] = 255}

\* Import k was made by line own[k], and its record begins behind byte off[k].
Offsets(own, off) ==
    /\ own \in [1..iImports -> 1..Len(source)]
    /\ off \in [1..(iImports + 1) -> 0..Len(vecIAT)]
    /\ off[1] = 0
    /\ off[iImports + 1] = Len(vecIAT)
    /\ \A k \in 1..iImports : off[k + 1] = off[k] + SizeOf(own[k])

Records(own, off) ==
    \A k \in 1..iImports :
        RecordAt(vecIAT, off[k], ModOf(own[k]), FuncOf(own[k]), ParamsOf(own[k]), ConvOf(own[k]))

\* Two marks for each record before.
Marks(off) == \A k \in 1..(iImports + 1) : Cardinality(MarksUpTo(vecIAT, off[k])) = 2 * (k - 1)

Covered(off) == \A h \in 1..Len(vecIAT) : \E k \in 1..iImports : h \in (off[k] + 1)..off[k + 1]

Layout(own, off) == Offsets(own, off) /\ Records(own, off) /\ Marks(off) /\ Covered(off)

\* The index of a line is that of an import it made or shares.
Resolves(own) ==
    /\ \A k \in 1..iImports : own[k] <= Len(args0)
    /\ \A l \in 1..Len(args0) :
          \E k \in 1..iImports :
              /\ args0[l] = k - 1
              /\ own[k] <= l
              /\ own[k] = l \/ Shares(l, own[k])

TableType ==
    /\ source \in Sources
    /\ vecIAT \in Seq(ByteSet)
    /\ iImports \in Nat
    /\ args0 \in Seq(Nat)
    /\ Len(args0) <= Len(source)

LEMMA Convs ==
    ASSUME NEW c \in {Conventions[k] : k \in 1..3}
    PROVE  /\ GetCallingConvention(c) \in 0..2
           /\ GetCallingConvention(c) = 0 => c = "cdecl"
           /\ GetCallingConvention(c) = 2 => c = "fastcall"
<1>1. PICK k \in 1..3 : c = Conventions[k]
  OBVIOUS
<1>2. PICK d : d = (CHOOSE i_1 \in 1..3 : Conventions[i_1] = c)
  OBVIOUS
<1>3. d \in 1..3 /\ Conventions[d] = c
  BY <1>1, <1>2
<1>4. GetCallingConvention(c) = d - 1
  BY <1>1, <1>2 DEF GetCallingConvention
<1> QED
  BY <1>3, <1>4 DEF Conventions

LEMMA LineTypes ==
    ASSUME source \in Sources, NEW l \in 1..Len(source)
    PROVE  /\ source[l] \in NatvLines
           /\ ModOf(l) \in Names /\ FuncOf(l) \in Names
           /\ ParamsOf(l) \in Counts /\ ParamsOf(l) \in Nat
           /\ ConvOf(l) \in 0..2
           /\ Len(ModOf(l)) \in Nat /\ Len(FuncOf(l)) \in Nat
           /\ SizeOf(l) \in Nat /\ SizeOf(l) >= 10
           /\ ConvOf(l) = 0 => source[l].conv = "cdecl"
           /\ ConvOf(l) = 2 => source[l].conv = "fastcall"
<1>1. source \in Seq(NatvLines)
  BY SourcesAssumption
<1>2. PICK e : e = source[l]
  OBVIOUS
<1>3. e \in NatvLines
  BY <1>1, <1>2, ElementOfSeq
<1>4. e.mod \in Names /\ e.func \in Names /\ e.params \in Counts /\ e.conv \in {Conventions[k] : k \in 1..3}
  BY <1>3 DEF NatvLines, Counts
<1>5. e.params \in Nat
  <2>1. e.params \in Counts
    BY <1>4
  <2> HIDE <1>4
  <2>2. \A c \in Counts : c \in Nat
    BY DEF Counts
  <2> QED
    BY <2>1, <2>2, Zenon
<1>6. /\ ModOf(l) = e.mod /\ FuncOf(l) = e.func /\ ParamsOf(l) = e.params
      /\ ConvOf(l) = GetCallingConvention(e.conv)
  BY <1>2 DEF ModOf, FuncOf, ParamsOf, ConvOf
<1>7. /\ Len(e.mod) \in Nat /\ Len(e.mod) >= 1
      /\ Len(e.func) \in Nat /\ Len(e.func) >= 1
  BY <1>4, NameBytes
<1>8. SizeOf(l) \in Nat /\ SizeOf(l) >= 10
  <2>1. PICK m \in Nat, f \in Nat : m = Len(e.mod) /\ f = Len(e.func) /\ m >= 1 /\ f >= 1
    BY <1>7
  <2>2. PICK z \in Nat : z = m + f + 8 /\ z >= 10
    <3>1. m \in Nat /\ f \in Nat /\ m >= 1 /\ f >= 1
      BY <2>1
    <3>2. m + f + 8 \in Nat /\ m + f + 8 >= 10
      BY <3>1
    <3> QED
      BY <3>2
  <2>3. SizeOf(l) = z
    BY <1>6, <2>1, <2>2 DEF SizeOf
  <2> QED
    BY <2>2, <2>3, Zenon
<1>9. /\ GetCallingConvention(e.conv) \in 0..2
      /\ GetCallingConvention(e.conv) = 0 => e.conv = "cdecl"
      /\ GetCallingConvention(e.conv) = 2 => e.conv = "fastcall"
  BY <1>4, Convs
<1> QED
  BY <1>2, <1>3, <1>4, <1>5, <1>6, <1>7, <1>8, <1>9

\* Between its marks, a record has none.
LEMMA RecordInside ==
    ASSUME NEW v, NEW b \in Nat, NEW M \in Names, NEW F \in Names, NEW p \in Counts, NEW c \in 0..2,
           RecordAt(v, b, M, F, p, c)
    PROVE  /\ v[b + 1] = 255
           /\ v[b + Len(M) + Len(F) + 8] = 255
           /\ \A y \in (b + 2)..(b + Len(M) + Len(F) + 7) : v[y] # 255
<1>1. PICK m \in Nat, f \in Nat : m = Len(M) /\ f = Len(F)
  BY NameBytes
<1>2. /\ v[b + 1] = 255 /\ v[b + m + 2] = 0 /\ v[b + m + f + 3] = 0
      /\ \A y \in (b + 2)..(b + m + 1) : v[y] = M[y - b - 1]
      /\ \A y \in (b + m + 3)..(b + m + 2 + f) : v[y] = F[y - (b + m + 2)]
      /\ v[b + m + f + 4] = p /\ v[b + m + f + 5] = 0
      /\ v[b + m + f + 6] = c /\ v[b + m + f + 7] = 0
      /\ v[b + m + f + 8] = 255
  BY <1>1 DEF RecordAt
<1>3. ASSUME NEW y \in (b + 2)..(b + m + 1) PROVE v[y] # 255
  <2>1. y - b - 1 \in 1..m
    BY <1>1
  <2>2. Plain(M[y - b - 1]) /\ v[y] = M[y - b - 1]
    BY <1>1, <1>2, <2>1, NameBytes, Zenon
  <2> QED
    BY <2>2 DEF Plain
<1>4. ASSUME NEW y \in (b + m + 3)..(b + m + 2 + f) PROVE v[y] # 255
  <2>1. y - (b + m + 2) \in 1..f
    BY <1>1
  <2>2. Plain(F[y - (b + m + 2)]) /\ v[y] = F[y - (b + m + 2)]
    BY <1>1, <1>2, <2>1, NameBytes, Zenon
  <2> QED
    BY <2>2 DEF Plain
<1>5. p # 255 /\ c # 255
  BY SMT DEF Counts
<1>6. ASSUME NEW y \in (b + 2)..(b + m + f + 7) PROVE v[y] # 255
  <2>1. \/ y \in (b + 2)..(b + m + 1) \/ y = b + m + 2 \/ y \in (b + m + 3)..(b + m + 2 + f)
        \/ y = b + m + f + 3 \/ y = b + m + f + 4 \/ y = b + m + f + 5 \/ y = b + m + f + 6
        \/ y = b + m + f + 7
    BY <1>1, SMTT(30)
  <2> QED
    BY <1>2, <1>3, <1>4, <1>5, <2>1
<1> QED
  BY <1>1, <1>2, <1>6

\* One more mark, or none, when the table is counted further.
LEMMA CountMore ==
    ASSUME NEW v, NEW b \in Nat, NEW n \in Nat, Cardinality(MarksUpTo(v, b)) = n,
           NEW h \in Nat, h > b, v[b + 1] = 255, \A y \in (b + 2)..h : v[y] # 255
    PROVE  Cardinality(MarksUpTo(v, h)) = n + 1
<1>1. MarksUpTo(v, h) = MarksUpTo(v, b) \cup {b + 1}
  <2>1. ASSUME NEW x \in MarksUpTo(v, h) PROVE x \in MarksUpTo(v, b) \cup {b + 1}
    BY <2>1 DEF MarksUpTo
  <2>2. ASSUME NEW x \in MarksUpTo(v, b) \cup {b + 1} PROVE x \in MarksUpTo(v, h)
    BY <2>2 DEF MarksUpTo
  <2> QED
    BY <2>1, <2>2
<1>2. IsFiniteSet(MarksUpTo(v, b))
  <2>1. IsFiniteSet(1..b)
    BY FS_Interval
  <2>2. MarksUpTo(v, b) \in SUBSET (1..b)
    BY DEF MarksUpTo
  <2> QED
    BY <2>1, <2>2, FS_Subset
<1>3. b + 1 \notin MarksUpTo(v, b)
  BY DEF MarksUpTo
<1>4. Cardinality(MarksUpTo(v, b) \cup {b + 1}) = Cardinality(MarksUpTo(v, b)) + 1
  BY <1>2, <1>3, FS_AddElement
<1> QED
  BY <1>1, <1>4

LEMMA CountEnd ==
    ASSUME NEW v, NEW h \in Nat, NEW n \in Nat, Cardinality(MarksUpTo(v, h)) = n, v[h + 1] = 255
    PROVE  Cardinality(MarksUpTo(v, h + 1)) = n + 1
BY CountMore

LEMMA CountSame ==
    ASSUME NEW v, NEW w, NEW b \in Nat, \A y \in 1..b : v[y] = w[y]
    PROVE  MarksUpTo(v, b) = MarksUpTo(w, b)
BY DEF MarksUpTo

LEMMA Least ==
    ASSUME NEW T, T \subseteq Nat, T # {}
    PROVE  LET t == CHOOSE x \in T : \A y \in T : x <= y IN t \in T /\ \A y \in T : t <= y
<1> DEFINE less == {ij \in Nat \X Nat : ij[1] < ij[2]}
<1>1. IsWellFoundedOn(less, Nat)
  BY NatLessThanWellFounded, Zenon DEF OpToRel
<1>0. \A j, k \in Nat : <<j, k>> \in less <=> j < k
  BY DEF less
<1> HIDE DEF less
<1>2. PICK x \in T : \A y \in T : ~(<<y, x>> \in less)
  BY <1>1, WFMin
<1>3. ASSUME NEW y \in T PROVE x <= y
  <2>1. x \in Nat /\ y \in Nat
    OBVIOUS
  <2>2. ~(y < x)
    BY <1>0, <1>2, <2>1
  <2> QED
    BY <2>1, <2>2
<1> QED
  BY <1>2, <1>3

\* What is known of import k.
LEMMA ImportOf ==
    ASSUME TableType, NEW own, NEW off, Layout(own, off), NEW k \in 1..iImports
    PROVE  /\ own[k] \in 1..Len(source)
           /\ k \in 1..(iImports + 1) /\ k + 1 \in 1..(iImports + 1)
           /\ off[k] \in Nat /\ off[k + 1] \in Nat /\ off[k + 1] <= Len(vecIAT)
           /\ off[k + 1] = off[k] + Len(ModOf(own[k])) + Len(FuncOf(own[k])) + 8
           /\ off[k] < off[k + 1]
           /\ RecordAt(vecIAT, off[k], ModOf(own[k]), FuncOf(own[k]), ParamsOf(own[k]), ConvOf(own[k]))
           /\ Cardinality(MarksUpTo(vecIAT, off[k])) = 2 * (k - 1)
           /\ ModOf(own[k]) \in Names /\ FuncOf(own[k]) \in Names /\ ParamsOf(own[k]) \in Counts
           /\ ConvOf(own[k]) \in 0..2
           /\ Len(ModOf(own[k])) \in Nat /\ Len(FuncOf(own[k])) \in Nat
<1>1. iImports \in Nat /\ source \in Sources /\ Len(vecIAT) \in Nat
  BY LenProperties DEF TableType
<1>2. k \in 1..(iImports + 1) /\ k + 1 \in 1..(iImports + 1)
  BY <1>1
<1>3. own[k] \in 1..Len(source)
  BY DEF Layout, Offsets
<1>4. off[k] \in 0..Len(vecIAT) /\ off[k + 1] \in 0..Len(vecIAT)
  BY <1>2 DEF Layout, Offsets
<1>5. off[k] \in Nat /\ off[k + 1] \in Nat /\ off[k + 1] <= Len(vecIAT)
  BY <1>1, <1>4
<1>6. /\ ModOf(own[k]) \in Names /\ FuncOf(own[k]) \in Names /\ ParamsOf(own[k]) \in Counts
      /\ ConvOf(own[k]) \in 0..2
      /\ Len(ModOf(own[k])) \in Nat /\ Len(FuncOf(own[k])) \in Nat
  BY <1>1, <1>3, LineTypes
<1>7. off[k + 1] = off[k] + SizeOf(own[k])
  BY DEF Layout, Offsets
<1>8. PICK m \in Nat, f \in Nat, b \in Nat, e \in Nat :
         m = Len(ModOf(own[k])) /\ f = Len(FuncOf(own[k])) /\ b = off[k] /\ e = off[k + 1]
  BY <1>5, <1>6, Zenon
<1>9. e = b + (m + f + 8)
  BY <1>7, <1>8 DEF SizeOf
<1>10. e = b + m + f + 8 /\ b < e
  BY <1>8, <1>9
<1>11. RecordAt(vecIAT, off[k], ModOf(own[k]), FuncOf(own[k]), ParamsOf(own[k]), ConvOf(own[k]))
  BY Zenon DEF Layout, Records
<1>12. Cardinality(MarksUpTo(vecIAT, off[k])) = 2 * (k - 1)
  BY <1>2, Zenon DEF Layout, Marks
<1> QED
  BY <1>2, <1>3, <1>5, <1>6, <1>8, <1>10, <1>11, <1>12

\* The index that IatContains takes from the marks is that of the record in which
\* it finds the names.
LEMMA Found ==
    ASSUME TableType, NEW own, NEW off, Layout(own, off),
           NEW mod \in Names, NEW func \in Names, NEW params \in Counts
    PROVE  \/ IatContains(vecIAT, mod, func, params) = -1
           \/ \E k \in 1..iImports :
                 /\ IatContains(vecIAT, mod, func, params) = k - 1
                 /\ func = FuncOf(own[k]) /\ params = ParamsOf(own[k])
                 /\ ConvOf(own[k]) = 0
                 /\ EndsIn(ModOf(own[k]), mod)
<1> DEFINE hits == {x \in 1..Len(vecIAT) : Matches(vecIAT, x, mod, func, params)}
           h == CHOOSE x \in hits : \A y \in hits : x <= y
<1>3. IatContains(vecIAT, mod, func, params)
        = IF hits = {} THEN -1 ELSE Cardinality(MarksUpTo(vecIAT, h)) \div 2
  BY Zenon DEF IatContains, MarksUpTo
<1>1. hits \subseteq 1..Len(vecIAT) /\ \A x \in hits : Matches(vecIAT, x, mod, func, params)
  OBVIOUS
<1>2. hits # {} /\ hits \subseteq Nat => h \in hits
  <2> HIDE DEF hits
  <2> QED
    BY Least, Zenon
<1> HIDE DEF hits, h
<1>4. CASE hits = {}
  BY <1>3, <1>4
<1>5. CASE hits # {}
  <2>1. vecIAT \in Seq(ByteSet) /\ iImports \in Nat /\ Len(vecIAT) \in Nat
    BY LenProperties DEF TableType
  <2>2. hits \subseteq Nat
    BY <1>1, <2>1
  <2>3. h \in hits
    BY <1>2, <1>5, <2>2
  <2>4. h \in 1..Len(vecIAT) /\ Matches(vecIAT, h, mod, func, params)
    BY <1>1, <2>3
  <2>5. PICK k \in 1..iImports : h \in (off[k] + 1)..off[k + 1]
    BY <2>4 DEF Layout, Covered
  <2>6. PICK b \in Nat, M \in Names, F \in Names, p \in Counts, c \in 0..2, m \in Nat, f \in Nat :
           /\ b = off[k] /\ M = ModOf(own[k]) /\ F = FuncOf(own[k]) /\ p = ParamsOf(own[k])
           /\ c = ConvOf(own[k]) /\ m = Len(M) /\ f = Len(F)
    BY ImportOf, Zenon
  <2>7. /\ RecordAt(vecIAT, b, M, F, p, c)
        /\ off[k + 1] = b + m + f + 8
        /\ Cardinality(MarksUpTo(vecIAT, b)) = 2 * (k - 1)
    BY <2>6, ImportOf, Zenon
  <2>8. h \in (b + 1)..(b + m + f + 8)
    BY <2>5, <2>6, <2>7, Zenon
  <2>9. /\ vecIAT[h] # 255 /\ h # b + m + f + 8
        /\ func = F /\ params = p /\ c = 0
        /\ EndsIn(M, mod)
    <3>1. h \in (b + 1)..(b + Len(M) + Len(F) + 8)
      BY <2>6, <2>8, Zenon
    <3>2. /\ vecIAT[h] # 255 /\ h # b + Len(M) + Len(F) + 8
          /\ func = F /\ params = p /\ c = 0
          /\ EndsIn(M, mod)
      <4>1. b \in Nat /\ M \in Names /\ F \in Names /\ p \in Counts /\ c \in 0..2
        BY <2>6
      <4>2. vecIAT \in Seq(ByteSet) /\ RecordAt(vecIAT, b, M, F, p, c)
        BY <2>1, <2>7
      <4>3. mod \in Names /\ func \in Names /\ params \in Counts
        OBVIOUS
      <4>4. Matches(vecIAT, h, mod, func, params)
        BY <2>4
      <4> QED
        BY ONLY <4>1, <4>2, <4>3, <4>4, <3>1, HitIsTail
    <3> QED
      BY <2>6, <3>2, Zenon
  <2>12. b \in Nat /\ m \in Nat /\ f \in Nat /\ h # b + m + f + 8
    BY <2>6, <2>9, Zenon
  <2>10. Cardinality(MarksUpTo(vecIAT, h)) = 2 * (k - 1) + 1
    <3>1. /\ vecIAT[b + 1] = 255
          /\ \A y \in (b + 2)..(b + m + f + 7) : vecIAT[y] # 255
      <4>1. /\ vecIAT[b + 1] = 255
            /\ \A y \in (b + 2)..(b + Len(M) + Len(F) + 7) : vecIAT[y] # 255
        <5>1. b \in Nat /\ M \in Names /\ F \in Names /\ p \in Counts /\ c \in 0..2
          BY <2>6
        <5>2. RecordAt(vecIAT, b, M, F, p, c)
          BY <2>7
        <5> QED
          BY ONLY <5>1, <5>2, RecordInside
      <4> QED
        BY <2>6, <4>1, Zenon
    <3>2. h \in Nat /\ h > b /\ h <= b + m + f + 7
      BY <2>8, <2>12
    <3>3. ASSUME NEW y \in (b + 2)..h PROVE vecIAT[y] # 255
      <4>1. y \in (b + 2)..(b + m + f + 7)
        BY <2>12, <3>2
      <4> QED
        BY <3>1, <4>1, Zenon
    <3>4. PICK n \in Nat : n = 2 * (k - 1)
      BY <2>1, <2>5
    <3>5. Cardinality(MarksUpTo(vecIAT, b)) = n
      BY <2>7, <3>4
    <3> QED
      <4>1. Cardinality(MarksUpTo(vecIAT, h)) = n + 1
        BY <2>12, <3>1, <3>2, <3>3, <3>4, <3>5, CountMore
      <4> QED
        BY <3>4, <4>1
  <2>11. (2 * (k - 1) + 1) \div 2 = k - 1
    BY <2>1, SMT
  <2> QED
    BY <1>3, <1>5, <2>6, <2>9, <2>10, <2>11
<1> QED
  BY <1>4, <1>5
----------------------------------------------------------------------------
(* Assemble *)

\* The record of a new import takes its place behind the others.
LEMMA Appends ==
    ASSUME TableType, NEW own, NEW off, Layout(own, off),
           NEW l \in 1..Len(source),
           source' = source, iImports' = iImports + 1,
           vecIAT' = vecIAT \o Entry(ModOf(l), FuncOf(l), ParamsOf(l), ConvOf(l))
    PROVE  /\ vecIAT' \in Seq(ByteSet)
           /\ \E own2, off2 :
                /\ Layout(own2, off2)'
                /\ own2[iImports + 1] = l
                /\ \A k \in 1..iImports : own2[k] = own[k]
<1>1. PICK n \in Nat : n = Len(vecIAT) /\ vecIAT \in Seq(ByteSet)
  BY LenProperties DEF TableType
<1>2. PICK M \in Names, F \in Names, p \in Counts, c \in 0..2 :
         M = ModOf(l) /\ F = FuncOf(l) /\ p = ParamsOf(l) /\ c = ConvOf(l)
  <2>1. source \in Sources
    BY DEF TableType
  <2>2. ModOf(l) \in Names /\ FuncOf(l) \in Names /\ ParamsOf(l) \in Counts /\ ConvOf(l) \in 0..2
    BY <2>1, LineTypes, Zenon
  <2> QED
    BY <2>2, Zenon
<1>3. PICK m \in Nat, f \in Nat : m = Len(M) /\ f = Len(F)
  <2>1. M \in Names /\ F \in Names
    BY <1>2
  <2> QED
    BY <2>1, NameBytes
<1>4. PICK z \in Nat : z = m + f + 8 /\ z >= 8
  <2>1. m \in Nat /\ f \in Nat
    BY <1>3
  <2>2. m + f + 8 \in Nat /\ m + f + 8 >= 8
    BY <2>1
  <2> QED
    BY <2>2
<1>5. PICK e \in Seq(ByteSet) :
         /\ e = Entry(M, F, p, c) /\ Len(e) = z
         /\ RecordAt(e, 0, M, F, p, c)
  <2>1. M \in Names /\ F \in Names /\ p \in Counts /\ c \in 0..2
    BY <1>2
  <2>2. /\ Entry(M, F, p, c) \in Seq(ByteSet) /\ Len(Entry(M, F, p, c)) = Len(M) + Len(F) + 8
        /\ RecordAt(Entry(M, F, p, c), 0, M, F, p, c)
    BY ONLY <2>1, EntryBytes
  <2> QED
    BY <1>3, <1>4, <2>2, Zenon
<1>6. PICK w : w = vecIAT'
  OBVIOUS
<1>7. /\ w \in Seq(ByteSet) /\ Len(w) = n + z
      /\ \A y \in 1..n : w[y] = vecIAT[y]
      /\ \A y \in (n + 1)..(n + z) : w[y] = e[y - n]
  <2>1. w = vecIAT \o e
    BY <1>2, <1>5, <1>6, Zenon
  <2>2. e \in Seq(ByteSet) /\ Len(e) = z /\ n \in Nat /\ z \in Nat
        /\ vecIAT \in Seq(ByteSet) /\ Len(vecIAT) = n
    BY <1>1, <1>4, <1>5, Zenon
  <2>3. /\ w \in Seq(ByteSet)
        /\ \A y \in 1..n : w[y] = vecIAT[y]
        /\ \A y \in (n + 1)..(n + z) : w[y] = e[y - n]
    BY ONLY <2>1, <2>2, Joined
  <2>4. Len(vecIAT \o e) = Len(vecIAT) + Len(e)
    BY <2>2, ConcatProperties, Zenon
  <2> QED
    BY <2>1, <2>2, <2>3, <2>4
<1>8. PICK j \in Nat : j = iImports
  BY DEF TableType
<1> DEFINE own2 == [k \in 1..(j + 1) |-> IF k <= j THEN own[k] ELSE l]
           off2 == [k \in 1..(j + 2) |-> IF k <= j + 1 THEN off[k] ELSE n + z]
<1>9. /\ \A k \in 1..j : own2[k] = own[k]
      /\ own2[j + 1] = l
      /\ \A k \in 1..(j + 1) : off2[k] = off[k]
      /\ off2[j + 2] = n + z
      /\ off[j + 1] = n /\ off[1] = 0
  BY <1>1, <1>8 DEF Layout, Offsets
<1>10. Offsets(own2, off2)'
  <2>1. own2 \in [1..(j + 1) -> 1..Len(source)]
    <3>1. ASSUME NEW k \in 1..(j + 1) PROVE (IF k <= j THEN own[k] ELSE l) \in 1..Len(source)
      <4>1. k <= j => k \in 1..iImports
        BY <1>8
      <4>2. k <= j => own[k] \in 1..Len(source)
        BY <4>1, ImportOf, Zenon
      <4> QED
        BY <4>2
    <3> QED
      BY <3>1
  <2>2. off2 \in [1..(j + 2) -> 0..(n + z)]
    <3>1. ASSUME NEW k \in 1..(j + 2) PROVE (IF k <= j + 1 THEN off[k] ELSE n + z) \in 0..(n + z)
      <4>1. k <= j + 1 => off[k] \in 0..n
        BY <1>1, <1>8 DEF Layout, Offsets
      <4> QED
        BY <1>1, <1>4, <4>1
    <3> QED
      BY <3>1
  <2>3. ASSUME NEW k \in 1..(j + 1) PROVE off2[k + 1] = off2[k] + SizeOf(own2[k])
    <3>1. CASE k \in 1..j
      <4>1. k + 1 \in 1..(j + 1) /\ k \in 1..(j + 1)
        BY <1>8, <3>1
      <4>2. off[k + 1] = off[k] + SizeOf(own[k])
        BY <1>8, <3>1 DEF Layout, Offsets
      <4> QED
        BY <1>9, <3>1, <4>1, <4>2
    <3>2. CASE k = j + 1
      <4>1. SizeOf(l) = z
        BY <1>2, <1>3, <1>4 DEF SizeOf
      <4>2. k + 1 = j + 2 /\ k \in 1..(j + 1)
        BY <1>8, <3>2
      <4> QED
        BY <1>9, <3>2, <4>1, <4>2
    <3> QED
      BY <1>8, <3>1, <3>2
  <2>4. off2[1] = 0
    BY <1>8, <1>9
  <2>5. ASSUME NEW k PROVE SizeOf(k)' = SizeOf(k)
    BY DEF SizeOf, ModOf, FuncOf
  <2>6. iImports' = j + 1 /\ iImports' + 1 = j + 2 /\ Len(vecIAT') = n + z
    BY <1>6, <1>7, <1>8
  <2> HIDE DEF own2, off2
  <2> QED
    BY <1>9, <2>1, <2>2, <2>3, <2>4, <2>5, <2>6 DEF Offsets
<1>11. Records(own2, off2)'
  <2> SUFFICES ASSUME NEW k \in 1..(j + 1)
               PROVE  RecordAt(w, off2[k], ModOf(own2[k]), FuncOf(own2[k]), ParamsOf(own2[k]), ConvOf(own2[k]))
    BY <1>6, <1>8 DEF Records, ModOf, FuncOf, ParamsOf, ConvOf
  <2> HIDE DEF own2, off2
  <2>1. CASE k \in 1..j
    <3>1. PICK b \in Nat, M1 \in Names, F1 \in Names, p1 \in Counts, c1 \in 0..2 :
             /\ b = off[k] /\ M1 = ModOf(own[k]) /\ F1 = FuncOf(own[k]) /\ p1 = ParamsOf(own[k])
             /\ c1 = ConvOf(own[k])
      <4>1. k \in 1..iImports
        BY <1>8, <2>1
      <4> QED
        BY <4>1, ImportOf, Zenon
    <3>2. /\ RecordAt(vecIAT, b, M1, F1, p1, c1) /\ b + Len(M1) + Len(F1) + 8 <= n
      <4>1. k \in 1..iImports
        BY <1>8, <2>1
      <4> QED
        BY <1>1, <3>1, <4>1, ImportOf, Zenon
    <3>3. \A y \in (b + 1)..(b + Len(M1) + Len(F1) + 8) : w[0 + y] = vecIAT[y]
      <4>1. b \in Nat /\ Len(M1) \in Nat /\ Len(F1) \in Nat
        BY <3>1, NameBytes, Zenon
      <4> QED
        BY <1>7, <3>2, <4>1
    <3>4. RecordAt(w, 0 + b, M1, F1, p1, c1)
      <4>1. b \in Nat /\ M1 \in Names /\ F1 \in Names /\ 0 \in Nat
        BY <3>1
      <4> QED
        BY ONLY <3>2, <3>3, <4>1, RecordMoves
    <3>5. 0 + b = b
      BY <3>1
    <3>6. off2[k] = b /\ own2[k] = own[k]
      <4>1. k \in 1..(j + 1)
        OBVIOUS
      <4> QED
        BY <1>9, <2>1, <3>1, Zenon
    <3> QED
      BY <3>1, <3>4, <3>5, <3>6, Zenon
  <2>2. CASE k = j + 1
    <3>1. \A y \in (0 + 1)..(0 + Len(M) + Len(F) + 8) : w[n + y] = e[y]
      <4>1. ASSUME NEW y \in (0 + 1)..(0 + Len(M) + Len(F) + 8) PROVE w[n + y] = e[y]
        <5>1. n + y \in (n + 1)..(n + z) /\ (n + y) - n = y
          BY <1>1, <1>3, <1>4
        <5> QED
          BY <1>7, <5>1
      <4> QED
        BY <4>1
    <3>2. RecordAt(w, n + 0, M, F, p, c)
      <4>1. n \in Nat /\ M \in Names /\ F \in Names /\ 0 \in Nat
        BY <1>1, <1>2
      <4>2. RecordAt(e, 0, M, F, p, c)
        BY <1>5
      <4> QED
        BY ONLY <3>1, <4>1, <4>2, RecordMoves
    <3>3. n + 0 = n
      BY <1>1
    <3>4. off2[k] = n /\ own2[k] = l
      <4>1. k \in 1..(j + 1)
        OBVIOUS
      <4> QED
        BY <1>9, <2>2, <4>1, Zenon
    <3> QED
      BY <1>2, <3>2, <3>3, <3>4, Zenon
  <2> QED
    BY <1>8, <2>1, <2>2
<1>12. Marks(off2)'
  <2> SUFFICES ASSUME NEW k \in 1..(j + 2)
               PROVE  Cardinality(MarksUpTo(w, off2[k])) = 2 * (k - 1)
    BY <1>6, <1>8 DEF Marks
  <2> HIDE DEF own2, off2
  <2>1. CASE k \in 1..(j + 1)
    <3>1. Cardinality(MarksUpTo(vecIAT, off[k])) = 2 * (k - 1)
      BY <1>8, <2>1 DEF Layout, Marks
    <3>2. off[k] \in 0..n
      BY <1>1, <1>8, <2>1 DEF Layout, Offsets
    <3>3. \A y \in 1..off[k] : w[y] = vecIAT[y]
      BY <1>1, <1>7, <3>2
    <3>4. off[k] \in Nat
      BY <3>2
    <3>5. MarksUpTo(w, off[k]) = MarksUpTo(vecIAT, off[k])
      BY ONLY <3>3, <3>4, CountSame
    <3> QED
      BY <1>9, <2>1, <3>1, <3>5
  <2>2. CASE k = j + 2
    <3>1. Cardinality(MarksUpTo(vecIAT, n)) = 2 * j
      <4>1. j + 1 \in 1..(iImports + 1) /\ (j + 1) - 1 = j
        BY <1>8
      <4> QED
        BY <1>9, <4>1 DEF Layout, Marks
    <3>2. MarksUpTo(w, n) = MarksUpTo(vecIAT, n)
      <4>1. n \in Nat /\ \A y \in 1..n : w[y] = vecIAT[y]
        BY <1>1, <1>7
      <4> QED
        BY ONLY <4>1, CountSame
    <3>3. RecordAt(w, n, M, F, p, c)
      <4>1. j + 1 \in 1..(j + 1) /\ own2[j + 1] = l /\ off2[j + 1] = n
        BY <1>8, <1>9
      <4>2. iImports' = j + 1
        BY <1>8
      <4>3. RecordAt(w, off2[j + 1], ModOf(own2[j + 1]), FuncOf(own2[j + 1]), ParamsOf(own2[j + 1]), ConvOf(own2[j + 1]))
        BY <1>6, <1>11, <4>1, <4>2, Zenon DEF Records, ModOf, FuncOf, ParamsOf, ConvOf
      <4> QED
        BY <1>2, <4>1, <4>3, Zenon
    <3>4. /\ w[n + 1] = 255 /\ w[n + Len(M) + Len(F) + 8] = 255
          /\ \A y \in (n + 2)..(n + Len(M) + Len(F) + 7) : w[y] # 255
      <4>1. n \in Nat /\ M \in Names /\ F \in Names /\ p \in Counts /\ c \in 0..2
        BY <1>1, <1>2
      <4> QED
        BY ONLY <3>3, <4>1, RecordInside
    <3>5. PICK h \in Nat : h = n + m + f + 7 /\ h > n /\ h + 1 = n + m + f + 8 /\ h + 1 = n + z
      <4>1. n \in Nat /\ m \in Nat /\ f \in Nat /\ z = m + f + 8
        BY <1>1, <1>3, <1>4
      <4> QED
        BY <4>1
    <3>6. w[n + 1] = 255 /\ w[h + 1] = 255 /\ \A y \in (n + 2)..h : w[y] # 255
      BY <1>3, <3>4, <3>5, Zenon
    <3>7. Cardinality(MarksUpTo(w, h)) = 2 * j + 1
      <4>1. n \in Nat /\ h \in Nat /\ 2 * j \in Nat /\ h > n
        BY <1>1, <1>8, <3>5
      <4>2. Cardinality(MarksUpTo(w, n)) = 2 * j
        BY <3>1, <3>2
      <4> QED
        BY ONLY <3>6, <4>1, <4>2, CountMore
    <3>8. Cardinality(MarksUpTo(w, h + 1)) = (2 * j + 1) + 1
      <4>1. h \in Nat /\ 2 * j + 1 \in Nat
        BY <1>8, <3>5
      <4> QED
        BY ONLY <3>6, <3>7, <4>1, CountEnd
    <3>9. off2[k] = h + 1 /\ 2 * (k - 1) = (2 * j + 1) + 1
      BY <1>8, <1>9, <2>2, <3>5, SMTT(30)
    <3> QED
      BY <3>8, <3>9
  <2> QED
    BY <1>8, <2>1, <2>2
<1>13. Covered(off2)'
  <2> SUFFICES ASSUME NEW h \in 1..(n + z)
               PROVE  \E k \in 1..(j + 1) : h \in (off2[k] + 1)..off2[k + 1]
    BY <1>6, <1>7, <1>8 DEF Covered
  <2> HIDE DEF own2, off2
  <2>1. CASE h <= n
    <3>1. h \in 1..Len(vecIAT)
      BY <1>1, <2>1
    <3>2. PICK k \in 1..iImports : h \in (off[k] + 1)..off[k + 1]
      BY <3>1 DEF Layout, Covered
    <3>3. k \in 1..(j + 1) /\ k + 1 \in 1..(j + 1)
      BY <1>8
    <3> QED
      BY <1>9, <3>2, <3>3
  <2>2. CASE h > n
    <3>1. j + 1 \in 1..(j + 1) /\ (j + 1) + 1 = j + 2
      BY <1>8
    <3>2. h \in (n + 1)..(n + z)
      BY <1>1, <2>2
    <3> QED
      BY <1>9, <3>1, <3>2
  <2> QED
    BY <1>1, <2>1, <2>2
<1>14. /\ vecIAT' \in Seq(ByteSet)
       /\ Layout(own2, off2)'
       /\ own2[iImports + 1] = l
       /\ \A k \in 1..iImports : own2[k] = own[k]
  <2> HIDE DEF own2, off2
  <2> QED
    BY <1>6, <1>7, <1>8, <1>9, <1>10, <1>11, <1>12, <1>13 DEF Layout
<1> QED
  BY <1>14, Zenon
----------------------------------------------------------------------------
(* The invariant of assembler and loader *)

Imported == [mod : Seq(ByteSet), func : Seq(ByteSet), params : Nat, callType : Nat, next : Nat]

\* The import is what line l says.
Reads(import, l) ==
    /\ import.mod = ModOf(l) /\ import.func = FuncOf(l)
    /\ import.params = ParamsOf(l) /\ import.callType = ConvOf(l)

\* As many records are parsed as there are imports.
Loads(own, off) ==
    /\ Len(imports) <= iImports
    /\ iNumIter = off[Len(imports) + 1]
    /\ \A k \in 1..Len(imports) : Reads(imports[k], own[k])

Linked ==
    \A k \in 1..Len(imports) :
        imports[k].next = IF k < Len(imports) THEN k + 1 ELSE IF k = 1 THEN 1 ELSE 0

\* The index of line l is that of an import that l made or shares.
ResolvedAt(l) ==
    \E k \in 1..l :
        /\ k = l \/ Shares(l, k)
        /\ args0[l] + 1 \in 1..Len(imports)
        /\ Reads(imports[args0[l] + 1], k)

Resolved == \A l \in 1..Len(source) : ResolvedAt(l)

Building == phase \in {"assemble", "load"}

Built == \E own, off : Layout(own, off) /\ Resolves(own) /\ Loads(own, off)

TableInv ==
    /\ TableType
    /\ imports \in Seq(Imported)
    /\ Linked
    /\ phase = "assemble" => imports = <<>>
    /\ phase # "assemble" => Len(args0) = Len(source)
    /\ Building => Built
    /\ ~Building => Resolved
----------------------------------------------------------------------------
(* The invariant of NatvHandler *)

Taken == ParamsOf(natv)

\* The parameters that lie on the host's stack after k rounds.
Passed(k) == SubSeq(pushed, Taken - k + 1, IF Import.callType > 1 THEN Taken - 2 ELSE Taken)

NoManyByFastcall == \A l \in DOMAIN source : source[l].conv = "fastcall" => source[l].params <= 2

InCall == phase \in {"walk", "push", "save", "call", "clean"}

HandlerType ==
    /\ phase \in {"assemble", "load", "ready", "walk", "push", "save", "call", "clean"}
    /\ natv \in 0..Len(source)
    /\ ecx \in Int /\ edx \in Int
    /\ InCall => natv # 0 /\ pushed \in VmStacks
    /\ phase \in {"walk", "push"} => vmStack = pushed

AtRest ==
    /\ phase \in {"assemble", "load", "ready", "walk"} => stack = Frame
    /\ Building => natv = 0
    /\ phase = "ready" /\ natv # 0 => vmStack = Drop(pushed, Taken)
    /\ phase \notin {"call", "clean"} /\ NoManyByFastcall => ecx = SavedEcx /\ edx = SavedEdx

Walks ==
    /\ phase = "walk" =>
          /\ iNumImp \in 0..args0[natv] /\ pTrain = iNumImp + 1
          /\ i = 0 /\ iEcx \in Int /\ iEdx \in Int
    /\ InHandler => pTrain = args0[natv] + 1

\* ecx and edx get the first two parameters.
InRegisters(k, inEcx, inEdx) ==
    /\ inEcx \in Int /\ inEdx \in Int
    /\ k >= 1 => inEcx = pushed[Taken]
    /\ k >= 2 => inEdx = pushed[Taken - 1]

Pushes ==
    /\ phase = "push" => i \in 0..Taken
    /\ phase \in {"save", "call", "clean"} => i = Taken /\ vmStack = Drop(pushed, Taken)
    /\ phase \in {"push", "save"} =>
          /\ stack = Passed(i) \o Frame
          /\ iEcx \in Int /\ iEdx \in Int
          /\ Import.callType > 1 => InRegisters(i, iEcx, iEdx)

\* Below the saved registers.
Saves ==
    phase = "call" =>
        /\ Import.callType <= 1 =>
              /\ stack = Passed(Taken) \o Frame
              /\ NoManyByFastcall => ecx = SavedEcx /\ edx = SavedEdx
        /\ Import.callType > 1 =>
              /\ stack \in Seq(Int) /\ Len(stack) >= 2
              /\ Drop(stack, 2) = Passed(Taken) \o Frame
              /\ NoManyByFastcall => stack[1] = SavedEdx /\ stack[2] = SavedEcx
              /\ InRegisters(Taken, ecx, edx)

Cleans ==
    phase = "clean" =>
        /\ Import.callType = 0 => stack = First(pushed, Taken) \o Frame
        /\ Import.callType = 1 => stack = Frame
        /\ Import.callType <= 1 =>
              /\ received = First(pushed, Taken)
              /\ NoManyByFastcall => ecx = SavedEcx /\ edx = SavedEdx
        /\ Import.callType > 1 =>
              /\ stack \in Seq(Int) /\ Len(stack) >= 2
              /\ Drop(stack, 2) = Frame
              /\ NoManyByFastcall => stack[1] = SavedEdx /\ stack[2] = SavedEcx
              /\ Taken <= 2 => received = Reversed(First(pushed, Taken))

HandlerInv == HandlerType /\ AtRest /\ Walks /\ Pushes /\ Saves /\ Cleans

IInv == TableInv /\ HandlerInv
----------------------------------------------------------------------------
(* The steps of assembler and loader *)

LEMMA TableInit == Init => TableInv
<1> SUFFICES ASSUME Init PROVE TableInv
  OBVIOUS
<1> USE DEF Init
<1>1. TableType /\ imports \in Seq(Imported)
  <2>1. <<>> \in Seq(ByteSet) /\ <<>> \in Seq(Nat) /\ Len(<<>>) = 0 /\ <<>> \in Seq(Imported)
    OBVIOUS
  <2>2. Len(source) \in Nat
    BY SourcesAssumption, LenProperties
  <2> QED
    BY <2>1, <2>2 DEF TableType
<1>2. Linked
  BY DEF Linked
<1>3. Built
  <2> DEFINE own == [k \in 1..0 |-> 1]
             off == [k \in 1..1 |-> 0]
  <2>1. Offsets(own, off)
    BY DEF Offsets
  <2>2. Records(own, off) /\ Covered(off) /\ Resolves(own)
    BY DEF Records, Covered, Resolves
  <2>3. Marks(off)
    <3>1. MarksUpTo(vecIAT, 0) = {}
      BY DEF MarksUpTo
    <3>2. Cardinality({}) = 0
      BY FS_EmptySet
    <3>3. \A k \in 1..1 : off[k] = 0 /\ 2 * (k - 1) = 0
      OBVIOUS
    <3> QED
      BY <3>1, <3>2, <3>3 DEF Marks
  <2>4. Loads(own, off)
    BY DEF Loads
  <2> HIDE DEF own, off
  <2> QED
    BY <2>1, <2>2, <2>3, <2>4 DEF Built, Layout
<1> QED
  BY <1>1, <1>2, <1>3 DEF TableInv, Building

LEMMA AssembleKeepsTable == TableInv /\ Assemble => TableInv'
<1> SUFFICES ASSUME TableInv, Assemble PROVE TableInv'
  OBVIOUS
<1>1. /\ phase = "assemble" /\ phase' = "assemble" /\ imports = <<>> /\ imports' = <<>>
      /\ source' = source /\ iNumIter' = iNumIter /\ TableType
      /\ Len(args0) < Len(source)
  BY DEF Assemble, TableInv, loading
<1>2. PICK own, off : Layout(own, off) /\ Resolves(own) /\ Loads(own, off)
  BY <1>1 DEF TableInv, Building, Built
<1>3. iNumIter = 0 /\ off[1] = 0
  BY <1>1, <1>2 DEF Loads, Layout, Offsets
<1>4. PICK n \in Nat : n = Len(args0) /\ args0 \in Seq(Nat) /\ n < Len(source)
  BY <1>1, LenProperties DEF TableType
<1>5. Len(source) \in Nat /\ source \in Sources /\ iImports \in Nat
  <2>1. source \in Sources /\ source \in Seq(NatvLines) /\ iImports \in Nat
    BY <1>1, SourcesAssumption DEF TableType
  <2> QED
    BY <2>1, LenProperties
<1>6. PICK l \in 1..Len(source) : l = n + 1
  BY <1>4, <1>5
<1>7. ModOf(l) \in Names /\ FuncOf(l) \in Names /\ ParamsOf(l) \in Counts /\ ConvOf(l) \in 0..2
      /\ (ConvOf(l) = 0 => source[l].conv = "cdecl")
  BY <1>5, LineTypes, Zenon
<1>8. PICK iRes : iRes = IatContains(vecIAT, ModOf(l), FuncOf(l), ParamsOf(l))
  OBVIOUS
<1>9. \/ /\ iRes = -1
         /\ vecIAT' = vecIAT \o Entry(ModOf(l), FuncOf(l), ParamsOf(l), ConvOf(l))
         /\ iImports' = iImports + 1
         /\ args0' = Append(args0, iImports)
      \/ /\ iRes # -1
         /\ args0' = Append(args0, iRes)
         /\ vecIAT' = vecIAT /\ iImports' = iImports
  BY <1>4, <1>6, <1>8 DEF Assemble, ModOf, FuncOf, ParamsOf, ConvOf
<1>10. ASSUME NEW r \in Nat, args0' = Append(args0, r)
       PROVE  /\ args0' \in Seq(Nat) /\ Len(args0') = n + 1 /\ args0'[n + 1] = r
              /\ \A m \in 1..n : args0'[m] = args0[m]
  BY <1>4, <1>10
<1>11. ASSUME NEW a, NEW k PROVE Shares(a, k)' = Shares(a, k)
  BY <1>1 DEF Shares, EndsIn, Drop
<1>12. n + 1 <= Len(source)
  BY <1>4, <1>5
<1>13. ASSUME Built', vecIAT' \in Seq(ByteSet), iImports' \in Nat, args0' \in Seq(Nat), Len(args0') = n + 1
       PROVE  TableInv'
  <2>1. TableType'
    BY <1>1, <1>5, <1>12, <1>13 DEF TableType
  <2>2. imports' \in Seq(Imported) /\ Linked'
    BY <1>1 DEF Linked
  <2> QED
    BY <1>1, <1>13, <2>1, <2>2 DEF TableInv, Building
<1>14. CASE iRes = -1
  <2>1. /\ vecIAT' = vecIAT \o Entry(ModOf(l), FuncOf(l), ParamsOf(l), ConvOf(l))
        /\ iImports' = iImports + 1
        /\ args0' = Append(args0, iImports)
    BY <1>9, <1>14
  <2>2. PICK own2, off2 :
           /\ Layout(own2, off2)'
           /\ own2[iImports + 1] = l
           /\ \A k \in 1..iImports : own2[k] = own[k]
    BY <1>1, <1>2, <2>1, Appends, Zenon
  <2>3. vecIAT' \in Seq(ByteSet)
    BY <1>1, <1>2, <2>1, Appends, Zenon
  <2>4. /\ args0' \in Seq(Nat) /\ Len(args0') = n + 1 /\ args0'[n + 1] = iImports
        /\ \A m \in 1..n : args0'[m] = args0[m]
    BY <1>5, <1>10, <2>1, Zenon
  <2>5. Resolves(own2)'
    <3>1. ASSUME NEW k \in 1..(iImports + 1) PROVE own2[k] <= n + 1
      <4>1. CASE k \in 1..iImports
        <5>1. own[k] <= n /\ own[k] \in 1..Len(source)
          BY <1>1, <1>2, <1>4, <4>1, ImportOf, Zenon DEF Resolves
        <5> QED
          BY <1>4, <1>5, <2>2, <4>1, <5>1
      <4>2. CASE k = iImports + 1
        BY <1>4, <1>6, <2>2, <4>2
      <4> QED
        BY <1>5, <4>1, <4>2
    <3>2. ASSUME NEW a \in 1..(n + 1)
          PROVE  \E k \in 1..(iImports + 1) :
                    args0'[a] = k - 1 /\ own2[k] <= a /\ (own2[k] = a \/ Shares(a, own2[k]))
      <4>1. CASE a \in 1..n
        <5>1. PICK k \in 1..iImports :
                 args0[a] = k - 1 /\ own[k] <= a /\ (own[k] = a \/ Shares(a, own[k]))
          BY <1>2, <1>4, <4>1 DEF Resolves
        <5>2. k \in 1..(iImports + 1)
          BY <1>5
        <5> QED
          BY <2>2, <2>4, <4>1, <5>1, <5>2, Zenon
      <4>2. CASE a = n + 1
        <5>1. iImports + 1 \in 1..(iImports + 1) /\ (iImports + 1) - 1 = iImports
          BY <1>5
        <5>2. own2[iImports + 1] = a /\ own2[iImports + 1] <= a
          BY <1>4, <1>6, <2>2, <4>2
        <5> QED
          BY <2>4, <4>2, <5>1, <5>2
      <4> QED
        BY <1>4, <4>1, <4>2
    <3> QED
      BY <1>11, <2>1, <2>4, <3>1, <3>2, Zenon DEF Resolves
  <2>6. Loads(own2, off2)'
    <3>1. off2[1] = 0
      BY <2>2 DEF Layout, Offsets
    <3>2. Len(imports') = 0 /\ iNumIter' = 0 /\ iImports' \in Nat
      BY <1>1, <1>3, <1>5, <2>1
    <3> QED
      BY <3>1, <3>2 DEF Loads
  <2>7. Built'
    BY <2>2, <2>5, <2>6, Zenon DEF Built
  <2>8. iImports' \in Nat
    BY <1>5, <2>1
  <2> QED
    BY <1>13, <2>3, <2>4, <2>7, <2>8
<1>15. CASE iRes # -1
  <2>1. /\ args0' = Append(args0, iRes) /\ vecIAT' = vecIAT /\ iImports' = iImports
    BY <1>9, <1>15
  <2>2. PICK k \in 1..iImports :
           /\ iRes = k - 1
           /\ FuncOf(l) = FuncOf(own[k]) /\ ParamsOf(l) = ParamsOf(own[k])
           /\ ConvOf(own[k]) = 0
           /\ EndsIn(ModOf(own[k]), ModOf(l))
    BY <1>1, <1>2, <1>7, <1>8, <1>15, Found, Zenon
  <2>3. iRes \in Nat
    BY <1>5, <2>2
  <2>4. /\ args0' \in Seq(Nat) /\ Len(args0') = n + 1 /\ args0'[n + 1] = iRes
        /\ \A m \in 1..n : args0'[m] = args0[m]
    BY <1>10, <2>1, <2>3, Zenon
  <2>5. own[k] \in 1..Len(source) /\ own[k] <= n
    BY <1>1, <1>2, <1>4, ImportOf, Zenon DEF Resolves
  <2>6. Shares(l, own[k])
    <3>1. source[own[k]].conv = "cdecl"
      BY <1>5, <2>2, <2>5, LineTypes, Zenon
    <3> QED
      BY <2>2, <3>1 DEF Shares, FuncOf, ParamsOf, ModOf
  <2>7. Resolves(own)'
    <3>1. ASSUME NEW j \in 1..iImports PROVE own[j] <= n + 1
      <4>1. own[j] <= n /\ own[j] \in 1..Len(source)
        BY <1>1, <1>2, <1>4, ImportOf, Zenon DEF Resolves
      <4> QED
        BY <1>4, <1>5, <4>1
    <3>2. ASSUME NEW a \in 1..(n + 1)
          PROVE  \E j \in 1..iImports :
                    args0'[a] = j - 1 /\ own[j] <= a /\ (own[j] = a \/ Shares(a, own[j]))
      <4>1. CASE a \in 1..n
        <5>1. PICK j \in 1..iImports :
                 args0[a] = j - 1 /\ own[j] <= a /\ (own[j] = a \/ Shares(a, own[j]))
          BY <1>2, <1>4, <4>1 DEF Resolves
        <5> QED
          BY <2>4, <4>1, <5>1, Zenon
      <4>2. CASE a = n + 1
        <5>1. own[k] <= a
          BY <1>4, <1>5, <2>5, <4>2
        <5> QED
          BY <1>6, <2>2, <2>4, <2>6, <4>2, <5>1
      <4> QED
        BY <1>4, <4>1, <4>2
    <3> QED
      BY <1>11, <2>1, <2>4, <3>1, <3>2, Zenon DEF Resolves
  <2>8. Layout(own, off)' /\ Loads(own, off)'
    <3>1. Layout(own, off)' = Layout(own, off)
      BY <1>1, <2>1 DEF Layout, Offsets, Records, Marks, Covered, ModOf, FuncOf, ParamsOf, ConvOf, SizeOf
    <3>2. Loads(own, off)' = Loads(own, off)
      BY <1>1, <2>1 DEF Loads, Reads, ModOf, FuncOf, ParamsOf, ConvOf
    <3> QED
      BY <1>2, <3>1, <3>2
  <2>9. Built'
    BY <2>7, <2>8, Zenon DEF Built
  <2> QED
    BY <1>1, <1>5, <1>13, <2>1, <2>4, <2>9 DEF TableType
<1> QED
  BY <1>14, <1>15

LEMMA WriteKeepsTable == TableInv /\ Write => TableInv'
<1> SUFFICES ASSUME TableInv, Write PROVE TableInv'
  OBVIOUS
<1>1. /\ phase = "assemble" /\ phase' = "load" /\ Len(args0) = Len(source)
      /\ source' = source /\ vecIAT' = vecIAT /\ iImports' = iImports /\ args0' = args0
      /\ iNumIter' = iNumIter /\ imports' = imports
  BY DEF Write, assembling, loading
<1>2. PICK own, off : Layout(own, off) /\ Resolves(own) /\ Loads(own, off)
  BY <1>1 DEF TableInv, Building, Built
<1>3. /\ Layout(own, off)' = Layout(own, off)
      /\ Loads(own, off)' = Loads(own, off)
  BY <1>1 DEF Layout, Offsets, Records, Marks, Covered, Loads, Reads, ModOf, FuncOf, ParamsOf, ConvOf, SizeOf
<1>4. Resolves(own)' = Resolves(own)
  BY <1>1 DEF Resolves, Shares, EndsIn, Drop
<1>5. TableType' = TableType /\ Linked' = Linked
  BY <1>1 DEF TableType, Linked
<1>6. Built'
  BY <1>2, <1>3, <1>4, Zenon DEF Built
<1> QED
  BY <1>1, <1>5, <1>6 DEF TableInv, Building

\* The first zero behind byte b ends the name there.
LEMMA StringIs ==
    ASSUME vecIAT \in Seq(ByteSet), NEW b \in Nat, NEW s \in Names, NEW n \in Nat, n = Len(s),
           b + n + 2 <= Len(vecIAT),
           \A y \in (b + 2)..(b + n + 1) : vecIAT[y] = s[y - b - 1],
           vecIAT[b + n + 2] = 0
    PROVE  StringBehind(b) = s
<1>1. Len(vecIAT) \in Nat /\ s \in Seq(ByteSet)
  BY LenProperties, NameBytes
<1>2. ASSUME NEW y \in (b + 2)..(b + n + 1) PROVE vecIAT[y] # 0
  <2>1. y - b - 1 \in 1..n
    OBVIOUS
  <2>2. Plain(s[y - b - 1])
    BY <2>1, NameBytes, Zenon
  <2> QED
    BY <2>2 DEF Plain
<1> DEFINE ends(e) == vecIAT[e] = 0 /\ \A j \in (b + 2)..(e - 1) : vecIAT[j] # 0
           end == CHOOSE e \in (b + 2)..Len(vecIAT) : ends(e)
<1>3. PICK z \in (b + 2)..Len(vecIAT) : z = b + n + 2
  BY <1>1
<1>4. ends(z)
  <2>1. z - 1 = b + n + 1
    BY <1>3
  <2> QED
    BY <1>2, <1>3, <2>1
<1>5. end \in (b + 2)..Len(vecIAT) /\ ends(end)
  <2> HIDE DEF ends
  <2> QED
    BY <1>4
<1>6. StringBehind(b) = SubSeq(vecIAT, b + 2, end - 1)
  BY DEF StringBehind
<1>7. end = z
  <2> HIDE DEF end
  <2>1. ~(end < z)
    <3>1. end < z => end \in (b + 2)..(b + n + 1)
      BY <1>3, <1>5
    <3> QED
      BY <1>2, <1>5, <3>1
  <2>2. ~(z < end)
    <3>1. z < end => z \in (b + 2)..(end - 1)
      BY <1>3, <1>5
    <3> QED
      BY <1>4, <1>5, <3>1
  <2> QED
    BY <1>3, <1>5, <2>1, <2>2
<1> HIDE DEF end, ends
<1>8. PICK a \in Nat, e \in Nat : a = b + 2 /\ e = b + n + 1
  <2>1. b + 2 \in Nat /\ b + n + 1 \in Nat
    OBVIOUS
  <2> QED
    BY <2>1, Zenon
<1>12. PICK r : r = SubSeq(vecIAT, a, e)
  OBVIOUS
<1>13. r = StringBehind(b)
  <2>1. end - 1 = e
    BY <1>3, <1>7, <1>8
  <2> QED
    BY <1>6, <1>8, <1>12, <2>1
<1>9. r \in Seq(ByteSet) /\ Len(r) = n /\ \A y \in 1..n : r[y] = vecIAT[a + y - 1]
  <2>1. a \in Nat /\ e \in Nat /\ a <= e + 1 /\ e - a + 1 = n /\ e <= Len(vecIAT) /\ a >= 1
    BY <1>8
  <2>2. \A y \in a..e : vecIAT[y] \in ByteSet
    BY <1>1, <2>1, ElementOfSeq
  <2>3. /\ r \in Seq(ByteSet) /\ Len(r) = e - a + 1
        /\ \A y \in 1..(e - a + 1) : r[y] = vecIAT[a + y - 1]
    BY <1>12, <2>1, <2>2, Part
  <2> QED
    BY <2>1, <2>3, Zenon
<1>10. ASSUME NEW y \in 1..n PROVE r[y] = s[y]
  <2>1. a + y - 1 \in (b + 2)..(b + n + 1) /\ (a + y - 1) - b - 1 = y
    BY <1>8
  <2>2. vecIAT[a + y - 1] = s[(a + y - 1) - b - 1]
    BY <2>1
  <2> QED
    BY <1>9, <2>1, <2>2
<1>11. r = s
  BY <1>1, <1>9, <1>10, SeqEqual
<1> QED
  BY <1>11, <1>13

LEMMA AppendedIs ==
    ASSUME imports \in Seq(Imported), Linked, NEW n \in Nat, n = Len(imports),
           NEW new \in Imported, new.next = 0, imports' = Appended(new)
    PROVE  /\ imports' \in Seq(Imported) /\ Len(imports') = n + 1
           /\ Linked'
           /\ \A k \in 1..n : /\ imports'[k].mod = imports[k].mod
                              /\ imports'[k].func = imports[k].func
                              /\ imports'[k].params = imports[k].params
                              /\ imports'[k].callType = imports[k].callType
           /\ /\ imports'[n + 1].mod = new.mod
              /\ imports'[n + 1].func = new.func
              /\ imports'[n + 1].params = new.params
              /\ imports'[n + 1].callType = new.callType
<1>1. PICK p \in 1..(n + 1) : p = IF n + 1 = 1 THEN 1 ELSE n + 1 - 1
  OBVIOUS
<1>2. PICK a : a = Append(imports, new)
  OBVIOUS
<1>3. /\ a \in Seq(Imported) /\ Len(a) = n + 1
      /\ \A k \in 1..n : a[k] = imports[k]
      /\ a[n + 1] = new
  BY <1>2
<1>4. DOMAIN a = 1..(n + 1)
  BY <1>3
<1>5. imports' = [a EXCEPT ![p] = [@ EXCEPT !.next = n + 1]]
  <2>1. n = Len(imports) /\ imports' = Appended(new)
    OBVIOUS
  <2>2. p = (IF n + 1 = 1 THEN 1 ELSE n + 1 - 1)
    BY <1>1
  <2>3. Appended(new) = [a EXCEPT ![p] = [@ EXCEPT !.next = n + 1]]
    <3>1. n = Len(imports)
      BY <2>1
    <3> QED
      BY ONLY <1>2, <2>2, <3>1, SMTT(30) DEF Appended
  <2> QED
    BY ONLY <2>1, <2>3
<1>6. ASSUME NEW k \in 1..(n + 1)
      PROVE  /\ a[k] \in Imported
             /\ imports'[k] \in Imported
             /\ imports'[k].mod = a[k].mod /\ imports'[k].func = a[k].func
             /\ imports'[k].params = a[k].params /\ imports'[k].callType = a[k].callType
             /\ imports'[k].next = IF k = p THEN n + 1 ELSE a[k].next
  <2>1. a[k] \in Imported
    BY <1>3, ElementOfSeq
  <2>2. imports'[k] = IF k = p THEN [a[k] EXCEPT !.next = n + 1] ELSE a[k]
    BY <1>1, <1>4, <1>5
  <2>3. CASE k # p
    BY <2>1, <2>2, <2>3
  <2>4. CASE k = p
    <3>1. PICK x \in Imported : x = a[k]
      BY <2>1
    <3>2. PICK m \in Nat : m = n + 1
      OBVIOUS
    <3>3. imports'[k] = [x EXCEPT !.next = m]
      BY <2>2, <2>4, <3>1, <3>2
    <3>4. /\ [x EXCEPT !.next = m] \in Imported
          /\ [x EXCEPT !.next = m].mod = x.mod /\ [x EXCEPT !.next = m].func = x.func
          /\ [x EXCEPT !.next = m].params = x.params
          /\ [x EXCEPT !.next = m].callType = x.callType
          /\ [x EXCEPT !.next = m].next = m
      BY <3>1, <3>2 DEF Imported
    <3> QED
      BY <2>1, <2>4, <3>1, <3>2, <3>3, <3>4
  <2> QED
    BY <2>3, <2>4
<1>7. imports' \in Seq(Imported) /\ Len(imports') = n + 1
  <2>1. imports' \in [1..(n + 1) -> Imported]
    <3>1. DOMAIN imports' = 1..(n + 1)
      BY <1>4, <1>5
    <3>2. imports' = [k \in 1..(n + 1) |-> imports'[k]]
      BY <1>4, <1>5
    <3> QED
      BY <1>6, <3>1, <3>2
  <2> QED
    BY <2>1
<1>8. Linked'
  <2> SUFFICES ASSUME NEW k \in 1..(n + 1)
               PROVE  imports'[k].next = IF k < n + 1 THEN k + 1 ELSE IF k = 1 THEN 1 ELSE 0
    BY <1>7 DEF Linked
  <2>1. CASE k = n + 1
    <3>1. a[k].next = 0
      BY <1>3, <2>1
    <3> QED
      BY <1>1, <1>6, <2>1, <3>1
  <2>2. CASE k = n
    <3>1. p = k
      BY <1>1, <2>2
    <3> QED
      BY <1>6, <2>2, <3>1
  <2>3. CASE k < n
    <3>1. k \in 1..n /\ p # k
      BY <1>1, <2>3
    <3>2. imports[k].next = k + 1
      BY <2>3, <3>1 DEF Linked
    <3>3. a[k].next = imports[k].next
      BY <1>3, <3>1
    <3> QED
      BY <1>6, <2>3, <3>1, <3>2, <3>3
  <2> QED
    BY <2>1, <2>2, <2>3
<1>9. n + 1 \in 1..(n + 1) /\ \A k \in 1..n : k \in 1..(n + 1)
  OBVIOUS
<1> QED
  BY <1>3, <1>6, <1>7, <1>8, <1>9

\* What the loader reads next is import k, from the record of its line.
LEMMA NextRecord ==
    ASSUME TableType, imports \in Seq(Imported), iNumIter < Len(vecIAT),
           NEW own, NEW off, Layout(own, off), Loads(own, off)
    PROVE  /\ Len(imports) + 1 \in 1..iImports
           /\ iNumIter = off[Len(imports) + 1]
<1>1. PICK n \in Nat : n = Len(imports)
  BY LenProperties
<1>2. iImports \in Nat /\ n <= iImports /\ iNumIter = off[n + 1] /\ off[iImports + 1] = Len(vecIAT)
  BY <1>1 DEF TableType, Loads, Layout, Offsets
<1>3. Len(vecIAT) \in Nat
  BY LenProperties DEF TableType
<1>4. n # iImports
  BY <1>2, <1>3
<1> QED
  BY <1>1, <1>2, <1>4

LEMMA ParseKeepsTable == TableInv /\ Parse => TableInv'
<1> SUFFICES ASSUME TableInv, Parse PROVE TableInv'
  OBVIOUS
<1>1. /\ phase = "load" /\ phase' = "load" /\ iNumIter < Len(vecIAT)
      /\ source' = source /\ vecIAT' = vecIAT /\ iImports' = iImports /\ args0' = args0
      /\ TableType /\ imports \in Seq(Imported) /\ Linked /\ Len(args0) = Len(source)
  BY DEF Parse, TableInv, assembling
<1>2. PICK own, off : Layout(own, off) /\ Resolves(own) /\ Loads(own, off)
  BY <1>1 DEF TableInv, Building, Built
<1>3. PICK n \in Nat : n = Len(imports)
  BY <1>1, LenProperties
<1>4. PICK k \in 1..iImports : k = n + 1 /\ iNumIter = off[k]
  BY <1>1, <1>2, <1>3, NextRecord
<1>5. PICK b \in Nat, M \in Names, F \in Names, p \in Counts, c \in 0..2, m \in Nat, f \in Nat :
         /\ b = off[k] /\ M = ModOf(own[k]) /\ F = FuncOf(own[k]) /\ p = ParamsOf(own[k])
         /\ c = ConvOf(own[k]) /\ m = Len(M) /\ f = Len(F)
  BY <1>1, <1>2, ImportOf, Zenon
<1>6. /\ RecordAt(vecIAT, b, M, F, p, c)
      /\ off[k + 1] = b + m + f + 8
      /\ b + m + f + 8 <= Len(vecIAT)
  BY <1>1, <1>2, <1>5, ImportOf, Zenon
<1>7. b \in Nat /\ m \in Nat /\ f \in Nat /\ vecIAT \in Seq(ByteSet) /\ Len(vecIAT) \in Nat
  <2>1. vecIAT \in Seq(ByteSet)
    BY <1>1 DEF TableType
  <2> QED
    BY <1>5, <2>1, LenProperties
<1>8. /\ vecIAT[b + m + 2] = 0 /\ vecIAT[b + m + f + 3] = 0
      /\ \A y \in (b + 2)..(b + m + 1) : vecIAT[y] = M[y - b - 1]
      /\ \A y \in (b + m + 3)..(b + m + 2 + f) : vecIAT[y] = F[y - (b + m + 2)]
      /\ vecIAT[b + m + f + 4] = p /\ vecIAT[b + m + f + 5] = 0
      /\ vecIAT[b + m + f + 6] = c /\ vecIAT[b + m + f + 7] = 0
  <2>1. RecordAt(vecIAT, b, M, F, p, c) /\ m = Len(M) /\ f = Len(F)
    BY <1>5, <1>6
  <2> QED
    BY ONLY <1>7, <2>1 DEF RecordAt
<1>9. StringBehind(b) = M
  <2>1. b + m + 2 <= Len(vecIAT)
    BY <1>6, <1>7
  <2>2. M \in Names /\ m = Len(M)
    BY <1>5
  <2> QED
    BY ONLY <1>7, <1>8, <2>1, <2>2, StringIs
<1>10. PICK g \in Nat : g = b + m + 1
  BY <1>7
<1>11. StringBehind(g) = F
  <2>1. F \in Names /\ f = Len(F)
    BY <1>5
  <2>2. g + f + 2 <= Len(vecIAT) /\ g + f + 2 = b + m + f + 3
    BY <1>6, <1>7, <1>10
  <2>3. ASSUME NEW y \in (g + 2)..(g + f + 1) PROVE vecIAT[y] = F[y - g - 1]
    <3>1. y \in (b + m + 3)..(b + m + 2 + f) /\ y - (b + m + 2) = y - g - 1
      BY <1>7, <1>10
    <3>2. vecIAT[y] = F[y - (b + m + 2)]
      BY <1>8, <3>1
    <3> QED
      BY <3>1, <3>2
  <2>4. vecIAT[g + f + 2] = 0
    BY <1>8, <2>2
  <2> QED
    BY ONLY <1>7, <1>10, <2>1, <2>2, <2>3, <2>4, StringIs
<1>12. PICK w \in Nat : w = b + m + f + 2
  BY <1>7
<1>13. WordBehind(w) = p /\ WordBehind(w + 2) = c
  <2>1. w + 2 = b + m + f + 4 /\ w + 3 = b + m + f + 5
        /\ (w + 2) + 2 = b + m + f + 6 /\ (w + 2) + 3 = b + m + f + 7
    BY <1>7, <1>12
  <2>2. vecIAT[w + 2] = p /\ vecIAT[w + 3] = 0 /\ vecIAT[(w + 2) + 2] = c /\ vecIAT[(w + 2) + 3] = 0
    BY <1>8, <2>1
  <2>3. p \in Int /\ c \in Int
    BY SMT DEF Counts
  <2> QED
    BY <2>2, <2>3 DEF WordBehind
<1>14. iNumIter = b /\ b + Len(StringBehind(b)) + 1 = g /\ g + Len(StringBehind(g)) + 1 = w
  <2>1. Len(StringBehind(b)) = m /\ Len(StringBehind(g)) = f
    BY <1>5, <1>9, <1>11, Zenon
  <2>2. iNumIter = b
    BY <1>4, <1>5, Zenon
  <2>3. b + m + 1 = g /\ g + f + 1 = w
    BY ONLY <1>7, <1>10, <1>12
  <2> QED
    BY <2>1, <2>2, <2>3, Zenon
<1>15. PICK new : new = [mod |-> M, func |-> F, params |-> p, callType |-> c, next |-> 0]
  OBVIOUS
<1>16. iNumIter' = w + 6 /\ imports' = Appended(new)
  <2>1. /\ iNumIter' = (g + Len(StringBehind(g)) + 1) + 6
        /\ imports' = Appended([mod |-> StringBehind(b), func |-> StringBehind(g),
                                params |-> WordBehind(w), callType |-> WordBehind(w + 2), next |-> 0])
    BY <1>14, Zenon DEF Parse
  <2> QED
    BY <1>9, <1>11, <1>13, <1>14, <1>15, <2>1, Zenon
<1>17. /\ new \in Imported /\ new.next = 0 /\ new.mod = M /\ new.func = F
       /\ new.params = p /\ new.callType = c
  <2>1. M \in Seq(ByteSet) /\ F \in Seq(ByteSet) /\ p \in Nat /\ c \in Nat
    <3>1. M \in Names /\ F \in Names
      BY <1>5
    <3>2. p \in Nat /\ c \in Nat
      BY SMT DEF Counts
    <3> QED
      BY <3>1, <3>2, NameBytes
  <2> QED
    BY <1>15, <2>1 DEF Imported
<1>18. /\ imports' \in Seq(Imported) /\ Len(imports') = n + 1 /\ Linked'
       /\ \A j \in 1..n : /\ imports'[j].mod = imports[j].mod
                          /\ imports'[j].func = imports[j].func
                          /\ imports'[j].params = imports[j].params
                          /\ imports'[j].callType = imports[j].callType
       /\ /\ imports'[n + 1].mod = new.mod
          /\ imports'[n + 1].func = new.func
          /\ imports'[n + 1].params = new.params
          /\ imports'[n + 1].callType = new.callType
  <2>1. imports \in Seq(Imported) /\ Linked /\ n \in Nat /\ n = Len(imports)
    BY <1>1, <1>3
  <2>2. new \in Imported /\ new.next = 0
    BY <1>17
  <2> QED
    BY ONLY <1>16, <2>1, <2>2, AppendedIs
<1>19. Loads(own, off)'
  <2>1. Len(imports') = k /\ k \in Nat /\ k <= iImports'
    BY <1>1, <1>4, <1>18 DEF TableType
  <2>2. iNumIter' = off[k + 1]
    BY <1>6, <1>7, <1>12, <1>16
  <2>3. ASSUME NEW j \in 1..k PROVE Reads(imports'[j], own[j])
    <3>1. CASE j \in 1..n
      <4>1. Reads(imports[j], own[j])
        BY <1>2, <1>3, <3>1 DEF Loads
      <4> QED
        BY <1>18, <3>1, <4>1 DEF Reads
    <3>2. CASE j = n + 1
      <4>1. own[j] = own[k]
        BY <1>4, <3>2
      <4>2. /\ imports'[j].mod = M /\ imports'[j].func = F
            /\ imports'[j].params = p /\ imports'[j].callType = c
        BY <1>17, <1>18, <3>2
      <4> QED
        BY <1>5, <4>1, <4>2, Zenon DEF Reads
    <3> QED
      BY <1>3, <1>4, <3>1, <3>2
  <2>4. ASSUME NEW l PROVE ModOf(l)' = ModOf(l) /\ FuncOf(l)' = FuncOf(l) /\ ParamsOf(l)' = ParamsOf(l) /\ ConvOf(l)' = ConvOf(l)
    BY <1>1 DEF ModOf, FuncOf, ParamsOf, ConvOf
  <2> QED
    BY <2>1, <2>2, <2>3, <2>4 DEF Loads, Reads
<1>20. Layout(own, off)' /\ Resolves(own)' /\ TableType'
  <2>1. Layout(own, off)' = Layout(own, off)
    BY <1>1 DEF Layout, Offsets, Records, Marks, Covered, ModOf, FuncOf, ParamsOf, ConvOf, SizeOf
  <2>2. Resolves(own)' = Resolves(own)
    BY <1>1 DEF Resolves, Shares, EndsIn, Drop
  <2>3. TableType' = TableType
    BY <1>1 DEF TableType
  <2> QED
    BY <1>1, <1>2, <2>1, <2>2, <2>3
<1>21. Built'
  BY <1>19, <1>20, Zenon DEF Built
<1> QED
  BY <1>1, <1>18, <1>20, <1>21 DEF TableInv, Building

\* At the table's end, every import of the assembler is in the list.
LEMMA LoadedKeepsTable == TableInv /\ Loaded => TableInv'
<1> SUFFICES ASSUME TableInv, Loaded PROVE TableInv'
  OBVIOUS
<1>1. /\ phase = "load" /\ phase' = "ready" /\ iNumIter >= Len(vecIAT)
      /\ source' = source /\ vecIAT' = vecIAT /\ iImports' = iImports /\ args0' = args0
      /\ imports' = imports
      /\ TableType /\ imports \in Seq(Imported) /\ Linked /\ Len(args0) = Len(source)
  BY DEF Loaded, TableInv, assembling, loading
<1>2. PICK own, off : Layout(own, off) /\ Resolves(own) /\ Loads(own, off)
  BY <1>1 DEF TableInv, Building, Built
<1>3. PICK n \in Nat : n = Len(imports)
  BY <1>1, LenProperties
<1>4. n = iImports
  <2>1. iImports \in Nat /\ n <= iImports /\ iNumIter = off[n + 1]
    BY <1>1, <1>2, <1>3 DEF TableType, Loads
  <2>2. ASSUME n < iImports PROVE FALSE
    <3>1. PICK k \in 1..iImports : k = n + 1
      BY <2>1, <2>2
    <3>2. off[k] \in Nat /\ off[k + 1] \in Nat /\ off[k + 1] <= Len(vecIAT) /\ off[k] < off[k + 1]
      BY <1>1, <1>2, ImportOf, Zenon
    <3>3. Len(vecIAT) \in Nat
      BY <1>1, LenProperties DEF TableType
    <3> QED
      BY <1>1, <2>1, <3>1, <3>2, <3>3
  <2> QED
    BY <2>1, <2>2
<1>5. ASSUME NEW l \in 1..Len(source) PROVE ResolvedAt(l)'
  <2>1. PICK k \in 1..iImports :
           args0[l] = k - 1 /\ own[k] <= l /\ (own[k] = l \/ Shares(l, own[k]))
    BY <1>1, <1>2 DEF Resolves
  <2>2. Reads(imports[k], own[k])
    BY <1>2, <1>3, <1>4, <2>1 DEF Loads
  <2>3. args0[l] + 1 = k /\ k \in 1..Len(imports)
    BY <1>3, <1>4, <2>1
  <2>4. own[k] \in 1..Len(source)
    BY <1>1, <1>2, ImportOf, Zenon
  <2>5. Len(source) \in Nat
    BY <1>1, SourcesAssumption, LenProperties DEF TableType
  <2>6. own[k] \in 1..l
    BY <2>1, <2>4, <2>5
  <2>7. ResolvedAt(l)
    BY <2>1, <2>2, <2>3, <2>6 DEF ResolvedAt
  <2> QED
    BY <1>1, <2>7 DEF ResolvedAt, Reads, Shares, EndsIn, Drop, ModOf, FuncOf, ParamsOf, ConvOf
<1>6. Resolved'
  BY <1>1, <1>5 DEF Resolved
<1>7. TableType' = TableType /\ Linked' = Linked
  BY <1>1 DEF TableType, Linked
<1> QED
  BY <1>1, <1>6, <1>7 DEF TableInv, Building

LEMMA OthersKeepTable ==
    ASSUME TableInv, UNCHANGED <<assembling, loading>>,
           Building => phase' = phase, ~Building => ~Building'
    PROVE  TableInv'
<1>1. /\ source' = source /\ vecIAT' = vecIAT /\ iImports' = iImports /\ args0' = args0
      /\ iNumIter' = iNumIter /\ imports' = imports
  BY DEF assembling, loading
<1>2. TableType' = TableType /\ Linked' = Linked
  BY <1>1 DEF TableType, Linked
<1>3. CASE Building
  <2>1. PICK own, off : Layout(own, off) /\ Resolves(own) /\ Loads(own, off)
    BY <1>3 DEF TableInv, Built
  <2>2. Layout(own, off)' = Layout(own, off)
    BY <1>1 DEF Layout, Offsets, Records, Marks, Covered, ModOf, FuncOf, ParamsOf, ConvOf, SizeOf
  <2>3. Resolves(own)' = Resolves(own)
    BY <1>1 DEF Resolves, Shares, EndsIn, Drop
  <2>4. Loads(own, off)' = Loads(own, off)
    BY <1>1 DEF Loads, Reads, ModOf, FuncOf, ParamsOf, ConvOf
  <2>5. Built'
    BY <2>1, <2>2, <2>3, <2>4, Zenon DEF Built
  <2>6. phase' = phase /\ Building'
    BY <1>3 DEF Building
  <2> QED
    BY <1>1, <1>2, <1>3, <2>5, <2>6 DEF TableInv
<1>4. CASE ~Building
  <2>1. Resolved
    BY <1>4 DEF TableInv
  <2>2. ASSUME NEW l \in 1..Len(source) PROVE ResolvedAt(l)'
    BY <1>1, <2>1 DEF Resolved, ResolvedAt, Reads, Shares, EndsIn, Drop, ModOf, FuncOf, ParamsOf, ConvOf
  <2>3. Resolved'
    BY <1>1, <2>2 DEF Resolved
  <2>4. ~Building' /\ phase # "assemble" /\ phase' # "assemble"
    BY <1>4 DEF Building
  <2> QED
    BY <1>1, <1>2, <2>3, <2>4 DEF TableInv
<1> QED
  BY <1>3, <1>4

\* While it loads, the parser is at a mark or at the end.
LEMMA TableImpliesParser == TableInv => ParserAtRecord
<1> SUFFICES ASSUME TableInv, phase = "load" PROVE
        \/ iNumIter = Len(vecIAT) /\ Len(imports) = iImports
        \/ /\ iNumIter < Len(vecIAT)
           /\ vecIAT[iNumIter + 1] = 255
           /\ Cardinality({k \in 1..iNumIter : vecIAT[k] = 255}) = 2 * Len(imports)
  BY DEF ParserAtRecord
<1>1. TableType /\ imports \in Seq(Imported)
  BY DEF TableInv
<1>2. PICK own, off : Layout(own, off) /\ Resolves(own) /\ Loads(own, off)
  BY DEF TableInv, Building, Built
<1>3. PICK n \in Nat : n = Len(imports)
  BY <1>1, LenProperties
<1>4. iImports \in Nat /\ n <= iImports /\ iNumIter = off[n + 1] /\ off[iImports + 1] = Len(vecIAT)
  BY <1>1, <1>2, <1>3 DEF TableType, Loads, Layout, Offsets
<1>5. CASE n = iImports
  BY <1>3, <1>4, <1>5
<1>6. CASE n < iImports
  <2>1. PICK k \in 1..iImports : k = n + 1
    BY <1>4, <1>6
  <2>2. PICK b \in Nat, M \in Names, F \in Names, p \in Counts, c \in 0..2 :
           /\ b = off[k] /\ M = ModOf(own[k]) /\ F = FuncOf(own[k]) /\ p = ParamsOf(own[k])
           /\ c = ConvOf(own[k])
    BY <1>1, <1>2, ImportOf, Zenon
  <2>3. /\ RecordAt(vecIAT, b, M, F, p, c)
        /\ Cardinality(MarksUpTo(vecIAT, b)) = 2 * (k - 1)
        /\ b < off[k + 1] /\ off[k + 1] <= Len(vecIAT) /\ off[k + 1] \in Nat
    BY <1>1, <1>2, <2>2, ImportOf, Zenon
  <2>4. vecIAT[b + 1] = 255
    BY <2>3 DEF RecordAt
  <2>5. iNumIter = b /\ 2 * (k - 1) = 2 * n
    BY <1>4, <2>1, <2>2
  <2>6. Len(vecIAT) \in Nat
    BY <1>1, LenProperties DEF TableType
  <2>7. b < Len(vecIAT)
    BY <2>2, <2>3, <2>6
  <2> QED
    BY <1>3, <2>3, <2>4, <2>5, <2>7 DEF MarksUpTo
<1> QED
  BY <1>4, <1>5, <1>6
----------------------------------------------------------------------------
(* Stacks *)

\* A part of a sequence.
LEMMA Sub ==
    ASSUME NEW s \in Seq(Int), NEW a \in Int, NEW z \in Int, 1 <= a, z <= Len(s), a <= z + 1,
           NEW r, r = SubSeq(s, a, z)
    PROVE  /\ r \in Seq(Int) /\ Len(r) = z - a + 1
           /\ \A y \in 1..(z - a + 1) : r[y] = s[a + y - 1]
<1>0. a \in Int /\ z \in Int
  OBVIOUS
<1>1. \A y \in a..z : s[y] \in Int
  BY ElementOfSeq
<1>2. r \in Seq(Int)
  BY <1>0, <1>1, SubSeqProperties, Zenon
<1>3. Len(SubSeq(s, a, z)) = IF a <= z THEN z - a + 1 ELSE 0
  BY ONLY <1>0, <1>1, SubSeqProperties, Zenon
<1>4. \A y \in 1..(z - a + 1) : SubSeq(s, a, z)[y] = s[a + y - 1]
  BY <1>0, <1>1, SubSeqProperties
<1> QED
  BY <1>2, <1>3, <1>4

LEMMA Behind ==
    ASSUME NEW s \in Seq(Int), NEW t \in Seq(Int), NEW n \in Nat, n = Len(s)
    PROVE  Drop(s \o t, n) = t /\ First(s \o t, n) = s
<1>0. PICK k \in Nat : k = Len(t)
  BY LenProperties
<1>1. PICK r : r = s \o t
  OBVIOUS
<1>2. /\ r \in Seq(Int) /\ Len(r) = n + k
      /\ \A y \in 1..n : r[y] = s[y]
      /\ \A y \in (n + 1)..(n + k) : r[y] = t[y - n]
  <2>1. /\ s \o t \in Seq(Int)
        /\ Len(s \o t) = Len(s) + Len(t)
        /\ \A y \in 1..Len(s) + Len(t) : (s \o t)[y] = IF y <= Len(s) THEN s[y] ELSE t[y - Len(s)]
    BY ConcatProperties, Zenon
  <2>2. \A y \in 1..(n + k) : r[y] = IF y <= n THEN s[y] ELSE t[y - n]
    BY <1>0, <1>1, <2>1
  <2>3. r \in Seq(Int) /\ Len(r) = n + k
    BY <1>0, <1>1, <2>1
  <2> QED
    BY <1>0, <1>1, <2>2, <2>3
<1>3. k \in Nat /\ k = Len(t) /\ r = s \o t
  BY <1>0, <1>1
<1>4. Drop(r, n) = t
  <2>2. PICK d : d = SubSeq(r, n + 1, n + k)
    OBVIOUS
  <2>3. d \in Seq(Int) /\ Len(d) = k /\ \A y \in 1..k : d[y] = r[n + y]
    <3>1. n + 1 \in Int /\ n + k \in Int /\ 1 <= n + 1 /\ n + k <= Len(r) /\ n + 1 <= (n + k) + 1
          /\ (n + k) - (n + 1) + 1 = k
      BY <1>2, <1>3
    <3>2. /\ d \in Seq(Int) /\ Len(d) = (n + k) - (n + 1) + 1
          /\ \A y \in 1..((n + k) - (n + 1) + 1) : d[y] = r[(n + 1) + y - 1]
      BY <1>2, <2>2, <3>1, Sub
    <3>5. ASSUME NEW y \in 1..k PROVE d[y] = r[n + y]
      <4>1. (n + 1) + y - 1 = n + y
        BY <1>3
      <4> QED
        BY <3>1, <3>2, <4>1
    <3> QED
      BY <3>1, <3>2, <3>5
  <2>4. ASSUME NEW y \in 1..k PROVE d[y] = t[y]
    <3>1. n + y \in (n + 1)..(n + k) /\ (n + y) - n = y
      BY <1>3
    <3> QED
      BY <1>2, <2>3, <3>1
  <2>5. d = t
    BY <1>3, <2>3, <2>4, SeqEqual
  <2> QED
    BY <1>2, <2>2, <2>5 DEF Drop
<1>5. First(r, n) = s
  <2>2. PICK d : d = SubSeq(r, 1, n)
    OBVIOUS
  <2>3. d \in Seq(Int) /\ Len(d) = n /\ \A y \in 1..n : d[y] = r[y]
    <3>1. 1 \in Int /\ n \in Int /\ 1 <= 1 /\ n <= Len(r) /\ 1 <= n + 1 /\ n - 1 + 1 = n
      BY <1>2, <1>3
    <3>2. /\ d \in Seq(Int) /\ Len(d) = n - 1 + 1
          /\ \A y \in 1..(n - 1 + 1) : d[y] = r[1 + y - 1]
      BY <1>2, <2>2, <3>1, Sub
    <3> QED
      BY <3>1, <3>2
  <2>4. d = s
    BY <1>2, <2>3, SeqEqual
  <2> QED
    BY <2>2, <2>4 DEF First
<1> QED
  BY <1>3, <1>4, <1>5

LEMMA Nothing ==
    ASSUME NEW s \in Seq(Int), NEW a \in Int, NEW z \in Int, z < a
    PROVE  SubSeq(s, a, z) = <<>>
<1>1. \A y \in a..z : s[y] \in Int
  OBVIOUS
<1>2. SubSeq(s, a, z) \in Seq(Int)
  BY <1>1, SubSeqProperties, Zenon
<1>3. Len(SubSeq(s, a, z)) = IF a <= z THEN z - a + 1 ELSE 0
  BY <1>1, SubSeqProperties, Zenon
<1>4. Len(SubSeq(s, a, z)) = 0
  BY <1>3
<1> QED
  BY <1>2, <1>4, EmptySeq

LEMMA DropTwice ==
    ASSUME NEW s \in Seq(Int), NEW a \in Nat, NEW b \in Nat, a + b <= Len(s)
    PROVE  /\ Drop(Drop(s, a), b) = Drop(s, a + b)
           /\ Drop(s, a) \in Seq(Int) /\ Len(Drop(s, a)) = Len(s) - a
<1>1. PICK n \in Nat : n = Len(s)
  BY LenProperties
<1>2. PICK d : d = SubSeq(s, a + 1, n)
  OBVIOUS
<1>3. d \in Seq(Int) /\ Len(d) = n - a /\ \A y \in 1..(n - a) : d[y] = s[a + y]
  <2>1. a + 1 \in Int /\ n \in Int /\ 1 <= a + 1 /\ n <= Len(s) /\ a + 1 <= n + 1 /\ n - (a + 1) + 1 = n - a
    BY <1>1
  <2>2. /\ d \in Seq(Int) /\ Len(d) = n - (a + 1) + 1
        /\ \A y \in 1..(n - (a + 1) + 1) : d[y] = s[(a + 1) + y - 1]
    BY <1>2, <2>1, Sub, SMTT(30)
  <2>3. ASSUME NEW y \in 1..(n - a) PROVE d[y] = s[a + y]
    <3>1. (a + 1) + y - 1 = a + y
      OBVIOUS
    <3> QED
      BY <2>1, <2>2, <3>1
  <2> QED
    BY <2>1, <2>2, <2>3
<1>4. PICK e, f : e = SubSeq(d, b + 1, n - a) /\ f = SubSeq(s, a + b + 1, n)
  OBVIOUS
<1>5. e \in Seq(Int) /\ Len(e) = n - a - b /\ \A y \in 1..(n - a - b) : e[y] = s[a + b + y]
  <2>1. b + 1 \in Int /\ n - a \in Int /\ 1 <= b + 1 /\ n - a <= Len(d) /\ b + 1 <= (n - a) + 1
        /\ (n - a) - (b + 1) + 1 = n - a - b
    BY <1>1, <1>3
  <2>2. /\ e \in Seq(Int) /\ Len(e) = (n - a) - (b + 1) + 1
        /\ \A y \in 1..((n - a) - (b + 1) + 1) : e[y] = d[(b + 1) + y - 1]
    BY <1>3, <1>4, <2>1, Sub, SMTT(30)
  <2>3. ASSUME NEW y \in 1..(n - a - b) PROVE e[y] = s[a + b + y]
    <3>1. (b + 1) + y - 1 = b + y /\ b + y \in 1..(n - a) /\ a + (b + y) = a + b + y
      BY <1>1
    <3>2. e[y] = d[b + y] /\ d[b + y] = s[a + (b + y)]
      BY <1>3, <2>1, <2>2, <3>1
    <3> QED
      BY <3>1, <3>2
  <2> QED
    BY <2>1, <2>2, <2>3
<1>6. f \in Seq(Int) /\ Len(f) = n - a - b /\ \A y \in 1..(n - a - b) : f[y] = s[a + b + y]
  <2>1. a + b + 1 \in Int /\ n \in Int /\ 1 <= a + b + 1 /\ n <= Len(s) /\ a + b + 1 <= n + 1
        /\ n - (a + b + 1) + 1 = n - a - b
    BY <1>1
  <2>2. /\ f \in Seq(Int) /\ Len(f) = n - (a + b + 1) + 1
        /\ \A y \in 1..(n - (a + b + 1) + 1) : f[y] = s[(a + b + 1) + y - 1]
    BY <1>4, <2>1, Sub
  <2>3. ASSUME NEW y \in 1..(n - a - b) PROVE f[y] = s[a + b + y]
    <3>1. (a + b + 1) + y - 1 = a + b + y
      OBVIOUS
    <3> QED
      BY <2>1, <2>2, <3>1
  <2> QED
    BY <2>1, <2>2, <2>3
<1>7. e = f
  BY <1>5, <1>6, SeqEqual
<1>8. Drop(s, a) = d /\ Drop(d, b) = e /\ Drop(s, a + b) = f
  BY <1>1, <1>2, <1>3, <1>4 DEF Drop
<1> QED
  BY <1>1, <1>3, <1>7, <1>8

\* One more in front.
LEMMA OneMore ==
    ASSUME NEW s \in Seq(Int), NEW k \in Nat, NEW z \in Nat, 1 <= k, k <= z, z <= Len(s),
           NEW t \in Seq(Int)
    PROVE  <<s[k]>> \o (SubSeq(s, k + 1, z) \o t) = SubSeq(s, k, z) \o t
<1>1. PICK r, q : r = SubSeq(s, k + 1, z) /\ q = SubSeq(s, k, z)
  OBVIOUS
<1>2. r \in Seq(Int) /\ Len(r) = z - k /\ \A y \in 1..(z - k) : r[y] = s[k + y]
  <2>1. k + 1 \in Int /\ z \in Int /\ 1 <= k + 1 /\ k + 1 <= z + 1 /\ z - (k + 1) + 1 = z - k
    OBVIOUS
  <2>2. /\ r \in Seq(Int) /\ Len(r) = z - (k + 1) + 1
        /\ \A y \in 1..(z - (k + 1) + 1) : r[y] = s[(k + 1) + y - 1]
    BY <1>1, <2>1, Sub, SMTT(30)
  <2>3. ASSUME NEW y \in 1..(z - k) PROVE r[y] = s[k + y]
    <3>1. (k + 1) + y - 1 = k + y
      OBVIOUS
    <3> QED
      BY <2>1, <2>2, <3>1
  <2> QED
    BY <2>1, <2>2, <2>3
<1>3. q \in Seq(Int) /\ Len(q) = z - k + 1 /\ \A y \in 1..(z - k + 1) : q[y] = s[k + y - 1]
  <2>1. k \in Int /\ z \in Int /\ 1 <= k /\ k <= z + 1 /\ z <= Len(s) /\ s \in Seq(Int)
    OBVIOUS
  <2> QED
    BY ONLY <1>1, <2>1, Sub
<1>4. s[k] \in Int
  BY ElementOfSeq
<1>5. PICK g : g = <<s[k]>> \o r
  OBVIOUS
<1>6. g \in Seq(Int) /\ Len(g) = z - k + 1 /\ \A y \in 1..(z - k + 1) : g[y] = q[y]
  <2>1. <<s[k]>> \in Seq(Int) /\ Len(<<s[k]>>) = 1 /\ <<s[k]>>[1] = s[k]
    BY <1>4
  <2>2. /\ <<s[k]>> \o r \in Seq(Int)
        /\ Len(<<s[k]>> \o r) = Len(<<s[k]>>) + Len(r)
        /\ \A y \in 1..Len(<<s[k]>>) + Len(r) :
              (<<s[k]>> \o r)[y] = IF y <= Len(<<s[k]>>) THEN <<s[k]>>[y] ELSE r[y - Len(<<s[k]>>)]
    BY <1>2, <2>1, ConcatProperties, Zenon
  <2>3. \A y \in 1..1 + (z - k) : g[y] = IF y <= 1 THEN <<s[k]>>[y] ELSE r[y - 1]
    BY <1>2, <1>5, <2>1, <2>2
  <2>4. ASSUME NEW y \in 1..(z - k + 1) PROVE g[y] = q[y]
    <3>1. CASE y = 1
      <4>1. q[1] = s[k + 1 - 1] /\ k + 1 - 1 = k
        BY <1>3
      <4> QED
        BY <2>1, <2>3, <3>1, <4>1
    <3>2. CASE y > 1
      <4>1. y - 1 \in 1..(z - k) /\ k + (y - 1) = k + y - 1
        BY <3>2
      <4> QED
        BY <1>2, <1>3, <2>3, <3>2, <4>1
    <3> QED
      BY <3>1, <3>2
  <2>5. g \in Seq(Int) /\ Len(g) = z - k + 1
    BY <1>2, <1>5, <2>1, <2>2
  <2> QED
    BY <2>4, <2>5
<1>7. g = q
  BY <1>3, <1>6, SeqEqual
<1>8. <<s[k]>> \o (r \o t) = g \o t
  <2>1. <<s[k]>> \in Seq(Int)
    BY <1>4
  <2> QED
    <3>1. r \in Seq(Int) /\ t \in Seq(Int)
      BY <1>2
    <3>2. (<<s[k]>> \o r) \o t = <<s[k]>> \o (r \o t)
      <4>1. <<s[k]>> \in Seq(Int)
        BY <2>1
      <4> QED
        BY ONLY <3>1, <4>1, ConcatAssociative
    <3> QED
      BY <1>5, <3>2
<1> QED
  BY <1>1, <1>7, <1>8
----------------------------------------------------------------------------
(* NatvHandler *)

\* What the instruction takes was pushed.
LEMMA TakenTypes ==
    ASSUME TableInv, natv \in 1..Len(source), pushed \in VmStacks
    PROVE  /\ Taken \in Nat /\ pushed \in Seq(Int) /\ Taken <= Len(pushed) /\ Len(pushed) \in Nat
           /\ Frame \in Seq(Int) /\ Len(Frame) \in Nat
<1>1. source \in Sources /\ source \in Seq(NatvLines) /\ natv \in DOMAIN source
  BY SourcesAssumption DEF TableInv, TableType
<1>2. Taken \in Nat
  BY <1>1, LineTypes DEF Taken
<1>3. pushed \in Seq(Int) /\ Taken <= Len(pushed) /\ Frame \in Seq(Int)
  BY <1>1, StacksAssumption DEF Taken, ParamsOf
<1>4. Len(pushed) \in Nat /\ Len(Frame) \in Nat
  BY <1>3, LenProperties
<1> QED
  BY <1>2, <1>3, <1>4

LEMMA IndexType ==
    ASSUME TableInv, ~Building, natv \in 1..Len(source)
    PROVE  args0[natv] \in Nat /\ args0[natv] + 1 \in 1..Len(imports)
<1>1. args0 \in Seq(Nat) /\ Len(args0) = Len(source)
  BY DEF TableInv, TableType, Building
<1>2. args0[natv] \in Nat
  BY <1>1, ElementOfSeq
<1>3. args0[natv] + 1 \in 1..Len(imports)
  BY DEF TableInv, Resolved, ResolvedAt
<1> QED
  BY <1>2, <1>3

\* What is called is what a line imports, and takes what the instruction takes.
LEMMA Called ==
    ASSUME TableInv, ~Building, natv \in 1..Len(source), pTrain = args0[natv] + 1
    PROVE  /\ \E k \in 1..natv : (k = natv \/ Shares(natv, k)) /\ Reads(Import, k)
           /\ Import.params = Taken
           /\ Import.callType \in 0..2
           /\ NoManyByFastcall /\ Import.callType > 1 => Taken <= 2
<1>1. PICK k \in 1..natv : (k = natv \/ Shares(natv, k)) /\ Reads(Import, k)
  BY DEF TableInv, Resolved, ResolvedAt, Import
<1>2. source \in Sources /\ source \in Seq(NatvLines) /\ Len(source) \in Nat
  BY SourcesAssumption, LenProperties DEF TableInv, TableType
<1>3. k \in 1..Len(source)
  BY <1>1, <1>2
<1>4. ConvOf(k) \in 0..2 /\ (ConvOf(k) = 2 => source[k].conv = "fastcall")
  BY <1>2, <1>3, LineTypes, Zenon
<1>5. ParamsOf(k) = Taken
  BY <1>1 DEF Shares, Taken, ParamsOf
<1>6. Import.params = Taken /\ Import.callType = ConvOf(k)
  BY <1>1, <1>5 DEF Reads
<1>7. ASSUME NoManyByFastcall, Import.callType > 1 PROVE Taken <= 2
  <2>1. source[k].conv = "fastcall"
    <3>1. ConvOf(k) = 2
      BY <1>4, <1>6, <1>7
    <3> QED
      BY <1>4, <3>1
  <2>2. k \in DOMAIN source
    BY <1>2, <1>3
  <2> QED
    BY <1>5, <1>7, <2>1, <2>2 DEF NoManyByFastcall, ParamsOf
<1> QED
  BY <1>1, <1>4, <1>6, <1>7

LEMMA HandlerInit == Init => HandlerInv
<1> SUFFICES ASSUME Init PROVE HandlerInv
  OBVIOUS
<1>1. SavedEcx \in Int /\ SavedEdx \in Int /\ Len(source) \in Nat
  BY StacksAssumption, SourcesAssumption, LenProperties DEF Init
<1> QED
  BY <1>1 DEF Init, HandlerInv, HandlerType, AtRest, Walks, Pushes, Saves, Cleans, InCall, InHandler, Building

\* The program assembles and loads before it runs.
LEMMA BuildingKeepsHandler ==
    ASSUME HandlerInv, Building, phase' \in {"assemble", "load", "ready"}, source' = source, UNCHANGED calling
    PROVE  HandlerInv'
<1>1. /\ natv' = natv /\ ecx' = ecx /\ edx' = edx /\ stack' = stack /\ natv = 0
      /\ phase \in {"assemble", "load"}
  BY DEF calling, HandlerInv, AtRest, Building
<1>2. HandlerType'
  BY <1>1 DEF HandlerInv, HandlerType, InCall
<1>3. AtRest'
  BY <1>1 DEF HandlerInv, AtRest, NoManyByFastcall, Building
<1>4. Walks' /\ Pushes' /\ Saves' /\ Cleans'
  BY DEF Walks, Pushes, Saves, Cleans, InHandler
<1> QED
  BY <1>2, <1>3, <1>4 DEF HandlerInv

LEMMA NatvKeepsHandler == TableInv /\ HandlerInv /\ Natv => HandlerInv'
<1> SUFFICES ASSUME TableInv, HandlerInv, Natv PROVE HandlerInv'
  OBVIOUS
<1>1. /\ phase = "ready" /\ phase' = "walk" /\ source' = source /\ args0' = args0
      /\ natv' \in DOMAIN source /\ vmStack' \in VmStacks /\ pushed' = vmStack'
      /\ pTrain' = 1 /\ iNumImp' = 0 /\ i' = 0 /\ iEcx' = 0 /\ iEdx' = 0
      /\ ecx' = ecx /\ edx' = edx /\ stack' = stack
  BY DEF Natv, assembling
<1>2. source \in Seq(NatvLines) /\ Len(source) \in Nat /\ DOMAIN source = 1..Len(source)
  BY SourcesAssumption, LenProperties DEF TableInv, TableType
<1>3. natv' \in 1..Len(source)
  BY <1>1, <1>2
<1>4. HandlerType'
  BY <1>1, <1>2, <1>3 DEF HandlerInv, HandlerType, InCall
<1>5. AtRest'
  BY <1>1 DEF HandlerInv, AtRest, NoManyByFastcall, Building
<1>6. Walks'
  <2>1. args0'[natv'] \in Nat
    <3>1. args0 \in Seq(Nat) /\ Len(args0) = Len(source)
      BY <1>1 DEF TableInv, TableType
    <3> QED
      BY <1>1, <1>3, <3>1, ElementOfSeq
  <2> QED
    BY <1>1, <2>1 DEF Walks, InHandler
<1>7. Pushes' /\ Saves' /\ Cleans'
  BY <1>1 DEF Pushes, Saves, Cleans
<1> QED
  BY <1>4, <1>5, <1>6, <1>7 DEF HandlerInv

LEMMA WalkKeepsHandler == TableInv /\ HandlerInv /\ Walk => HandlerInv'
<1> SUFFICES ASSUME TableInv, HandlerInv, Walk PROVE HandlerInv'
  OBVIOUS
<1>1. /\ phase = "walk" /\ source' = source /\ args0' = args0 /\ natv' = natv /\ pushed' = pushed
      /\ imports' = imports /\ i' = i /\ ecx' = ecx /\ edx' = edx /\ iEcx' = iEcx /\ iEdx' = iEdx
      /\ stack' = stack /\ vmStack' = vmStack
  BY DEF Walk, assembling, loading
<1>2. /\ natv \in 1..Len(source) /\ pushed \in VmStacks /\ ~Building /\ vmStack = pushed /\ stack = Frame
      /\ iNumImp \in 0..args0[natv] /\ pTrain = iNumImp + 1 /\ i = 0 /\ iEcx \in Int /\ iEdx \in Int
  <2>1. Len(source) \in Nat
    BY SourcesAssumption, LenProperties DEF TableInv, TableType
  <2> QED
    BY <1>1, <2>1 DEF HandlerInv, HandlerType, AtRest, Walks, InCall, Building
<1>3. args0[natv] \in Nat /\ args0[natv] + 1 \in 1..Len(imports)
  BY <1>2, IndexType
<1>4. PICK n \in Nat : n = Len(imports)
  BY LenProperties DEF TableInv
\* Before the index is reached, there is a next import.
<1>5. iNumImp # args0[natv] => imports[pTrain].next = pTrain + 1 /\ pTrain + 1 # 0
  <2>1. iNumImp # args0[natv] => pTrain \in 1..n /\ pTrain < n /\ pTrain + 1 # 0
    BY <1>2, <1>3, <1>4
  <2> QED
    BY <1>4, <2>1 DEF TableInv, Linked
<1>6. NoManyByFastcall' = NoManyByFastcall
  BY <1>1 DEF NoManyByFastcall
<1>7. CASE iNumImp # args0[natv]
  <2>1. phase' = "walk" /\ pTrain' = pTrain + 1 /\ iNumImp' = iNumImp + 1
    BY <1>1, <1>2, <1>3, <1>5, <1>7 DEF Walk
  <2>2. HandlerType'
    BY <1>1, <2>1 DEF HandlerInv, HandlerType, InCall
  <2>3. AtRest'
    BY <1>1, <1>6, <2>1 DEF HandlerInv, AtRest, Building
  <2>4. Walks'
    <3>1. iNumImp' \in 0..args0[natv] /\ pTrain' = iNumImp' + 1
      BY <1>2, <1>3, <1>7, <2>1
    <3> QED
      BY <1>1, <1>2, <2>1, <3>1 DEF Walks, InHandler
  <2>5. Pushes' /\ Saves' /\ Cleans'
    BY <2>1 DEF Pushes, Saves, Cleans
  <2> QED
    BY <2>2, <2>3, <2>4, <2>5 DEF HandlerInv
<1>8. CASE iNumImp = args0[natv]
  <2>1. phase' = "push" /\ pTrain' = pTrain /\ iNumImp' = iNumImp
    BY <1>1, <1>2, <1>3, <1>8 DEF Walk
  <2>2. HandlerType'
    BY <1>1, <2>1 DEF HandlerInv, HandlerType, InCall
  <2>3. AtRest'
    BY <1>1, <1>6, <2>1 DEF HandlerInv, AtRest, Building
  <2>4. Walks'
    BY <1>1, <1>2, <1>8, <2>1 DEF Walks
  <2>5. /\ Taken \in Nat /\ pushed \in Seq(Int) /\ Frame \in Seq(Int)
    BY <1>2, TakenTypes
  <2>6. Taken' = Taken /\ Import' = Import
    BY <1>1, <2>1 DEF Taken, ParamsOf, Import
  <2>7. Passed(0) = <<>>
    <3>1. Taken - 0 + 1 = Taken + 1 /\ Taken + 1 \in Int /\ Taken - 2 \in Int /\ Taken < Taken + 1 /\ Taken - 2 < Taken + 1
      BY <2>5
    <3>2. SubSeq(pushed, Taken + 1, Taken) = <<>> /\ SubSeq(pushed, Taken + 1, Taken - 2) = <<>>
      BY <2>5, <3>1, Nothing
    <3> QED
      BY <3>1, <3>2 DEF Passed
  <2>8. <<>> \o Frame = Frame
    BY <2>5, ConcatSimplifications
  <2>10. Pushes'
    <3>0. Passed(i)' = Passed(i)
      BY <1>1, <2>6 DEF Passed
    <3>1. i' \in 0..Taken' /\ stack' = Passed(i)' \o Frame
      BY <1>1, <1>2, <2>5, <2>6, <2>7, <2>8, <3>0
    <3>2. InRegisters(i, iEcx, iEdx)'
      BY <1>1, <1>2 DEF InRegisters
    <3> QED
      BY <1>1, <1>2, <2>1, <3>1, <3>2 DEF Pushes
  <2>11. Saves' /\ Cleans'
    BY <2>1 DEF Saves, Cleans
  <2> QED
    BY <2>2, <2>3, <2>4, <2>10, <2>11 DEF HandlerInv
<1> QED
  BY <1>7, <1>8

\* The parameters that lie on the stack: none of the two that fastcall takes in
\* registers, and one more with every round after that.
LEMMA PassedIs ==
    ASSUME Taken \in Nat, pushed \in Seq(Int), Taken <= Len(pushed), Import.callType \in 0..2
    PROVE  /\ Import.callType > 1 => \A k \in 0..2 : Passed(k) = <<>>
           /\ \A k \in 0..Taken :
                 /\ Passed(k) \in Seq(Int)
                 /\ Len(Passed(k)) = IF Import.callType <= 1 THEN k ELSE IF k > 2 THEN k - 2 ELSE 0
           /\ Import.callType <= 1 => Passed(Taken) = First(pushed, Taken)
<1>1. PICK n \in Nat : n = Taken /\ n <= Len(pushed)
  OBVIOUS
<1>2. PICK z \in Int : z = IF Import.callType > 1 THEN n - 2 ELSE n
  BY <1>1
<1>3. \A k : Passed(k) = SubSeq(pushed, n - k + 1, z)
  BY <1>1, <1>2 DEF Passed
<1>4. ASSUME Import.callType > 1, NEW k \in 0..2 PROVE Passed(k) = <<>>
  <2>1. n - k + 1 \in Int /\ z < n - k + 1
    BY <1>1, <1>2, <1>4
  <2> QED
    BY <1>2, <1>3, <2>1, Nothing
<1>5. ASSUME NEW k \in 0..Taken
      PROVE  /\ Passed(k) \in Seq(Int)
             /\ Len(Passed(k)) = IF Import.callType <= 1 THEN k ELSE IF k > 2 THEN k - 2 ELSE 0
  <2>1. CASE Import.callType > 1 /\ k <= 2
    <3>1. Passed(k) = <<>>
      BY <1>1, <1>4, <2>1
    <3> QED
      BY <2>1, <3>1
  <2>2. CASE Import.callType <= 1 \/ k > 2
    <3>1. n - k + 1 \in Int /\ z \in Int /\ 1 <= n - k + 1 /\ z <= Len(pushed) /\ n - k + 1 <= z + 1
      BY <1>1, <1>2, <2>2, LenProperties
    <3>2. PICK r : r = SubSeq(pushed, n - k + 1, z)
      OBVIOUS
    <3>3. r \in Seq(Int) /\ Len(r) = z - (n - k + 1) + 1
      <4>1. pushed \in Seq(Int)
        OBVIOUS
      <4> QED
        BY ONLY <3>1, <3>2, <4>1, Sub
    <3>4. z - (n - k + 1) + 1 = IF Import.callType <= 1 THEN k ELSE k - 2
      BY <1>1, <1>2
    <3> QED
      BY <1>3, <2>2, <3>2, <3>3, <3>4
  <2> QED
    BY <2>1, <2>2
<1>6. ASSUME Import.callType <= 1 PROVE Passed(Taken) = First(pushed, Taken)
  <2>1. z = n /\ n - n + 1 = 1
    BY <1>1, <1>2, <1>6
  <2> QED
    BY <1>1, <1>3, <2>1 DEF First
<1> QED
  BY <1>4, <1>5, <1>6

\* The round of parameter k.
LEMMA PassedMore ==
    ASSUME Taken \in Nat, pushed \in Seq(Int), Taken <= Len(pushed), Frame \in Seq(Int),
           Import.callType \in 0..2,
           NEW k \in Nat, k < Taken, Import.callType > 1 => k >= 2
    PROVE  Passed(k + 1) \o Frame = <<pushed[Taken - k]>> \o (Passed(k) \o Frame)
<1>1. PICK n \in Nat : n = Taken /\ n <= Len(pushed)
  OBVIOUS
<1>2. PICK z \in Nat : z = IF Import.callType > 1 THEN n - 2 ELSE n
  BY <1>1
<1>3. PICK a \in Nat : a = n - k /\ 1 <= a /\ a <= z /\ z <= Len(pushed)
  BY <1>1, <1>2, LenProperties
<1>4. Passed(k + 1) = SubSeq(pushed, a, z) /\ Passed(k) = SubSeq(pushed, a + 1, z)
  <2>1. n - (k + 1) + 1 = a /\ n - k + 1 = a + 1
    BY <1>1, <1>3
  <2> QED
    BY <1>1, <1>2, <2>1 DEF Passed
<1>5. <<pushed[a]>> \o (SubSeq(pushed, a + 1, z) \o Frame) = SubSeq(pushed, a, z) \o Frame
  <2>1. pushed \in Seq(Int) /\ Frame \in Seq(Int) /\ a \in Nat /\ z \in Nat /\ 1 <= a /\ a <= z /\ z <= Len(pushed)
    BY <1>2, <1>3
  <2> QED
    BY ONLY <2>1, OneMore, ZenonT(30)
<1> QED
  BY <1>1, <1>3, <1>4, <1>5

\* What no step of NatvHandler changes, and what is known in all of them.
LEMMA InHandlerFacts ==
    ASSUME TableInv, HandlerInv, InHandler
    PROVE  /\ natv \in 1..Len(source) /\ pushed \in VmStacks /\ ~Building /\ InCall
           /\ pTrain = args0[natv] + 1
           /\ Import.params = Taken /\ Import.callType \in 0..2
           /\ NoManyByFastcall /\ Import.callType > 1 => Taken <= 2
           /\ Taken \in Nat /\ pushed \in Seq(Int) /\ Taken <= Len(pushed) /\ Len(pushed) \in Nat
           /\ Frame \in Seq(Int) /\ Len(Frame) \in Nat
<1>1. /\ natv \in 1..Len(source) /\ pushed \in VmStacks /\ ~Building /\ InCall
      /\ pTrain = args0[natv] + 1
  <2>1. Len(source) \in Nat
    BY SourcesAssumption, LenProperties DEF TableInv, TableType
  <2> QED
    BY <2>1 DEF HandlerInv, HandlerType, Walks, InCall, InHandler, Building
<1>2. /\ Import.params = Taken /\ Import.callType \in 0..2
      /\ NoManyByFastcall /\ Import.callType > 1 => Taken <= 2
  BY <1>1, Called
<1> QED
  BY <1>1, <1>2, TakenTypes

LEMMA HandlerFrame ==
    ASSUME source' = source, args0' = args0, natv' = natv, pushed' = pushed, imports' = imports, pTrain' = pTrain
    PROVE  /\ Taken' = Taken /\ Import' = Import /\ NoManyByFastcall' = NoManyByFastcall
           /\ \A k : Passed(k)' = Passed(k)
<1>1. Taken' = Taken /\ Import' = Import
  BY DEF Taken, ParamsOf, Import
<1>2. NoManyByFastcall' = NoManyByFastcall
  BY DEF NoManyByFastcall
<1> QED
  BY <1>1, <1>2 DEF Passed

LEMMA PushKeepsHandler == TableInv /\ HandlerInv /\ Push => HandlerInv'
<1> SUFFICES ASSUME TableInv, HandlerInv, Push PROVE HandlerInv'
  OBVIOUS
<1>1. /\ phase = "push" /\ source' = source /\ args0' = args0 /\ natv' = natv /\ pushed' = pushed
      /\ imports' = imports /\ pTrain' = pTrain /\ ecx' = ecx /\ edx' = edx
  BY DEF Push, assembling, loading
<1>2. /\ natv \in 1..Len(source) /\ pushed \in VmStacks
      /\ pTrain = args0[natv] + 1
      /\ Import.params = Taken /\ Import.callType \in 0..2
      /\ Taken \in Nat /\ pushed \in Seq(Int) /\ Taken <= Len(pushed) /\ Frame \in Seq(Int)
  BY <1>1, InHandlerFacts DEF InHandler
<1>3. /\ Taken' = Taken /\ Import' = Import /\ NoManyByFastcall' = NoManyByFastcall
      /\ \A k : Passed(k)' = Passed(k)
  BY <1>1, HandlerFrame
<1>4. /\ i \in 0..Taken /\ vmStack = pushed /\ stack = Passed(i) \o Frame
      /\ iEcx \in Int /\ iEdx \in Int
      /\ Import.callType > 1 => InRegisters(i, iEcx, iEdx)
  BY <1>1 DEF HandlerInv, HandlerType, Pushes
<1>5. CASE i < Import.params
  <2>1. /\ i' = i + 1
        /\ iEcx' = IF Import.callType > 1 /\ i = 0 THEN Parameter(i) ELSE iEcx
        /\ iEdx' = IF Import.callType > 1 /\ i = 1 THEN Parameter(i) ELSE iEdx
        /\ stack' = IF Import.callType > 1 /\ i <= 1 THEN stack ELSE <<Parameter(i)>> \o stack
        /\ phase' = phase /\ vmStack' = vmStack
    BY <1>5 DEF Push
  <2>2. i \in Nat /\ i < Taken
    BY <1>2, <1>4, <1>5
  <2>3. Parameter(i) = pushed[Taken - i] /\ Parameter(i) \in Int
    <3>1. Parameter(i) = pushed[Taken - i]
      BY <1>2, <1>4 DEF Parameter
    <3>2. Taken - i \in 1..Len(pushed)
      BY <1>2, <2>2, LenProperties
    <3> QED
      BY <1>2, <3>1, <3>2, ElementOfSeq
  <2>4. stack' = Passed(i + 1) \o Frame
    <3>1. CASE Import.callType > 1 /\ i <= 1
      <4>1. Passed(i) = <<>> /\ Passed(i + 1) = <<>>
        <5>1. i \in 0..2 /\ i + 1 \in 0..2
          BY <2>2, <3>1
        <5> QED
          BY <1>2, <3>1, <5>1, PassedIs
      <4> QED
        BY <1>4, <2>1, <3>1, <4>1
    <3>2. CASE ~(Import.callType > 1 /\ i <= 1)
      <4>1. Import.callType > 1 => i >= 2
        BY <2>2, <3>2
      <4>2. Passed(i + 1) \o Frame = <<pushed[Taken - i]>> \o (Passed(i) \o Frame)
        BY <1>2, <2>2, <4>1, PassedMore
      <4> QED
        BY <1>4, <2>1, <2>3, <3>2, <4>2
    <3> QED
      BY <3>1, <3>2
  <2>5. iEcx' \in Int /\ iEdx' \in Int
    BY <1>4, <2>1, <2>3
  <2>6. Import.callType > 1 => InRegisters(i + 1, iEcx', iEdx')
    <3>1. ASSUME Import.callType > 1 PROVE InRegisters(i + 1, iEcx', iEdx')
      <4>1. InRegisters(i, iEcx, iEdx)
        BY <1>4, <3>1
      <4>2. iEcx' = pushed[Taken]
        <5>1. CASE i = 0
          <6>1. Taken - i = Taken
            BY <1>2, <5>1
          <6> QED
            BY <2>1, <2>3, <3>1, <5>1, <6>1
        <5>2. CASE i # 0
          BY <2>1, <2>2, <4>1, <5>2 DEF InRegisters
        <5> QED
          BY <5>1, <5>2
      <4>3. i + 1 >= 2 => iEdx' = pushed[Taken - 1]
        <5>1. CASE i = 1
          <6>1. Taken - i = Taken - 1
            BY <5>1
          <6> QED
            BY <2>1, <2>3, <3>1, <5>1, <6>1
        <5>2. CASE i # 1
          BY <2>1, <2>2, <4>1, <5>2 DEF InRegisters
        <5> QED
          BY <5>1, <5>2
      <4> QED
        BY <2>5, <4>2, <4>3 DEF InRegisters
    <3> QED
      BY <3>1
  <2>7. HandlerType'
    BY <1>1, <1>4, <2>1 DEF HandlerInv, HandlerType, InCall
  <2>8. AtRest'
    BY <1>1, <1>3, <2>1 DEF HandlerInv, AtRest, Building
  <2>9. Walks'
    BY <1>1, <1>2, <2>1 DEF Walks
  <2>10. Pushes'
    <3>1. i' \in 0..Taken'
      BY <1>2, <1>3, <2>1, <2>2
    <3>2. stack' = Passed(i)' \o Frame
      BY <1>1, <1>3, <2>1, <2>4 DEF Passed
    <3>3. Import'.callType > 1 => InRegisters(i, iEcx, iEdx)'
      BY <1>1, <1>3, <2>1, <2>6 DEF InRegisters
    <3> QED
      BY <1>1, <2>1, <2>5, <3>1, <3>2, <3>3 DEF Pushes
  <2>11. Saves' /\ Cleans'
    BY <1>1, <2>1 DEF Saves, Cleans
  <2> QED
    BY <2>7, <2>8, <2>9, <2>10, <2>11 DEF HandlerInv
<1>6. CASE ~(i < Import.params)
  <2>1. /\ vmStack' = Drop(vmStack, i) /\ phase' = "save" /\ i' = i /\ iEcx' = iEcx /\ iEdx' = iEdx
        /\ stack' = stack
    BY <1>6 DEF Push
  <2>2. i = Taken
    BY <1>2, <1>4, <1>6
  <2>3. HandlerType'
    BY <1>1, <2>1 DEF HandlerInv, HandlerType, InCall
  <2>4. AtRest'
    BY <1>1, <1>3, <2>1 DEF HandlerInv, AtRest, Building
  <2>5. Walks'
    BY <1>1, <1>2, <2>1 DEF Walks
  <2>6. Pushes'
    <3>1. i' = Taken' /\ vmStack' = Drop(pushed', Taken')
      BY <1>1, <1>3, <1>4, <2>1, <2>2
    <3>2. stack' = Passed(i)' \o Frame
      BY <1>1, <1>3, <1>4, <2>1 DEF Passed
    <3>3. Import'.callType > 1 => InRegisters(i, iEcx, iEdx)'
      BY <1>1, <1>3, <1>4, <2>1 DEF InRegisters
    <3> QED
      BY <1>4, <2>1, <3>1, <3>2, <3>3 DEF Pushes, Drop
  <2>7. Saves' /\ Cleans'
    BY <2>1 DEF Saves, Cleans
  <2> QED
    BY <2>3, <2>4, <2>5, <2>6, <2>7 DEF HandlerInv
<1> QED
  BY <1>5, <1>6

LEMMA Pair ==
    ASSUME NEW a \in Int, NEW b \in Int, NEW r, r = <<a, b>>
    PROVE  r \in Seq(Int) /\ Len(r) = 2 /\ r[1] = a /\ r[2] = b
OBVIOUS

LEMMA DropNone ==
    ASSUME NEW s \in Seq(Int)
    PROVE  Drop(s, 0) = s /\ First(s, 0) = <<>>
<1>1. PICK n \in Nat : n = Len(s)
  BY LenProperties
<1>2. PICK r : r = SubSeq(s, 1, n)
  OBVIOUS
<1>3. 1 \in Int /\ n \in Int /\ 1 <= 1 /\ n <= Len(s) /\ 1 <= n + 1 /\ n - 1 + 1 = n /\ s \in Seq(Int)
  BY <1>1
<1>4. /\ r \in Seq(Int) /\ Len(r) = n - 1 + 1
      /\ \A y \in 1..(n - 1 + 1) : r[y] = s[1 + y - 1]
  BY ONLY <1>2, <1>3, Sub
<1>5. Len(r) = n /\ \A y \in 1..n : r[y] = s[y]
  BY <1>3, <1>4
<1>6. r = s
  BY <1>1, <1>4, <1>5, SeqEqual
<1>7. Drop(s, 0) = s
  <2>1. 0 + 1 = 1
    OBVIOUS
  <2> QED
    BY <1>1, <1>2, <1>6, <2>1 DEF Drop
<1>8. First(s, 0) = <<>>
  BY Nothing DEF First
<1> QED
  BY <1>7, <1>8

LEMMA SaveKeepsHandler == TableInv /\ HandlerInv /\ Save => HandlerInv'
<1> SUFFICES ASSUME TableInv, HandlerInv, Save PROVE HandlerInv'
  OBVIOUS
<1>1. /\ phase = "save" /\ phase' = "call"
      /\ source' = source /\ args0' = args0 /\ natv' = natv /\ pushed' = pushed
      /\ imports' = imports /\ pTrain' = pTrain /\ i' = i /\ vmStack' = vmStack
  BY DEF Save, assembling, loading
<1>2. /\ natv \in 1..Len(source) /\ pushed \in VmStacks
      /\ pTrain = args0[natv] + 1
      /\ Import.callType \in 0..2
      /\ Taken \in Nat /\ pushed \in Seq(Int) /\ Taken <= Len(pushed) /\ Frame \in Seq(Int)
  BY <1>1, InHandlerFacts DEF InHandler
<1>3. /\ Taken' = Taken /\ Import' = Import /\ NoManyByFastcall' = NoManyByFastcall
      /\ \A k : Passed(k)' = Passed(k)
  BY <1>1, HandlerFrame
<1>4. /\ i = Taken /\ vmStack = Drop(pushed, Taken) /\ stack = Passed(Taken) \o Frame
      /\ iEcx \in Int /\ iEdx \in Int /\ ecx \in Int /\ edx \in Int
      /\ Import.callType > 1 => InRegisters(Taken, iEcx, iEdx)
      /\ NoManyByFastcall => ecx = SavedEcx /\ edx = SavedEdx
  BY <1>1 DEF HandlerInv, HandlerType, AtRest, Pushes
<1>5. Passed(Taken)' = Passed(Taken)
  BY <1>1, <1>3 DEF Passed
<1>6. ecx' \in Int /\ edx' \in Int
  BY <1>4 DEF Save
<1>7. Saves'
  <2>1. CASE Import.callType > 1
    <3>1. stack' = <<edx, ecx>> \o stack /\ ecx' = iEcx /\ edx' = iEdx
      BY <2>1 DEF Save
    <3>2. PICK s \in Seq(Int) : s = stack
      <4>1. Passed(Taken) \in Seq(Int)
        BY <1>2, PassedIs
      <4>2. Passed(Taken) \o Frame \in Seq(Int)
        BY <1>2, <4>1, ConcatProperties
      <4> QED
        BY <1>4, <4>2
    <3>3. PICK r \in Seq(Int) : r = <<edx, ecx>> /\ Len(r) = 2 /\ r[1] = edx /\ r[2] = ecx
      <4>1. edx \in Int /\ ecx \in Int
        BY <1>4
      <4>2. PICK r : r = <<edx, ecx>>
        OBVIOUS
      <4>3. r \in Seq(Int) /\ Len(r) = 2 /\ r[1] = edx /\ r[2] = ecx
        BY ONLY <4>1, <4>2, Pair
      <4> QED
        BY <4>2, <4>3, Zenon
    <3>4. stack' = r \o s
      BY <3>1, <3>2, <3>3
    <3>5. /\ r \o s \in Seq(Int) /\ Len(r \o s) = Len(r) + Len(s)
          /\ \A y \in 1..Len(r) + Len(s) : (r \o s)[y] = IF y <= Len(r) THEN r[y] ELSE s[y - Len(r)]
      <4>1. r \in Seq(Int) /\ s \in Seq(Int)
        BY <3>2, <3>3
      <4> QED
        BY ONLY <4>1, ConcatProperties, Zenon
    <3>6. Len(s) \in Nat
      BY <3>2, LenProperties
    <3>7. stack' \in Seq(Int) /\ Len(stack') >= 2 /\ stack'[1] = edx /\ stack'[2] = ecx
      BY <3>3, <3>4, <3>5, <3>6
    <3>8. Drop(stack', 2) = stack
      <4>1. r \in Seq(Int) /\ s \in Seq(Int) /\ 2 \in Nat /\ 2 = Len(r)
        BY <3>2, <3>3
      <4>2. Drop(r \o s, 2) = s
        BY ONLY <4>1, Behind
      <4> QED
        BY <3>2, <3>4, <4>2
    <3>9. InRegisters(Taken, ecx, edx)'
      BY <1>1, <1>3, <1>4, <2>1, <3>1 DEF InRegisters
    <3>10. Drop(stack, 2)' = Passed(Taken)' \o Frame
      BY <1>4, <1>5, <3>8 DEF Drop
    <3>11. Import'.callType > 1 /\ ~(Import'.callType <= 1)
      BY <1>2, <1>3, <2>1
    <3>12. NoManyByFastcall' => stack'[1] = SavedEdx /\ stack'[2] = SavedEcx
      BY <1>3, <1>4, <3>7
    <3> QED
      BY <3>7, <3>9, <3>10, <3>11, <3>12, Zenon DEF Saves
  <2>2. CASE ~(Import.callType > 1)
    <3>1. stack' = stack /\ ecx' = ecx /\ edx' = edx
      BY <2>2 DEF Save
    <3> QED
      BY <1>2, <1>3, <1>4, <1>5, <2>2, <3>1 DEF Saves
  <2> QED
    BY <2>1, <2>2
<1>8. HandlerType'
  BY <1>1, <1>6 DEF HandlerInv, HandlerType, InCall
<1>9. AtRest'
  BY <1>1, <1>3 DEF HandlerInv, AtRest, Building
<1>10. Walks'
  BY <1>1, <1>2 DEF Walks
<1>11. Pushes'
  BY <1>1, <1>3, <1>4 DEF Pushes, Drop
<1>12. Cleans'
  BY <1>1 DEF Cleans
<1> QED
  BY <1>7, <1>8, <1>9, <1>10, <1>11, <1>12 DEF HandlerInv

\* The parameters of fastcall, if there are no more than two.
LEMMA TwoReversed ==
    ASSUME pushed \in Seq(Int), Taken \in 0..2, Taken <= Len(pushed), Len(pushed) \in Nat,
           InRegisters(Taken, ecx, edx)
    PROVE  First(<<ecx, edx>>, Taken) = Reversed(First(pushed, Taken))
<1>1. PICK t \in Seq(Int) : t = First(pushed, Taken) /\ Len(t) = Taken /\ \A y \in 1..Taken : t[y] = pushed[y]
  <2>1. PICK r : r = SubSeq(pushed, 1, Taken)
    OBVIOUS
  <2>2. 1 \in Int /\ Taken \in Int /\ 1 <= 1 /\ Taken <= Len(pushed) /\ 1 <= Taken + 1 /\ pushed \in Seq(Int)
        /\ Taken - 1 + 1 = Taken
    OBVIOUS
  <2>3. /\ r \in Seq(Int) /\ Len(r) = Taken - 1 + 1
        /\ \A y \in 1..(Taken - 1 + 1) : r[y] = pushed[1 + y - 1]
    BY ONLY <2>1, <2>2, Sub
  <2>4. Len(r) = Taken
    BY ONLY <2>2, <2>3, Zenon
  <2>5. \A y \in 1..Taken : r[y] = pushed[y]
    <3>1. ASSUME NEW y \in 1..Taken PROVE 1 + y - 1 = y
      BY ONLY <2>2, <3>1, SMT
    <3>2. \A y \in 1..Taken : r[y] = pushed[1 + y - 1]
      BY ONLY <2>2, <2>3, Zenon
    <3> QED
      BY ONLY <3>1, <3>2, Zenon
  <2> QED
    BY <2>1, <2>3, <2>4, <2>5 DEF First
<1>2. PICK p \in Seq(Int) : p = <<ecx, edx>> /\ Len(p) = 2 /\ p[1] = ecx /\ p[2] = edx
  <2>1. ecx \in Int /\ edx \in Int
    BY DEF InRegisters
  <2>2. PICK r : r = <<ecx, edx>>
    OBVIOUS
  <2>3. r \in Seq(Int) /\ Len(r) = 2 /\ r[1] = ecx /\ r[2] = edx
    BY ONLY <2>1, <2>2, Pair
  <2> QED
    BY <2>2, <2>3, Zenon
<1>3. PICK g : g = SubSeq(p, 1, Taken)
  OBVIOUS
<1>4. g \in Seq(Int) /\ Len(g) = Taken /\ \A y \in 1..Taken : g[y] = p[y]
  <2>2. 1 \in Int /\ Taken \in Int /\ 1 <= 1 /\ Taken <= Len(p) /\ 1 <= Taken + 1 /\ p \in Seq(Int)
        /\ Taken - 1 + 1 = Taken
    BY <1>2
  <2>3. /\ g \in Seq(Int) /\ Len(g) = Taken - 1 + 1
        /\ \A y \in 1..(Taken - 1 + 1) : g[y] = p[1 + y - 1]
    BY ONLY <1>3, <2>2, Sub
  <2> QED
    BY <2>2, <2>3
<1>5. Reversed(t) = [k \in 1..Taken |-> t[Taken + 1 - k]]
  BY <1>1 DEF Reversed
<1>6. ASSUME NEW y \in 1..Taken PROVE g[y] = t[Taken + 1 - y]
  <2>1. t[Taken + 1 - y] = pushed[Taken + 1 - y]
    BY <1>1, SMTT(30)
  <2>2. CASE y = 1
    <3>1. Taken + 1 - y = Taken /\ Taken >= 1
      BY <2>2
    <3> QED
      BY <1>2, <1>4, <2>1, <2>2, <3>1 DEF InRegisters
  <2>3. CASE y = 2
    <3>1. Taken + 1 - y = Taken - 1 /\ Taken >= 2
      BY <2>3
    <3> QED
      BY <1>2, <1>4, <2>1, <2>3, <3>1 DEF InRegisters
  <2> QED
    BY <2>2, <2>3
<1>7. g = [k \in 1..Taken |-> g[k]]
  BY <1>4
<1>8. g = Reversed(t)
  BY <1>5, <1>6, <1>7
<1> QED
  BY <1>1, <1>2, <1>3, <1>8 DEF First

LEMMA CallKeepsHandler == TableInv /\ HandlerInv /\ Call => HandlerInv'
<1> SUFFICES ASSUME TableInv, HandlerInv, Call PROVE HandlerInv'
  OBVIOUS
<1>1. /\ phase = "call" /\ phase' = "clean"
      /\ source' = source /\ args0' = args0 /\ natv' = natv /\ pushed' = pushed
      /\ imports' = imports /\ pTrain' = pTrain /\ i' = i /\ vmStack' = vmStack
      /\ ecx' = ecx /\ edx' = edx
  BY DEF Call, assembling, loading
<1>2. /\ natv \in 1..Len(source) /\ pushed \in VmStacks
      /\ pTrain = args0[natv] + 1
      /\ Import.params = Taken /\ Import.callType \in 0..2
      /\ NoManyByFastcall /\ Import.callType > 1 => Taken <= 2
      /\ Taken \in Nat /\ pushed \in Seq(Int) /\ Taken <= Len(pushed) /\ Len(pushed) \in Nat
      /\ Frame \in Seq(Int) /\ Len(Frame) \in Nat
  BY <1>1, InHandlerFacts DEF InHandler
<1>3. /\ Taken' = Taken /\ Import' = Import /\ NoManyByFastcall' = NoManyByFastcall
      /\ \A k : Passed(k)' = Passed(k)
  BY <1>1, HandlerFrame
<1>4. /\ received' = IF Import.callType > 1
                     THEN First(<<ecx, edx>>, IF Taken > 2 THEN 2 ELSE Taken)
                            \o First(stack, OnStack(Import.callType, Taken))
                     ELSE First(stack, OnStack(Import.callType, Taken))
      /\ stack' = Drop(stack, Removes(Import.callType, Taken))
  BY <1>2, Zenon DEF Call
<1>5. PICK n \in Nat : n = Taken
  BY <1>2
<1>6. PICK q : q = Passed(n)
  OBVIOUS
<1>7. q \in Seq(Int) /\ Len(q) = IF Import.callType <= 1 THEN n ELSE IF n > 2 THEN n - 2 ELSE 0
  <2>1. n \in 0..Taken
    BY <1>5
  <2> QED
    BY <1>2, <1>6, <2>1, PassedIs
<1>8. Cleans'
  <2>1. CASE Import.callType <= 1
    <3>1. stack = q \o Frame /\ (NoManyByFastcall => ecx = SavedEcx /\ edx = SavedEdx)
      BY <1>1, <1>5, <1>6, <2>1 DEF HandlerInv, Saves
    <3>2. q = First(pushed, n)
      BY <1>2, <1>5, <1>6, <2>1, PassedIs
    <3>3. Drop(stack, n) = Frame /\ First(stack, n) = q
      <4>1. q \in Seq(Int) /\ Frame \in Seq(Int) /\ n \in Nat /\ n = Len(q)
        BY <1>2, <1>5, <1>7, <2>1
      <4> QED
        BY ONLY <3>1, <4>1, Behind
    <3>4. OnStack(Import.callType, Taken) = n
      BY <1>2, <1>5, <2>1 DEF OnStack
    <3>5. received' = First(pushed, n)
      BY <1>2, <1>4, <2>1, <3>2, <3>3, <3>4
    <3>6. Import.callType = 0 => stack' = First(pushed, n) \o Frame
      <4>1. stack \in Seq(Int)
        BY <1>2, <1>7, <3>1, ConcatProperties
      <4>2. Drop(stack, 0) = stack
        BY <4>1, DropNone
      <4> QED
        BY <1>4, <3>1, <3>2, <4>2 DEF Removes
    <3>7. Import.callType = 1 => stack' = Frame
      BY <1>4, <3>3, <3>4 DEF Removes
    <3>8. First(pushed, Taken)' = First(pushed, n)
      BY <1>1, <1>3, <1>5 DEF First
    <3> QED
      BY <1>1, <1>3, <2>1, <1>2, <3>1, <3>5, <3>6, <3>7, <3>8 DEF Cleans
  <2>2. CASE Import.callType > 1
    <3>1. /\ stack \in Seq(Int) /\ Len(stack) >= 2 /\ Drop(stack, 2) = q \o Frame
          /\ NoManyByFastcall => stack[1] = SavedEdx /\ stack[2] = SavedEcx
          /\ InRegisters(Taken, ecx, edx)
      BY <1>1, <1>5, <1>6, <2>2 DEF HandlerInv, Saves
    <3>2. PICK d \in Nat : d = IF n > 2 THEN n - 2 ELSE 0
      BY <1>5
    <3>3. Len(q) = d
      BY <1>2, <1>5, <1>7, <2>2, <3>2
    <3>4. OnStack(Import.callType, Taken) = d /\ Removes(Import.callType, Taken) = d
      BY <1>2, <1>5, <2>2, <3>2 DEF OnStack, Removes
    <3>5. PICK m \in Nat : m = Len(stack)
      BY <3>1, LenProperties
    <3>6. m = 2 + d + Len(Frame)
      <4>1. Len(Drop(stack, 2)) = Len(stack) - 2
        <5>1. stack \in Seq(Int) /\ 2 \in Nat /\ 0 \in Nat /\ 2 + 0 <= Len(stack)
          BY <3>1, <3>5
        <5> QED
          BY ONLY <5>1, DropTwice
      <4>2. Len(q \o Frame) = Len(q) + Len(Frame)
        BY <1>2, <1>7, ConcatProperties, Zenon
      <4> QED
        <5>1. Len(stack) - 2 = Len(q) + Len(Frame)
          BY <3>1, <4>1, <4>2
        <5> QED
          BY <1>2, <3>2, <3>3, <3>5, <5>1
    <3>7. /\ stack' = Drop(stack, d) /\ stack' \in Seq(Int) /\ Len(stack') = m - d
          /\ Drop(stack', 2) = Drop(stack, d + 2)
      <4>1. stack \in Seq(Int) /\ d \in Nat /\ 2 \in Nat /\ d + 2 <= Len(stack)
        BY <1>2, <3>1, <3>2, <3>5, <3>6
      <4>2. /\ Drop(Drop(stack, d), 2) = Drop(stack, d + 2)
            /\ Drop(stack, d) \in Seq(Int) /\ Len(Drop(stack, d)) = Len(stack) - d
        BY ONLY <4>1, DropTwice
      <4>3. stack' = Drop(stack, d)
        BY <1>4, <3>4
      <4> QED
        BY <3>5, <4>2, <4>3
    <3>8. Drop(stack, 2 + d) = Frame
      <4>1. stack \in Seq(Int) /\ d \in Nat /\ 2 \in Nat /\ 2 + d <= Len(stack)
        BY <1>2, <3>1, <3>2, <3>5, <3>6
      <4>2. Drop(Drop(stack, 2), d) = Drop(stack, 2 + d)
        BY ONLY <4>1, DropTwice
      <4>3. q \in Seq(Int) /\ Frame \in Seq(Int) /\ d = Len(q)
        BY <1>2, <1>7, <3>3
      <4>4. Drop(q \o Frame, d) = Frame
        BY ONLY <4>1, <4>3, Behind
      <4> QED
        BY <3>1, <4>2, <4>4
    <3>9. Drop(stack', 2) = Frame /\ Len(stack') >= 2
      <4>1. d + 2 = 2 + d
        BY <3>2
      <4> QED
        BY <1>2, <3>2, <3>5, <3>6, <3>7, <3>8, <4>1
    <3>10. ASSUME Taken <= 2 PROVE stack' = stack /\ received' = Reversed(First(pushed, Taken))
      <4>1. d = 0 /\ Taken \in 0..2
        BY <1>2, <1>5, <3>2, <3>10
      <4>5. Drop(stack, 0) = stack /\ First(stack, 0) = <<>>
        BY <3>1, DropNone
      <4>6. First(<<ecx, edx>>, Taken) = Reversed(First(pushed, Taken))
        BY <1>2, <3>1, <4>1, TwoReversed
      <4>7. PICK p \in Seq(Int) : p = First(<<ecx, edx>>, Taken)
        <5>1. <<ecx, edx>> \in Seq(Int)
          BY <3>1 DEF InRegisters
        <5>2. Taken <= Len(<<ecx, edx>>)
          BY <4>1
        <5>3. 1 \in Int /\ Taken \in Int /\ 1 <= 1 /\ 1 <= Taken + 1
          BY <4>1
        <5>4. SubSeq(<<ecx, edx>>, 1, Taken) \in Seq(Int)
          BY ONLY <5>1, <5>2, <5>3, Sub
        <5> QED
          BY <5>4 DEF First
      <4>8. received' = p \o <<>>
        <5>1. (IF Taken > 2 THEN 2 ELSE Taken) = Taken
          BY <4>1
        <5> QED
          BY <1>4, <2>2, <3>4, <4>1, <4>5, <4>7, <5>1
      <4>9. p \o <<>> = p
        BY <4>7, ConcatSimplifications
      <4> QED
        BY <3>7, <4>1, <4>5, <4>6, <4>7, <4>8, <4>9
    <3>11. NoManyByFastcall => stack'[1] = SavedEdx /\ stack'[2] = SavedEcx
      BY <1>2, <2>2, <3>1, <3>10
    <3>12. /\ Drop(stack, 2)' = Drop(stack', 2) /\ Reversed(First(pushed, Taken))' = Reversed(First(pushed, Taken))
      BY <1>1, <1>3 DEF Drop, Reversed, First
    <3> QED
      BY <1>2, <1>3, <2>2, <3>7, <3>9, <3>10, <3>11, <3>12, SMTT(30) DEF Cleans
  <2> QED
    BY <1>2, <2>1, <2>2
<1>9. HandlerType'
  BY <1>1 DEF HandlerInv, HandlerType, InCall
<1>10. AtRest'
  BY <1>1 DEF HandlerInv, AtRest, Building
<1>11. Walks'
  BY <1>1, <1>2 DEF Walks
<1>12. Pushes'
  BY <1>1, <1>3 DEF HandlerInv, Pushes, Drop
<1>13. Saves'
  BY <1>1 DEF Saves
<1> QED
  BY <1>8, <1>9, <1>10, <1>11, <1>12, <1>13 DEF HandlerInv

LEMMA CleanKeepsHandler == TableInv /\ HandlerInv /\ Clean => HandlerInv'
<1> SUFFICES ASSUME TableInv, HandlerInv, Clean PROVE HandlerInv'
  OBVIOUS
<1>1. /\ phase = "clean" /\ phase' = "ready"
      /\ source' = source /\ args0' = args0 /\ natv' = natv /\ pushed' = pushed
      /\ vmStack' = vmStack
  BY DEF Clean, assembling
<1>2. /\ Import.callType \in 0..2
      /\ Taken \in Nat /\ pushed \in Seq(Int) /\ Taken <= Len(pushed) /\ Frame \in Seq(Int)
  BY <1>1, InHandlerFacts DEF InHandler
<1>3. i = Taken /\ vmStack = Drop(pushed, Taken)
  BY <1>1 DEF HandlerInv, Pushes
<1>4. ecx \in Int /\ edx \in Int
  BY DEF HandlerInv, HandlerType
<1>5. stack' = Frame /\ ecx' \in Int /\ edx' \in Int /\ (NoManyByFastcall => ecx' = SavedEcx /\ edx' = SavedEdx)
  <2>1. CASE Import.callType = 0
    <3>1. stack' = Drop(stack, Taken) /\ ecx' = ecx /\ edx' = edx
      BY <1>3, <2>1 DEF Clean
    <3>2. PICK q \in Seq(Int) : q = First(pushed, Taken) /\ Len(q) = Taken
      <4>1. PICK r : r = SubSeq(pushed, 1, Taken)
        OBVIOUS
      <4>2. 1 \in Int /\ Taken \in Int /\ 1 <= 1 /\ Taken <= Len(pushed) /\ 1 <= Taken + 1
            /\ pushed \in Seq(Int) /\ Taken - 1 + 1 = Taken
        BY <1>2
      <4>3. r \in Seq(Int) /\ Len(r) = Taken - 1 + 1
        BY ONLY <4>1, <4>2, Sub
      <4> QED
        BY <4>1, <4>2, <4>3 DEF First
    <3>3. stack = q \o Frame /\ (NoManyByFastcall => ecx = SavedEcx /\ edx = SavedEdx)
      BY <1>1, <1>2, <2>1, <3>2 DEF HandlerInv, Cleans
    <3>4. Drop(q \o Frame, Taken) = Frame
      <4>1. q \in Seq(Int) /\ Frame \in Seq(Int) /\ Taken \in Nat /\ Taken = Len(q)
        BY <1>2, <3>2
      <4> QED
        BY ONLY <4>1, Behind
    <3> QED
      BY <1>4, <3>1, <3>3, <3>4
  <2>2. CASE Import.callType = 1
    <3>1. stack' = stack /\ ecx' = ecx /\ edx' = edx
      BY <2>2 DEF Clean
    <3>2. stack = Frame /\ (NoManyByFastcall => ecx = SavedEcx /\ edx = SavedEdx)
      BY <1>1, <2>2 DEF HandlerInv, Cleans
    <3> QED
      BY <1>4, <3>1, <3>2
  <2>3. CASE Import.callType > 1
    <3>1. edx' = stack[1] /\ ecx' = stack[2] /\ stack' = Drop(stack, 2)
      BY <1>2, <2>3 DEF Clean
    <3>2. /\ stack \in Seq(Int) /\ Len(stack) >= 2 /\ Drop(stack, 2) = Frame
          /\ NoManyByFastcall => stack[1] = SavedEdx /\ stack[2] = SavedEcx
      BY <1>1, <2>3 DEF HandlerInv, Cleans
    <3>3. stack[1] \in Int /\ stack[2] \in Int
      <4>1. 1 \in 1..Len(stack) /\ 2 \in 1..Len(stack)
        BY <3>2, LenProperties
      <4> QED
        BY <3>2, <4>1, ElementOfSeq
    <3> QED
      BY <3>1, <3>2, <3>3
  <2> QED
    BY <1>2, <2>1, <2>2, <2>3
<1>6. HandlerType'
  BY <1>1, <1>5 DEF HandlerInv, HandlerType, InCall
<1>7. AtRest'
  <2>1. Taken' = Taken /\ NoManyByFastcall' = NoManyByFastcall
    BY <1>1 DEF Taken, ParamsOf, NoManyByFastcall
  <2>2. vmStack' = Drop(pushed, Taken)'
    BY <1>1, <1>3, <2>1 DEF Drop
  <2> QED
    BY <1>1, <1>5, <2>1, <2>2 DEF AtRest, Building
<1>8. Walks' /\ Pushes' /\ Saves' /\ Cleans'
  BY <1>1 DEF Walks, Pushes, Saves, Cleans, InHandler
<1> QED
  BY <1>6, <1>7, <1>8 DEF HandlerInv
----------------------------------------------------------------------------
(* The theorems *)

LEMMA StepKeeps == IInv /\ [Next]_vars => IInv'
<1> SUFFICES ASSUME TableInv, HandlerInv, [Next]_vars PROVE TableInv' /\ HandlerInv'
  BY DEF IInv
<1>1. CASE Assemble
  <2>1. TableInv'
    BY <1>1, AssembleKeepsTable
  <2>2. Building /\ phase' = "assemble" /\ source' = source /\ UNCHANGED calling
    BY <1>1 DEF Assemble, Building
  <2> QED
    BY <2>1, <2>2, BuildingKeepsHandler
<1>2. CASE Write
  <2>1. TableInv'
    BY <1>2, WriteKeepsTable
  <2>2. Building /\ phase' = "load" /\ source' = source /\ UNCHANGED calling
    BY <1>2 DEF Write, Building, assembling
  <2> QED
    BY <2>1, <2>2, BuildingKeepsHandler
<1>3. CASE Parse
  <2>1. TableInv'
    BY <1>3, ParseKeepsTable
  <2>2. Building /\ phase' = "load" /\ source' = source /\ UNCHANGED calling
    BY <1>3 DEF Parse, Building, assembling
  <2> QED
    BY <2>1, <2>2, BuildingKeepsHandler
<1>4. CASE Loaded
  <2>1. TableInv'
    BY <1>4, LoadedKeepsTable
  <2>2. Building /\ phase' = "ready" /\ source' = source /\ UNCHANGED calling
    BY <1>4 DEF Loaded, Building, assembling
  <2> QED
    BY <2>1, <2>2, BuildingKeepsHandler
<1>5. CASE Natv
  <2>1. UNCHANGED <<assembling, loading>> /\ ~Building /\ ~Building'
    BY <1>5 DEF Natv, Building
  <2> QED
    BY <1>5, <2>1, OthersKeepTable, NatvKeepsHandler
<1>6. CASE Walk
  <2>1. UNCHANGED <<assembling, loading>> /\ ~Building /\ ~Building'
    BY <1>6 DEF Walk, Building
  <2> QED
    BY <1>6, <2>1, OthersKeepTable, WalkKeepsHandler
<1>7. CASE Push
  <2>1. UNCHANGED <<assembling, loading>> /\ ~Building /\ ~Building'
    BY <1>7 DEF Push, Building
  <2> QED
    BY <1>7, <2>1, OthersKeepTable, PushKeepsHandler
<1>8. CASE Save
  <2>1. UNCHANGED <<assembling, loading>> /\ ~Building /\ ~Building'
    BY <1>8 DEF Save, Building
  <2> QED
    BY <1>8, <2>1, OthersKeepTable, SaveKeepsHandler
<1>9. CASE Call
  <2>1. UNCHANGED <<assembling, loading>> /\ ~Building /\ ~Building'
    BY <1>9 DEF Call, Building
  <2> QED
    BY <1>9, <2>1, OthersKeepTable, CallKeepsHandler
<1>10. CASE Clean
  <2>1. UNCHANGED <<assembling, loading>> /\ ~Building /\ ~Building'
    BY <1>10 DEF Clean, Building
  <2> QED
    BY <1>10, <2>1, OthersKeepTable, CleanKeepsHandler
<1>11. CASE UNCHANGED vars
  <2>1. UNCHANGED <<assembling, loading>> /\ phase' = phase /\ UNCHANGED calling
    BY <1>11 DEF vars
  <2>2. TableInv'
    <3>1. Building => phase' = phase
      BY <2>1
    <3>2. ~Building => ~Building'
      BY <2>1 DEF Building
    <3> QED
      BY <2>1, <3>1, <3>2, OthersKeepTable
  <2>3. /\ natv' = natv /\ pTrain' = pTrain /\ iNumImp' = iNumImp /\ i' = i /\ ecx' = ecx /\ edx' = edx
        /\ iEcx' = iEcx /\ iEdx' = iEdx /\ stack' = stack /\ vmStack' = vmStack /\ pushed' = pushed
        /\ received' = received /\ source' = source /\ args0' = args0 /\ imports' = imports /\ phase' = phase
    BY <2>1 DEF calling, assembling, loading
  <2>4. HandlerInv' = HandlerInv
    <3>1. /\ Taken' = Taken /\ Import' = Import /\ NoManyByFastcall' = NoManyByFastcall
          /\ \A k : Passed(k)' = Passed(k)
      BY <2>3, HandlerFrame
    <3>2. Building' = Building /\ InHandler' = InHandler /\ InCall' = InCall
      BY <2>3 DEF Building, InHandler, InCall
    <3>3. HandlerType' = HandlerType /\ AtRest' = AtRest /\ Walks' = Walks
      BY <2>3, <3>1, <3>2 DEF HandlerType, AtRest, Walks, Drop
    <3>4. Passed(i)' = Passed(i) /\ Passed(Taken)' = Passed(Taken)
      BY <2>3, <3>1 DEF Passed
    <3>5. Pushes' = Pushes /\ Saves' = Saves /\ Cleans' = Cleans
      <4>1. Pushes' = Pushes
        BY <2>3, <3>1, <3>4 DEF Pushes, Drop, InRegisters
      <4>2. Saves' = Saves
        BY <2>3, <3>1, <3>4 DEF Saves, Drop, InRegisters
      <4>3. Cleans' = Cleans
        BY <2>3, <3>1, <3>4 DEF Cleans, Drop, First, Reversed
      <4> QED
        BY <4>1, <4>2, <4>3
    <3> QED
      BY <3>3, <3>5 DEF HandlerInv
  <2> QED
    BY <2>2, <2>4
<1> QED
  BY <1>1, <1>2, <1>3, <1>4, <1>5, <1>6, <1>7, <1>8, <1>9, <1>10, <1>11 DEF Next

\* The table, the list, the instructions' indices and the two stacks fit together
\* in every state.
THEOREM ImportsInvariant == Spec => []IInv
<1>1. Init => IInv
  BY TableInit, HandlerInit DEF IInv
<1> QED
  BY <1>1, StepKeeps, PTL DEF Spec

\* The parser is at a mark, with two marks behind it for each import, or at the
\* end of the table with all of them.
THEOREM ParserStaysAligned == Spec => []ParserAtRecord
<1>1. IInv => ParserAtRecord
  BY TableImpliesParser DEF IInv
<1> QED
  BY <1>1, ImportsInvariant, PTL

LEMMA InvImpliesImport == IInv => NatvCallsItsImport
<1> SUFFICES ASSUME TableInv, HandlerInv PROVE NatvCallsItsImport
  BY DEF IInv
<1>1. ASSUME phase = "walk", imports[pTrain].next = 0 PROVE iNumImp = args0[natv]
  <2>1. /\ natv \in 1..Len(source) /\ ~Building
        /\ iNumImp \in 0..args0[natv] /\ pTrain = iNumImp + 1
    <3>1. Len(source) \in Nat
      BY SourcesAssumption, LenProperties DEF TableInv, TableType
    <3> QED
      BY <1>1, <3>1 DEF HandlerInv, HandlerType, Walks, InCall, Building
  <2>2. args0[natv] \in Nat /\ args0[natv] + 1 \in 1..Len(imports)
    BY <2>1, IndexType
  <2>3. PICK n \in Nat : n = Len(imports)
    BY LenProperties DEF TableInv
  <2>4. pTrain \in 1..n
    BY <2>1, <2>2, <2>3
  <2>5. 0 = IF pTrain < n THEN pTrain + 1 ELSE IF pTrain = 1 THEN 1 ELSE 0
    BY <1>1, <2>3, <2>4 DEF TableInv, Linked
  <2> QED
    BY <2>1, <2>2, <2>3, <2>4, <2>5
<1>2. ASSUME InHandler
      PROVE  \E k \in 1..natv :
                /\ k = natv \/ Shares(natv, k)
                /\ Import.mod = source[k].mod
                /\ Import.func = source[k].func
                /\ Import.params = source[k].params
                /\ Import.callType = GetCallingConvention(source[k].conv)
  <2>1. natv \in 1..Len(source) /\ ~Building /\ pTrain = args0[natv] + 1
    BY <1>2, InHandlerFacts
  <2>2. PICK k \in 1..natv : (k = natv \/ Shares(natv, k)) /\ Reads(Import, k)
    BY <2>1, Called
  <2> QED
    BY <2>2 DEF Reads, ModOf, FuncOf, ParamsOf, ConvOf
<1> QED
  BY <1>1, <1>2 DEF NatvCallsItsImport

\* Whatever the program, natv calls the import of its line, or the one that
\* IatContains confuses it with, which has its function and parameters.
THEOREM NatvCallsRight == Spec => []NatvCallsItsImport
<1> QED
  BY InvImpliesImport, ImportsInvariant, PTL

LEMMA InvImpliesBalance == IInv => StacksBalanced
<1> SUFFICES ASSUME HandlerInv, phase = "ready"
             PROVE  /\ stack = Frame
                    /\ natv # 0 => vmStack = Drop(pushed, Line.params)
                    /\ NoManyByFastcall => ecx = SavedEcx /\ edx = SavedEdx
  BY DEF IInv, StacksBalanced, NoManyByFastcall
<1> QED
  BY DEF HandlerInv, AtRest, Taken, ParamsOf, Line

\* Under every convention, and for any number of parameters, NatvHandler leaves
\* the host's stack as it found it and moves r7 over the parameters.
THEOREM StacksStayBalanced == Spec => []StacksBalanced
<1> QED
  BY InvImpliesBalance, ImportsInvariant, PTL

LEMMA InvImpliesArguments == IInv => ArgumentsArrive
<1> SUFFICES ASSUME TableInv, HandlerInv, phase = "clean"
             PROVE  LET n == Line.params
                    IN  /\ Import.callType <= 1 => received = First(pushed, n)
                        /\ Import.callType > 1 /\ n <= 2 => received = Reversed(First(pushed, n))
  BY DEF IInv, ArgumentsArrive
<1>1. Line.params = Taken
  BY DEF Line, Taken, ParamsOf
<1> QED
  BY <1>1 DEF HandlerInv, Cleans

\* The called function finds the pushed parameters, in the order of its convention.
THEOREM ParametersArrive == Spec => []ArgumentsArrive
<1> QED
  BY InvImpliesArguments, ImportsInvariant, PTL
=============================================================================
