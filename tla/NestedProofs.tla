----------------------------- MODULE NestedProofs -----------------------------
(***************************************************************************)
(* Proofs about Nested, for every set of algorithms, every file and any    *)
(* number of layers: the generated code takes off what the macro put on,   *)
(* byte by byte (LayerUndone), and nested_dump finds what it has to find   *)
(* in the file (LayerOff).                                                 *)
(***************************************************************************)
EXTENDS Nested, FiniteSetTheorems, SequenceTheorems, WellFoundedInduction, TLAPS

ByteSet == 0..255
----------------------------------------------------------------------------
(* Induction over a chain of steps *)

\* A set of the first numbers that is closed under successor holds them all.
LEMMA Up ==
    ASSUME NEW n \in Nat, NEW S, S \subseteq 0..n, 0 \in S,
           \A k \in 1..n : k - 1 \in S => k \in S
    PROVE  S = 0..n
<1> DEFINE less == {ij \in Nat \X Nat : ij[1] < ij[2]}
           T == (0..n) \ S
<1>1. IsWellFoundedOn(less, Nat)
  BY NatLessThanWellFounded, Zenon DEF OpToRel
<1>2. \A j, k \in Nat : <<j, k>> \in less <=> j < k
  BY DEF less
<1> HIDE DEF less
<1>3. ASSUME T # {} PROVE FALSE
  <2>1. T \subseteq Nat
    OBVIOUS
  <2> HIDE DEF T
  <2>2. PICK x \in T : \A y \in T : ~(<<y, x>> \in less)
    BY <1>1, <1>3, <2>1, WFMin
  <2> USE DEF T
  <2>3. x \in 1..n
    OBVIOUS
  <2>4. x - 1 \in S
    <3>1. x - 1 \in 0..n /\ x - 1 < x /\ x - 1 \in Nat /\ x \in Nat
      BY <2>3
    <3> QED
      BY <1>2, <2>2, <3>1
  <2> QED
    BY <2>3, <2>4
<1> QED
  BY <1>3

\* G[i] is the i-th step.
Steps(f, n, b, G) == f[0] = b /\ \A i \in 1..n : f[i] = G[i][f[i - 1]]

LEMMA ChainExists ==
    ASSUME NEW n \in Nat, NEW b \in Int, NEW G \in [1..n -> [Int -> Int]]
    PROVE  \E f \in [0..n -> Int] : Steps(f, n, b, G)
<1> DEFINE S == {k \in 0..n : \E f \in [0..k -> Int] : Steps(f, k, b, G)}
<1>1. 0 \in S
  <2>1. [i \in 0..0 |-> b] \in [0..0 -> Int] /\ Steps([i \in 0..0 |-> b], 0, b, G)
    BY DEF Steps
  <2> QED
    BY <2>1
<1>2. ASSUME NEW k \in 1..n, k - 1 \in S PROVE k \in S
  <2>1. PICK f \in [0..(k - 1) -> Int] : Steps(f, k - 1, b, G)
    BY <1>2
  <2> DEFINE g == [i \in 0..k |-> IF i = k THEN G[k][f[k - 1]] ELSE f[i]]
  <2>2. G[k][f[k - 1]] \in Int
    OBVIOUS
  <2>3. g \in [0..k -> Int]
    BY <2>2
  <2>4. g[0] = b
    BY <2>1 DEF Steps
  <2>5. ASSUME NEW i \in 1..k PROVE g[i] = G[i][g[i - 1]]
    <3>1. CASE i = k
      BY <3>1
    <3>2. CASE i # k
      <4>1. i \in 1..(k - 1) /\ g[i] = f[i] /\ g[i - 1] = f[i - 1]
        BY <3>2
      <4> QED
        BY <2>1, <4>1 DEF Steps
    <3> QED
      BY <3>1, <3>2
  <2> HIDE DEF g
  <2>6. Steps(g, k, b, G)
    BY <2>4, <2>5 DEF Steps
  <2> QED
    BY <2>3, <2>6
<1> HIDE DEF S
<1>3. S = 0..n
  <2>1. S \subseteq 0..n
    BY DEF S
  <2> QED
    BY <1>1, <1>2, <2>1, Up
<1>4. n \in S
  BY <1>3
<1> QED
  BY <1>4 DEF S

LEMMA ChainType ==
    ASSUME NEW n \in Nat, NEW b \in Int, NEW G \in [1..n -> [Int -> Int]], NEW f,
           Steps(f, n, b, G), NEW k \in 0..n
    PROVE  f[k] \in Int
<1> DEFINE S == {j \in 0..n : f[j] \in Int}
<1>1. 0 \in S
  BY DEF Steps
<1>2. ASSUME NEW j \in 1..n, j - 1 \in S PROVE j \in S
  <2>1. f[j - 1] \in Int /\ G[j] \in [Int -> Int] /\ f[j] = G[j][f[j - 1]] /\ j \in 0..n
    BY <1>2 DEF Steps
  <2>2. f[j] \in Int
    BY <2>1
  <2> QED
    BY <2>1, <2>2
<1> HIDE DEF S
<1>3. S = 0..n
  <2>1. S \subseteq 0..n
    BY DEF S
  <2> QED
    BY <1>1, <1>2, <2>1, Up
<1> QED
  BY <1>3 DEF S
----------------------------------------------------------------------------
(* Exclusive or *)

Digit == {0, 1}
Binary == [0..7 -> Digit]

\* The byte with these digits.
Of(d) == d[0] + 2 * d[1] + 4 * d[2] + 8 * d[3] + 16 * d[4] + 32 * d[5] + 64 * d[6] + 128 * d[7]

LEMMA Digits ==
    ASSUME NEW v \in ByteSet
    PROVE  \E d \in Binary : v = Of(d)
<1>1. \A u \in Nat : \E q \in Nat, d \in Digit : u = 2 * q + d
  <2> TAKE u \in Nat
  <2>1. \A q, d \in Int : q = u \div 2 /\ d = u % 2 => q \in Nat /\ d \in Digit /\ u = 2 * q + d
    BY DEF Digit
  <2>2. u \div 2 \in Int /\ u % 2 \in Int
    OBVIOUS
  <2> QED
    BY <2>1, <2>2
<1>2. PICK q0 \in Nat, d0 \in Digit : v = 2 * q0 + d0
  BY <1>1 DEF ByteSet
<1>3. PICK q1 \in Nat, d1 \in Digit : q0 = 2 * q1 + d1
  BY <1>1
<1>4. PICK q2 \in Nat, d2 \in Digit : q1 = 2 * q2 + d2
  BY <1>1
<1>5. PICK q3 \in Nat, d3 \in Digit : q2 = 2 * q3 + d3
  BY <1>1
<1>6. PICK q4 \in Nat, d4 \in Digit : q3 = 2 * q4 + d4
  BY <1>1
<1>7. PICK q5 \in Nat, d5 \in Digit : q4 = 2 * q5 + d5
  BY <1>1
<1>8. PICK q6 \in Nat, d6 \in Digit : q5 = 2 * q6 + d6
  BY <1>1
<1>9. PICK q7 \in Nat, d7 \in Digit : q6 = 2 * q7 + d7
  BY <1>1
<1>10. q7 = 0
  BY <1>2, <1>3, <1>4, <1>5, <1>6, <1>7, <1>8, <1>9 DEF Digit, ByteSet
<1> DEFINE d == [i \in 0..7 |-> CASE i = 0 -> d0 [] i = 1 -> d1 [] i = 2 -> d2 [] i = 3 -> d3
                                [] i = 4 -> d4 [] i = 5 -> d5 [] i = 6 -> d6 [] i = 7 -> d7]
<1>11. /\ d[0] = d0 /\ d[1] = d1 /\ d[2] = d2 /\ d[3] = d3
       /\ d[4] = d4 /\ d[5] = d5 /\ d[6] = d6 /\ d[7] = d7
  OBVIOUS
<1>12. d \in Binary
  BY DEF Binary
<1> HIDE DEF d
<1>13. v = Of(d)
  BY <1>2, <1>3, <1>4, <1>5, <1>6, <1>7, <1>8, <1>9, <1>10, <1>11 DEF Digit, Of
<1> QED
  BY <1>12, <1>13

LEMMA DigitsTyped ==
    ASSUME NEW d \in Binary
    PROVE  /\ d[0] \in Digit /\ d[1] \in Digit /\ d[2] \in Digit /\ d[3] \in Digit
           /\ d[4] \in Digit /\ d[5] \in Digit /\ d[6] \in Digit /\ d[7] \in Digit
BY DEF Binary

LEMMA OfType ==
    ASSUME NEW d \in Binary
    PROVE  Of(d) \in ByteSet
BY DigitsTyped DEF Digit, Of, ByteSet

\* What XorBytes finds in the byte v: its quotients and their last digits.
Found(v, d) ==
    /\ v \div 1 \in Int /\ v \div 2 \in Int /\ v \div 4 \in Int /\ v \div 8 \in Int
    /\ v \div 16 \in Int /\ v \div 32 \in Int /\ v \div 64 \in Int /\ v \div 128 \in Int
    /\ (v \div 1) % 2 = d[0] /\ (v \div 2) % 2 = d[1] /\ (v \div 4) % 2 = d[2]
    /\ (v \div 8) % 2 = d[3] /\ (v \div 16) % 2 = d[4] /\ (v \div 32) % 2 = d[5]
    /\ (v \div 64) % 2 = d[6] /\ (v \div 128) % 2 = d[7]

LEMMA Halves ==
    ASSUME NEW v \in Nat
    PROVE  /\ v \div 1 = v /\ v \div 4 = (v \div 2) \div 2 /\ v \div 8 = (v \div 4) \div 2
           /\ v \div 16 = (v \div 8) \div 2 /\ v \div 32 = (v \div 16) \div 2
           /\ v \div 64 = (v \div 32) \div 2 /\ v \div 128 = (v \div 64) \div 2
OBVIOUS

\* One digit more.
More(q, x) == 2 * q + x

LEMMA LastDigit ==
    ASSUME NEW q \in Nat, NEW x \in Digit
    PROVE  More(q, x) \in Nat /\ More(q, x) % 2 = x /\ More(q, x) \div 2 = q
BY DEF Digit, More

LEMMA Regroup ==
    ASSUME NEW d,
           d[0] \in Int, d[1] \in Int, d[2] \in Int, d[3] \in Int,
           d[4] \in Int, d[5] \in Int, d[6] \in Int, d[7] \in Int
    PROVE  Of(d) = More(More(More(More(More(More(More(d[7], d[6]), d[5]), d[4]), d[3]), d[2]), d[1]), d[0])
<1>1. PICK d0, d1, d2, d3, d4, d5, d6, d7 \in Int :
          /\ d0 = d[0] /\ d1 = d[1] /\ d2 = d[2] /\ d3 = d[3]
          /\ d4 = d[4] /\ d5 = d[5] /\ d6 = d[6] /\ d7 = d[7]
  OBVIOUS
<1>2. d0 + 2 * d1 + 4 * d2 + 8 * d3 + 16 * d4 + 32 * d5 + 64 * d6 + 128 * d7
          = More(More(More(More(More(More(More(d7, d6), d5), d4), d3), d2), d1), d0)
  BY DEF More
<1> QED
  BY <1>1, <1>2 DEF Of

LEMMA DigitsFound ==
    ASSUME NEW d \in Binary, NEW v, v = Of(d)
    PROVE  Found(v, d)
<1> DEFINE q7 == d[7]
           q6 == More(q7, d[6])
           q5 == More(q6, d[5])
           q4 == More(q5, d[4])
           q3 == More(q4, d[3])
           q2 == More(q3, d[2])
           q1 == More(q2, d[1])
           q0 == More(q1, d[0])
<1>1. /\ d[0] \in Digit /\ d[1] \in Digit /\ d[2] \in Digit /\ d[3] \in Digit
      /\ d[4] \in Digit /\ d[5] \in Digit /\ d[6] \in Digit /\ d[7] \in Digit
  BY DigitsTyped
<1>2. v = q0
  <2>1. /\ d[0] \in Int /\ d[1] \in Int /\ d[2] \in Int /\ d[3] \in Int
        /\ d[4] \in Int /\ d[5] \in Int /\ d[6] \in Int /\ d[7] \in Int
    BY <1>1 DEF Digit
  <2> QED
    BY <2>1, Regroup
<1>3. q7 \in Nat /\ q7 % 2 = d[7]
  BY <1>1 DEF Digit
<1> HIDE DEF q7
<1>4. q6 \in Nat /\ q6 % 2 = d[6] /\ q6 \div 2 = q7
  BY <1>1, <1>3, LastDigit
<1> HIDE DEF q6
<1>5. q5 \in Nat /\ q5 % 2 = d[5] /\ q5 \div 2 = q6
  BY <1>1, <1>4, LastDigit
<1> HIDE DEF q5
<1>6. q4 \in Nat /\ q4 % 2 = d[4] /\ q4 \div 2 = q5
  BY <1>1, <1>5, LastDigit
<1> HIDE DEF q4
<1>7. q3 \in Nat /\ q3 % 2 = d[3] /\ q3 \div 2 = q4
  BY <1>1, <1>6, LastDigit
<1> HIDE DEF q3
<1>8. q2 \in Nat /\ q2 % 2 = d[2] /\ q2 \div 2 = q3
  BY <1>1, <1>7, LastDigit
<1> HIDE DEF q2
<1>9. q1 \in Nat /\ q1 % 2 = d[1] /\ q1 \div 2 = q2
  BY <1>1, <1>8, LastDigit
<1> HIDE DEF q1
<1>10. q0 \in Nat /\ q0 % 2 = d[0] /\ q0 \div 2 = q1
  BY <1>1, <1>9, LastDigit
<1> HIDE DEF q0
<1>11. v \div 1 = q0 /\ v \div 2 = q1
  BY <1>2, <1>10, Halves
<1>12. v \div 4 = q2 /\ v \div 8 = q3 /\ v \div 16 = q4
  BY <1>2, <1>7, <1>8, <1>9, <1>10, <1>11, Halves
<1>13. v \div 32 = q5 /\ v \div 64 = q6 /\ v \div 128 = q7
  BY <1>2, <1>4, <1>5, <1>6, <1>10, <1>12, Halves
<1> QED
  BY <1>3, <1>4, <1>5, <1>6, <1>7, <1>8, <1>9, <1>10, <1>11, <1>12, <1>13 DEF Found

\* The digits of the exclusive or.
Sum2(d, e) == [k \in 0..7 |-> (d[k] + e[k]) % 2]

LEMMA Sum2Undone ==
    ASSUME NEW d \in Binary, NEW e \in Binary
    PROVE  Sum2(d, e) \in Binary /\ Sum2(Sum2(d, e), e) = d
<1>1. \A x, y \in Digit : (x + y) % 2 \in Digit /\ (((x + y) % 2) + y) % 2 = x
  BY DEF Digit
<1>2. \A k \in 0..7 : d[k] \in Digit /\ e[k] \in Digit
  BY DEF Binary
<1>3. Sum2(d, e) \in Binary
  BY <1>1, <1>2 DEF Sum2, Binary
<1>4. \A k \in 0..7 : Sum2(Sum2(d, e), e)[k] = d[k]
  BY <1>1, <1>2 DEF Sum2
<1>5. d = [k \in 0..7 |-> d[k]]
  BY DEF Binary
<1> QED
  BY <1>3, <1>4, <1>5 DEF Sum2

LEMMA XorOf ==
    ASSUME NEW d \in Binary, NEW e \in Binary, NEW a, a = Of(d), NEW b, b = Of(e)
    PROVE  XorBytes(a, b) = Of(Sum2(d, e))
<1>1. Found(a, d) /\ Found(b, e)
  BY DigitsFound
<1> DEFINE Parity(x, y) == (x + y) % 2 = ((x % 2) + (y % 2)) % 2
<1>2. \A x, y \in Int : Parity(x, y)
  OBVIOUS
<1> HIDE DEF Parity
<1>3. ((a \div 1) + (b \div 1)) % 2 = (d[0] + e[0]) % 2
  <2>1. Parity(a \div 1, b \div 1)
    BY <1>1, <1>2, Zenon DEF Found
  <2> QED
    BY <1>1, <2>1, Zenon DEF Found, Parity
<1>4. ((a \div 2) + (b \div 2)) % 2 = (d[1] + e[1]) % 2
  <2>1. Parity(a \div 2, b \div 2)
    BY <1>1, <1>2, Zenon DEF Found
  <2> QED
    BY <1>1, <2>1, Zenon DEF Found, Parity
<1>5. ((a \div 4) + (b \div 4)) % 2 = (d[2] + e[2]) % 2
  <2>1. Parity(a \div 4, b \div 4)
    BY <1>1, <1>2, Zenon DEF Found
  <2> QED
    BY <1>1, <2>1, Zenon DEF Found, Parity
<1>6. ((a \div 8) + (b \div 8)) % 2 = (d[3] + e[3]) % 2
  <2>1. Parity(a \div 8, b \div 8)
    BY <1>1, <1>2, Zenon DEF Found
  <2> QED
    BY <1>1, <2>1, Zenon DEF Found, Parity
<1>7. ((a \div 16) + (b \div 16)) % 2 = (d[4] + e[4]) % 2
  <2>1. Parity(a \div 16, b \div 16)
    BY <1>1, <1>2, Zenon DEF Found
  <2> QED
    BY <1>1, <2>1, Zenon DEF Found, Parity
<1>8. ((a \div 32) + (b \div 32)) % 2 = (d[5] + e[5]) % 2
  <2>1. Parity(a \div 32, b \div 32)
    BY <1>1, <1>2, Zenon DEF Found
  <2> QED
    BY <1>1, <2>1, Zenon DEF Found, Parity
<1>9. ((a \div 64) + (b \div 64)) % 2 = (d[6] + e[6]) % 2
  <2>1. Parity(a \div 64, b \div 64)
    BY <1>1, <1>2, Zenon DEF Found
  <2> QED
    BY <1>1, <2>1, Zenon DEF Found, Parity
<1>10. ((a \div 128) + (b \div 128)) % 2 = (d[7] + e[7]) % 2
  <2>1. Parity(a \div 128, b \div 128)
    BY <1>1, <1>2, Zenon DEF Found
  <2> QED
    BY <1>1, <2>1, Zenon DEF Found, Parity
<1> DEFINE s == Sum2(d, e)
<1>11. /\ s[0] = (d[0] + e[0]) % 2 /\ s[1] = (d[1] + e[1]) % 2 /\ s[2] = (d[2] + e[2]) % 2
       /\ s[3] = (d[3] + e[3]) % 2 /\ s[4] = (d[4] + e[4]) % 2 /\ s[5] = (d[5] + e[5]) % 2
       /\ s[6] = (d[6] + e[6]) % 2 /\ s[7] = (d[7] + e[7]) % 2
  BY DEF Sum2
<1>12. s[0] \in Int /\ 1 * s[0] = s[0]
  BY Sum2Undone, DigitsTyped DEF Digit
<1>13. XorBytes(a, b) = 1 * s[0] + 2 * s[1] + 4 * s[2] + 8 * s[3] + 16 * s[4] + 32 * s[5]
                            + 64 * s[6] + 128 * s[7]
  <2>1. XorBytes(a, b) =
            1 * (((a \div 1) + (b \div 1)) % 2) + 2 * (((a \div 2) + (b \div 2)) % 2)
            + 4 * (((a \div 4) + (b \div 4)) % 2) + 8 * (((a \div 8) + (b \div 8)) % 2)
            + 16 * (((a \div 16) + (b \div 16)) % 2) + 32 * (((a \div 32) + (b \div 32)) % 2)
            + 64 * (((a \div 64) + (b \div 64)) % 2) + 128 * (((a \div 128) + (b \div 128)) % 2)
    BY DEF XorBytes
  <2> HIDE DEF s
  <2> QED
    BY <2>1, <1>3, <1>4, <1>5, <1>6, <1>7, <1>8, <1>9, <1>10, <1>11
<1> QED
  BY <1>12, <1>13 DEF Of

\* The exclusive or with a byte undoes itself.
LEMMA XorUndone ==
    ASSUME NEW a \in ByteSet, NEW b \in ByteSet
    PROVE  XorBytes(a, b) \in ByteSet /\ XorBytes(XorBytes(a, b), b) = a
<1>1. PICK d \in Binary : a = Of(d)
  BY Digits
<1>2. PICK e \in Binary : b = Of(e)
  BY Digits
<1>3. XorBytes(a, b) = Of(Sum2(d, e))
  BY <1>1, <1>2, XorOf
<1>4. Sum2(d, e) \in Binary /\ Sum2(Sum2(d, e), e) = d
  BY Sum2Undone
<1>5. XorBytes(XorBytes(a, b), b) = Of(Sum2(Sum2(d, e), e))
  BY <1>2, <1>3, <1>4, XorOf
<1> QED
  BY <1>1, <1>3, <1>4, <1>5, OfType
----------------------------------------------------------------------------
(* One operation and the reversed one *)

Ops == {"-", "xor", "+"}
Numbers == 1..254

LEMMA RangeOfOps == Range(ops) = Ops
BY DEF ops, Range, Ops

LEMMA Reversed ==
    reverse_op("-") = "+" /\ reverse_op("xor") = "xor" /\ reverse_op("+") = "-"
<1>1. ops[1] = "-" /\ ops[2] = "xor" /\ ops[3] = "+"
  BY DEF ops
<1>2. /\ (CHOOSE i \in 1..OP_CNT : ops[i] = "-") = 1
      /\ (CHOOSE i \in 1..OP_CNT : ops[i] = "xor") = 2
      /\ (CHOOSE i \in 1..OP_CNT : ops[i] = "+") = 3
  BY <1>1 DEF OP_CNT
<1> QED
  BY <1>1, <1>2 DEF reverse_op, mid_index, OP_CNT

LEMMA LowByte ==
    ASSUME NEW v \in Int
    PROVE  v % 256 \in ByteSet /\ (v % 256) % 256 = v % 256
BY DEF ByteSet

\* v with another low byte.
Low(v, x) == (v - (v % 256)) + x

LEMMA LowType ==
    ASSUME NEW v \in Int, NEW x \in ByteSet
    PROVE  Low(v, x) \in Int /\ Low(v, x) % 256 = x
BY DEF ByteSet, Low

LEMMA ApplyType ==
    ASSUME NEW op \in Ops, NEW n \in Numbers
    PROVE  Apply(op, n) \in [Int -> Int]
<1>1. n \in ByteSet
  BY DEF ByteSet, Numbers
<1> n \in Int
  BY DEF Numbers
<1>2. CASE op = "-"
  BY <1>2 DEF Apply
<1>3. CASE op = "+"
  BY <1>3 DEF Apply
<1>4. CASE op = "xor"
  <2>1. Apply(op, n) = [v \in Int |-> Low(v, XorBytes(v % 256, n))]
    BY <1>4 DEF Apply, Low
  <2>2. ASSUME NEW v \in Int PROVE Low(v, XorBytes(v % 256, n)) \in Int
    <3>1. XorBytes(v % 256, n) \in ByteSet
      BY <1>1, LowByte, XorUndone
    <3> QED
      BY <3>1, LowType
  <2> QED
    BY <2>1, <2>2
<1> QED
  BY <1>2, <1>3, <1>4 DEF Ops

LEMMA XorStep ==
    ASSUME NEW n \in ByteSet, NEW b \in ByteSet, NEW v \in Int,
           v % 256 = Low(b, XorBytes(b, n)) % 256
    PROVE  Low(v, XorBytes(v % 256, n)) % 256 = b
<1>1. XorBytes(b, n) \in ByteSet /\ XorBytes(XorBytes(b, n), n) = b
  BY XorUndone
<1>2. b \in Int
  BY DEF ByteSet
<1>3. v % 256 = XorBytes(b, n)
  <2>1. \A x \in ByteSet : Low(b, x) % 256 = x
    BY <1>2, LowType
  <2>2. Low(b, XorBytes(b, n)) % 256 = XorBytes(b, n)
    BY <1>1, <2>1, Zenon
  <2> QED
    BY <2>2, Zenon
<1>4. XorBytes(v % 256, n) = b
  BY <1>1, <1>3
<1> QED
  BY <1>4, LowType

\* The reversed operation gives the byte back, whatever is above the low byte
\* of what it is applied to.
LEMMA OperationUndone ==
    ASSUME NEW op \in Ops, NEW n \in Numbers, NEW b \in ByteSet,
           NEW v \in Int, v % 256 = Apply(op, n)[b] % 256
    PROVE  Apply(reverse_op(op), n)[v] % 256 = b
<1> b \in Int /\ b % 256 = b /\ n \in ByteSet /\ n \in Int
  BY DEF ByteSet, Numbers
<1>1. CASE op = "-"
  <2>1. v % 256 = (b - n) % 256 /\ Apply("+", n)[v] = v + n
    BY <1>1 DEF Apply
  <2>2. (v + n) % 256 = b
    BY <2>1
  <2> QED
    BY <1>1, <2>1, <2>2, Reversed
<1>2. CASE op = "+"
  <2>1. v % 256 = (b + n) % 256 /\ Apply("-", n)[v] = v - n
    BY <1>2 DEF Apply
  <2>2. (v - n) % 256 = b
    BY <2>1
  <2> QED
    BY <1>2, <2>1, <2>2, Reversed
<1>3. CASE op = "xor"
  <2>1. /\ Apply("xor", n)[b] = Low(b, XorBytes(b, n))
        /\ Apply("xor", n)[v] = Low(v, XorBytes(v % 256, n))
    BY DEF Apply, Low
  <2>2. Low(v, XorBytes(v % 256, n)) % 256 = b
    BY <1>3, <2>1, XorStep
  <2> QED
    BY <1>3, <2>1, <2>2, Reversed
<1> QED
  BY <1>1, <1>2, <1>3 DEF Ops

LowOf(v) == v % 256

LEMMA OpaqueUndone ==
    ASSUME NEW op \in Ops, NEW n \in Numbers, NEW b \in ByteSet,
           NEW v \in Int, LowOf(v) = LowOf(Apply(op, n)[b])
    PROVE  LowOf(Apply(reverse_op(op), n)[v]) = b
BY OperationUndone DEF LowOf
----------------------------------------------------------------------------
(* A layer and its decryption function *)

LEMMA AlgorithmType ==
    ASSUME NEW algo \in Algorithms
    PROVE  /\ ALGO_LEN \in Nat /\ ALGO_LEN >= 1 /\ ALGO_LEN <= 15
           /\ algo \in [1..ALGO_LEN -> [op : Ops, num : Numbers]]
           /\ algo \in Seq([op : Ops, num : Numbers]) /\ Len(algo) = ALGO_LEN
<1>1. ALGO_LEN \in Nat /\ ALGO_LEN >= 1 /\ ALGO_LEN <= 15
  BY AlgorithmsAssumption
<1>2. algo \in [1..ALGO_LEN -> [op : Ops, num : Numbers]]
  BY AlgorithmsAssumption, RangeOfOps DEF Numbers
<1>3. algo \in Seq([op : Ops, num : Numbers])
  <2>1. \A S, n : n \in Nat /\ algo \in [1..n -> S] => algo \in Seq(S)
    OBVIOUS
  <2> QED
    BY <1>1, <1>2, <2>1, Zenon
<1>4. Len(algo) = ALGO_LEN
  BY <1>1, <1>2, <1>3
<1> QED
  BY <1>1, <1>2, <1>3, <1>4

\* The reversed algorithm has the reversed operation at the mirrored place.
LEMMA Mirrored ==
    ASSUME NEW algo \in Algorithms
    PROVE  /\ Len(reverse_algo(algo)) = ALGO_LEN
           /\ DOMAIN reverse_algo(algo) = 1..ALGO_LEN
           /\ \A i \in 1..ALGO_LEN :
                 LET mirror == ALGO_LEN + 1 - i
                 IN  /\ mirror \in 1..ALGO_LEN
                     /\ reverse_algo(algo)[i].op = reverse_op(algo[mirror].op)
                     /\ reverse_algo(algo)[i].num = algo[mirror].num
<1> DEFINE turned == [i \in DOMAIN algo |-> [algo[i] EXCEPT !.op = reverse_op(@)]]
<1>1. ALGO_LEN \in Nat /\ algo \in [1..ALGO_LEN -> [op : Ops, num : Numbers]]
  BY AlgorithmType
<1>2. DOMAIN algo = 1..ALGO_LEN
  BY <1>1
<1>3. Len(turned) = ALGO_LEN
  BY <1>1, <1>2
<1>4. \A i \in 1..ALGO_LEN : /\ turned[i].op = reverse_op(algo[i].op)
                              /\ turned[i].num = algo[i].num
  BY <1>1, <1>2
<1>5. reverse_algo(algo) = Reverse(turned)
  BY DEF reverse_algo
<1> HIDE DEF turned
<1>6. Reverse(turned) = [i \in 1..ALGO_LEN |-> turned[(ALGO_LEN - i) + 1]]
  BY <1>3 DEF Reverse
<1>7. Len(Reverse(turned)) = ALGO_LEN
  BY <1>1, <1>6
<1>8. \A i \in 1..ALGO_LEN : ALGO_LEN + 1 - i \in 1..ALGO_LEN /\ (ALGO_LEN - i) + 1 = ALGO_LEN + 1 - i
  BY <1>1
<1>9. DOMAIN Reverse(turned) = 1..ALGO_LEN
  BY <1>6
<1>10. ASSUME NEW i \in 1..ALGO_LEN
       PROVE  /\ ALGO_LEN + 1 - i \in 1..ALGO_LEN
              /\ Reverse(turned)[i].op = reverse_op(algo[ALGO_LEN + 1 - i].op)
              /\ Reverse(turned)[i].num = algo[ALGO_LEN + 1 - i].num
  <2>1. Reverse(turned)[i] = turned[ALGO_LEN + 1 - i]
    BY <1>6, <1>8
  <2> QED
    BY <1>4, <1>8, <2>1
<1> QED
  BY <1>5, <1>7, <1>9, <1>10

EncSteps(algo) ==
    [i \in 1..ALGO_LEN |-> [value \in Int |-> Apply(algo[i].op, algo[i].num)[value] % 256]]
DecSteps(code) == [i \in 1..ALGO_LEN |-> Apply(code[i].op, code[i].num)]

LEMMA StepTypes ==
    ASSUME NEW algo \in Algorithms, NEW i \in 1..ALGO_LEN
    PROVE  /\ Apply(algo[i].op, algo[i].num) \in [Int -> Int]
           /\ Apply(reverse_op(algo[i].op), algo[i].num) \in [Int -> Int]
<1>1. algo[i].op \in Ops /\ algo[i].num \in Numbers
  BY AlgorithmType
<1>2. reverse_op(algo[i].op) \in Ops
  BY <1>1, Reversed DEF Ops
<1> QED
  BY <1>1, <1>2, ApplyType

LEMMA Encrypted ==
    ASSUME NEW algo \in Algorithms, NEW byte \in ByteSet
    PROVE  \E x \in [0..ALGO_LEN -> Int] :
               Steps(x, ALGO_LEN, byte, EncSteps(algo)) /\ EncryptByte(algo, byte) = x[ALGO_LEN]
<1> DEFINE A(i) == Apply(algo[i].op, algo[i].num)
           G == EncSteps(algo)
           F(f) == [i \in 0..ALGO_LEN |-> IF i = 0 THEN byte ELSE A(i)[f[i - 1]] % 256]
           value == CHOOSE f : f = F(f)
<1>1. ALGO_LEN \in Nat /\ byte \in Int
  BY AlgorithmType DEF ByteSet
<1>2. \A i \in 1..ALGO_LEN : A(i) \in [Int -> Int]
  BY StepTypes
<1>3. EncryptByte(algo, byte) = value[ALGO_LEN]
  BY DEF EncryptByte
<1> HIDE DEF A
<1>4. \A z \in Int : z % 256 \in Int
  OBVIOUS
<1>5. G \in [1..ALGO_LEN -> [Int -> Int]] /\ \A i \in 1..ALGO_LEN, z \in Int : G[i][z] = A(i)[z] % 256
  <2>1. G = [i \in 1..ALGO_LEN |-> [z \in Int |-> A(i)[z] % 256]]
    BY DEF EncSteps, A
  <2>2. \A i \in 1..ALGO_LEN : [z \in Int |-> A(i)[z] % 256] \in [Int -> Int]
    BY <1>2, <1>4
  <2> QED
    BY <2>1, <2>2
<1> HIDE DEF G
<1>6. PICK x \in [0..ALGO_LEN -> Int] : Steps(x, ALGO_LEN, byte, G)
  BY <1>1, <1>5, ChainExists
<1>7. x = F(x)
  <2>1. ASSUME NEW i \in 0..ALGO_LEN
        PROVE  x[i] = IF i = 0 THEN byte ELSE A(i)[x[i - 1]] % 256
    <3>1. CASE i = 0
      BY <1>6, <3>1 DEF Steps
    <3>2. CASE i # 0
      <4>1. i \in 1..ALGO_LEN /\ i - 1 \in 0..ALGO_LEN
        BY <1>1, <3>2
      <4>2. x[i - 1] \in Int /\ x[i] = G[i][x[i - 1]]
        BY <1>6, <4>1 DEF Steps
      <4>3. G[i][x[i - 1]] = A(i)[x[i - 1]] % 256
        BY <1>5, <4>1, <4>2
      <4> QED
        BY <3>2, <4>2, <4>3
    <3> QED
      BY <3>1, <3>2
  <2> QED
    BY <2>1
<1>8. value = F(value)
  <2> HIDE DEF F
  <2> QED
    BY <1>7, Zenon
<1> HIDE DEF value
<1>9. \A i \in 0..ALGO_LEN : value[i] = IF i = 0 THEN byte ELSE A(i)[value[i - 1]] % 256
  BY <1>8
<1> DEFINE S == {k \in 0..ALGO_LEN : value[k] \in Int}
<1>10. S = 0..ALGO_LEN
  <2>1. 0 \in S
    BY <1>1, <1>9
  <2>2. ASSUME NEW k \in 1..ALGO_LEN, k - 1 \in S PROVE k \in S
    <3>1. k \in 0..ALGO_LEN /\ k # 0 /\ value[k - 1] \in Int /\ A(k) \in [Int -> Int]
      BY <1>1, <1>2, <2>2
    <3>2. value[k] = A(k)[value[k - 1]] % 256
      BY <1>9, <3>1
    <3>3. A(k)[value[k - 1]] \in Int
      BY <3>1
    <3>4. value[k] \in Int
      BY <1>4, <3>2, <3>3
    <3> QED
      BY <3>1, <3>4
  <2>3. S \subseteq 0..ALGO_LEN
    OBVIOUS
  <2> HIDE DEF S
  <2> QED
    BY <1>1, <2>1, <2>2, <2>3, Up
<1>11. \A k \in 0..ALGO_LEN : value[k] \in Int
  BY <1>10
<1>12. value \in [0..ALGO_LEN -> Int]
  BY <1>8, <1>11
<1>13. Steps(value, ALGO_LEN, byte, G)
  <2>1. value[0] = byte
    BY <1>1, <1>9
  <2>2. ASSUME NEW i \in 1..ALGO_LEN PROVE value[i] = G[i][value[i - 1]]
    <3>1. i \in 0..ALGO_LEN /\ i # 0 /\ i - 1 \in 0..ALGO_LEN
      BY <1>1
    <3>2. value[i - 1] \in Int /\ value[i] = A(i)[value[i - 1]] % 256
      BY <1>9, <1>11, <3>1
    <3>3. G[i][value[i - 1]] = A(i)[value[i - 1]] % 256
      BY <1>5, <3>2
    <3> QED
      BY <3>2, <3>3
  <2> QED
    BY <2>1, <2>2 DEF Steps
<1> QED
  BY <1>3, <1>12, <1>13 DEF G

LEMMA Decrypted ==
    ASSUME NEW code, DecSteps(code) \in [1..ALGO_LEN -> [Int -> Int]],
           ALGO_LEN \in Nat, NEW byte \in ByteSet
    PROVE  \E x \in [0..ALGO_LEN -> Int] :
               Steps(x, ALGO_LEN, byte, DecSteps(code)) /\ DecryptByte(code, byte) = x[ALGO_LEN] % 256
<1> DEFINE A(i) == Apply(code[i].op, code[i].num)
           G == DecSteps(code)
           F(f) == [i \in 0..ALGO_LEN |-> IF i = 0 THEN byte ELSE A(i)[f[i - 1]]]
           value == CHOOSE f : f = F(f)
<1>1. ALGO_LEN \in Nat /\ byte \in Int
  BY DEF ByteSet
<1>2. \A i \in 1..ALGO_LEN : A(i) \in [Int -> Int]
  BY DEF DecSteps
<1>3. DecryptByte(code, byte) = value[ALGO_LEN] % 256
  BY DEF DecryptByte
<1> HIDE DEF A
<1>4. G \in [1..ALGO_LEN -> [Int -> Int]]
  OBVIOUS
<1>5. \A i \in 1..ALGO_LEN, z \in Int : G[i][z] = A(i)[z]
  BY DEF DecSteps, A
<1> HIDE DEF G
<1>6. PICK x \in [0..ALGO_LEN -> Int] : Steps(x, ALGO_LEN, byte, G)
  BY <1>1, <1>4, ChainExists
<1>7. x = F(x)
  <2>1. ASSUME NEW i \in 0..ALGO_LEN
        PROVE  x[i] = IF i = 0 THEN byte ELSE A(i)[x[i - 1]]
    <3>1. CASE i = 0
      BY <1>6, <3>1 DEF Steps
    <3>2. CASE i # 0
      <4>1. i \in 1..ALGO_LEN /\ i - 1 \in 0..ALGO_LEN
        BY <1>1, <3>2
      <4>2. x[i - 1] \in Int /\ x[i] = G[i][x[i - 1]]
        BY <1>6, <4>1 DEF Steps
      <4>3. G[i][x[i - 1]] = A(i)[x[i - 1]]
        BY <1>5, <4>1, <4>2
      <4> QED
        BY <3>2, <4>2, <4>3
    <3> QED
      BY <3>1, <3>2
  <2> QED
    BY <2>1
<1>8. value = F(value)
  <2> HIDE DEF F
  <2> QED
    BY <1>7, Zenon
<1> HIDE DEF value
<1>9. \A i \in 0..ALGO_LEN : value[i] = IF i = 0 THEN byte ELSE A(i)[value[i - 1]]
  BY <1>8
<1> DEFINE S == {k \in 0..ALGO_LEN : value[k] \in Int}
<1>10. S = 0..ALGO_LEN
  <2>1. 0 \in S
    BY <1>1, <1>9
  <2>2. ASSUME NEW k \in 1..ALGO_LEN, k - 1 \in S PROVE k \in S
    <3>1. k \in 0..ALGO_LEN /\ k # 0 /\ value[k - 1] \in Int /\ A(k) \in [Int -> Int]
      BY <1>1, <1>2, <2>2
    <3>2. value[k] = A(k)[value[k - 1]]
      BY <1>9, <3>1
    <3>3. value[k] \in Int
      BY <3>1, <3>2
    <3> QED
      BY <3>1, <3>3
  <2>3. S \subseteq 0..ALGO_LEN
    OBVIOUS
  <2> HIDE DEF S
  <2> QED
    BY <1>1, <2>1, <2>2, <2>3, Up
<1>11. \A k \in 0..ALGO_LEN : value[k] \in Int
  BY <1>10
<1>12. value \in [0..ALGO_LEN -> Int]
  BY <1>8, <1>11
<1>13. Steps(value, ALGO_LEN, byte, G)
  <2>1. value[0] = byte
    BY <1>1, <1>9
  <2>2. ASSUME NEW i \in 1..ALGO_LEN PROVE value[i] = G[i][value[i - 1]]
    <3>1. i \in 0..ALGO_LEN /\ i # 0 /\ i - 1 \in 0..ALGO_LEN
      BY <1>1
    <3>2. value[i - 1] \in Int /\ value[i] = A(i)[value[i - 1]]
      BY <1>9, <1>11, <3>1
    <3>3. G[i][value[i - 1]] = A(i)[value[i - 1]]
      BY <1>5, <3>2
    <3> QED
      BY <3>2, <3>3
  <2> QED
    BY <2>1, <2>2 DEF Steps
<1> QED
  BY <1>3, <1>12, <1>13 DEF G

\* The steps of the reversed algorithm undo those of the algorithm, last first.
LEMMA LayerUndone ==
    ASSUME NEW algo \in Algorithms, NEW b \in ByteSet
    PROVE  DecryptByte(reverse_algo(algo), EncryptByte(algo, b)) = b
<1> DEFINE N == ALGO_LEN
           code == reverse_algo(algo)
           A(i) == Apply(algo[i].op, algo[i].num)
           R(i) == Apply(reverse_op(algo[i].op), algo[i].num)
<1>1. /\ N \in Nat /\ \A i \in 1..N : algo[i].op \in Ops /\ algo[i].num \in Numbers
  BY AlgorithmType
<1>2. \A i \in 1..N : A(i) \in [Int -> Int] /\ R(i) \in [Int -> Int]
  BY StepTypes
<1>3. PICK x \in [0..N -> Int] : Steps(x, N, b, EncSteps(algo)) /\ EncryptByte(algo, b) = x[N]
  BY Encrypted
<1>4. x[0] = b
  BY <1>3 DEF Steps
<1>5. ASSUME NEW i \in 1..N PROVE x[i] = A(i)[x[i - 1]] % 256
  <2>1. x[i] = EncSteps(algo)[i][x[i - 1]] /\ x[i - 1] \in Int
    BY <1>1, <1>3 DEF Steps
  <2> QED
    BY <2>1 DEF EncSteps
<1>6. ASSUME NEW i \in 0..N PROVE x[i] \in ByteSet
  <2>1. CASE i = 0
    BY <1>4, <2>1
  <2>2. CASE i # 0
    <3>1. i \in 1..N /\ x[i - 1] \in Int
      BY <1>1, <2>2
    <3>2. A(i)[x[i - 1]] \in Int
      BY <1>2, <3>1
    <3> QED
      BY <1>5, <3>1, <3>2, LowByte
  <2> QED
    BY <2>1, <2>2
<1>7. \A i \in 1..N : N + 1 - i \in 1..N /\ DecSteps(code)[i] = R(N + 1 - i)
  BY Mirrored DEF DecSteps
<1>8. DecSteps(code) \in [1..N -> [Int -> Int]]
  <2>1. DecSteps(code) = [i \in 1..N |-> DecSteps(code)[i]]
    BY DEF DecSteps
  <2>2. ASSUME NEW i \in 1..N PROVE DecSteps(code)[i] \in [Int -> Int]
    <3> HIDE DEF A, R, code
    <3> QED
      BY <1>2, <1>7
  <2> QED
    BY <2>1, <2>2
<1>9. x[N] \in ByteSet
  BY <1>1, <1>6
<1>10. PICK y \in [0..N -> Int] :
           Steps(y, N, x[N], DecSteps(code)) /\ DecryptByte(code, x[N]) = y[N] % 256
  BY <1>1, <1>8, <1>9, Decrypted
<1> DEFINE S == {j \in 0..N : y[j] % 256 = x[N - j]}
<1>11. 0 \in S
  <2>1. y[0] = x[N] /\ N - 0 = N
    BY <1>1, <1>10 DEF Steps
  <2>2. \A z \in ByteSet : z % 256 = z
    BY DEF ByteSet
  <2>3. y[0] % 256 = x[N]
    BY <1>9, <2>1, <2>2
  <2> QED
    BY <1>1, <2>1, <2>3
<1>12. ASSUME NEW j \in 1..N, j - 1 \in S PROVE j \in S
  <2> DEFINE m == N + 1 - j
  <2>1. m \in 1..N /\ m - 1 \in 0..N /\ N - (j - 1) = m /\ N - j = m - 1 /\ j - 1 \in 0..N /\ j \in 0..N
    BY <1>1
  <2>2. y[j] = R(m)[y[j - 1]] /\ y[j - 1] \in Int
    BY <1>7, <1>10, <2>1 DEF Steps
  <2>3. y[j - 1] % 256 = x[m]
    BY <1>12, <2>1
  <2>4. x[m] = A(m)[x[m - 1]] % 256
    BY <1>5, <2>1
  <2>5. R(m)[y[j - 1]] % 256 = x[m - 1]
    <3>1. algo[m].op \in Ops /\ algo[m].num \in Numbers /\ x[m - 1] \in ByteSet
      BY <1>1, <1>6, <2>1
    <3>2. y[j - 1] \in Int /\ y[j - 1] % 256 = A(m)[x[m - 1]] % 256
      BY <2>2, <2>3, <2>4
    <3> QED
      <4> DEFINE op == algo[m].op
                 n == algo[m].num
                 z == x[m - 1]
                 v == y[j - 1]
      <4>1. op \in Ops /\ n \in Numbers /\ z \in ByteSet /\ v \in Int
        BY <3>1, <3>2
      <4>2. LowOf(v) = LowOf(Apply(op, n)[z])
        BY <3>2 DEF LowOf
      <4> HIDE DEF op, n, z, v
      <4>3. LowOf(Apply(reverse_op(op), n)[v]) = z
        BY <4>1, <4>2, OpaqueUndone
      <4> QED
        BY <4>3 DEF op, n, z, v, LowOf
  <2> HIDE DEF m
  <2> QED
    BY <2>1, <2>2, <2>5
<1>13. N \in S
  <2>1. S \subseteq 0..N
    OBVIOUS
  <2> HIDE DEF S
  <2>2. S = 0..N
    BY <1>1, <1>11, <1>12, <2>1, Up
  <2> QED
    BY <1>1, <2>2
<1>14. y[N] % 256 = x[0]
  BY <1>1, <1>13
<1> QED
  BY <1>3, <1>4, <1>10, <1>14
----------------------------------------------------------------------------
(* The length of the code *)

LEMMA LengthBound ==
    ASSUME NEW algo \in Algorithms
    PROVE  /\ Length(reverse_algo(algo)) \in Nat
           /\ Length(reverse_algo(algo)) <= 33 + 5 * ALGO_LEN
<1> DEFINE code == reverse_algo(algo)
<1>1. ALGO_LEN \in Nat
  BY AlgorithmType
<1>2. Len(code) = ALGO_LEN /\ DOMAIN code = 1..ALGO_LEN
  BY Mirrored
<1>3. Wide(code) \subseteq 1..ALGO_LEN
  BY <1>2 DEF Wide
<1>4. IsFiniteSet(1..ALGO_LEN) /\ Cardinality(1..ALGO_LEN) = ALGO_LEN
  BY <1>1, FS_Interval
<1>5. Cardinality(Wide(code)) \in Nat /\ Cardinality(Wide(code)) <= ALGO_LEN
  BY <1>1, <1>3, <1>4, FS_Subset, FS_CardinalityType
<1> HIDE DEF code
<1>6. Length(code) \in Nat /\ Length(code) <= 33 + 5 * ALGO_LEN
  BY <1>1, <1>2, <1>5 DEF Length
<1> QED
  BY <1>6 DEF code
----------------------------------------------------------------------------
(* What nested_dump finds *)

LEMMA Inside ==
    ASSUME NEW x \in Nat, x < WordMod
    PROVE  x % WordMod = x
BY WordAssumption

LEMMA Below ==
    ASSUME NEW k \in Nat, k > 0, k < WordMod
    PROVE  (0 - k) % WordMod = WordMod - k
BY WordAssumption

LEMMA Around ==
    ASSUME NEW x \in Nat, x < WordMod
    PROVE  (x + WordMod) % WordMod = x
BY WordAssumption

\* The code at start begins this far behind the start of the section.
Start(algo) == Length(reverse_algo(algo)) + ImportSize

LEMMA StartBound ==
    ASSUME NEW algo \in Algorithms
    PROVE  Start(algo) \in Nat /\ Start(algo) > 0 /\ Start(algo) < 1000
BY LengthBound, AlgorithmType DEF Start, ImportSize

LEMMA SectionFields ==
    /\ DOMAIN Sections = {1, 2}
    /\ Sections[1].VirtualAddress = 4096 /\ Sections[1].PointerToRawData = 512
    /\ Sections[2].VirtualAddress = 8192 /\ Sections[2].PointerToRawData = 1024
BY DEF Sections

\* The entry is found behind the function and the imports.
LEMMA EntryFound ==
    ASSUME NEW algo \in Algorithms, NEW e, e.entry = 4096 + Start(algo)
    PROVE  pEntry(e) = 512 + Start(algo)
<1> DEFINE far(k) == (e.entry - Sections[k].VirtualAddress) % WordMod
<1>1. Start(algo) \in Nat /\ Start(algo) > 0 /\ Start(algo) < 1000
  BY StartBound
<1>2. far(1) = Start(algo)
  <2>1. e.entry - Sections[1].VirtualAddress = Start(algo)
    BY <1>1, SectionFields
  <2> QED
    BY <1>1, <2>1, Inside, WordAssumption
<1>3. far(2) \in Int /\ far(2) > Start(algo)
  <2>1. PICK k \in Nat : k = 4096 - Start(algo)
    BY <1>1
  <2>2. e.entry - Sections[2].VirtualAddress = 0 - k
    BY <1>1, <2>1, SectionFields
  <2>3. (0 - k) % WordMod = WordMod - k
    BY <1>1, <2>1, Below, WordAssumption
  <2>4. far(2) = WordMod - k
    BY <2>2, <2>3
  <2> QED
    BY <1>1, <2>1, <2>4, WordAssumption
<1> HIDE DEF far
<1> DEFINE c == CHOOSE k \in DOMAIN Sections : \A m \in DOMAIN Sections : far(k) <= far(m)
<1>4. c = 1
  <2>1. \A k \in DOMAIN Sections : (\A m \in DOMAIN Sections : far(k) <= far(m)) <=> k = 1
    BY <1>1, <1>2, <1>3, SectionFields
  <2> QED
    BY <2>1, SectionFields
<1> DEFINE found(k) == IF far(k) < 65536 THEN Sections[k].PointerToRawData + far(k) ELSE 0
<1>5. pEntry(e) = found(c)
  BY DEF pEntry, far
<1>6. pEntry(e) = found(1)
  <2> HIDE DEF found, c
  <2> QED
    BY <1>4, <1>5
<1> QED
  BY <1>1, <1>2, <1>6, SectionFields

LEMMA CodeOfLayer == \A algo, level : Fasm(algo, level).code = reverse_algo(algo)
BY DEF Fasm

\* What the assembler wrote is what is read at the places nested_dump reads.
LEMMA WordsFound ==
    ASSUME NEW algo \in Algorithms, NEW level, NEW e, e = Fasm(algo, level)
    PROVE  /\ e.code = reverse_algo(algo)
           /\ e.entry = 4096 + Start(algo)
           /\ e.data = [i \in DOMAIN Image[level - 1] |-> EncryptByte(algo, Image[level - 1][i])]
           /\ ReadWord(e, pEntry(e) + 16) = Len(Image[level - 1])
           /\ ReadWord(e, pEntry(e) + 21) = ImageBase + 8212
           /\ ReadWord(e, pEntry(e) + 26) = (0 - (Start(algo) + 30)) % WordMod
<1> DEFINE start == Start(algo)
           raw == 512 + start
           file == Image[level - 1]
           words == [o \in {raw + 16, raw + 21, raw + 26} |->
                        CASE o = raw + 16 -> Len(file)
                          [] o = raw + 21 -> ImageBase + 8212
                          [] OTHER -> (0 - (start + 30)) % WordMod]
<1>1. start \in Nat
  BY StartBound
<1>2. ImageBase + Sections[2].VirtualAddress + StringSize = ImageBase + 8212
  BY SectionFields DEF ImageBase, StringSize
<1>3. e = [code |-> reverse_algo(algo), entry |-> 4096 + start, words |-> words,
           data |-> [i \in DOMAIN file |-> EncryptByte(algo, file[i])]]
  BY <1>2, SectionFields DEF Fasm, Start
<1> HIDE DEF words
<1>4. /\ e.code = reverse_algo(algo) /\ e.entry = 4096 + start /\ e.words = words
      /\ e.data = [i \in DOMAIN file |-> EncryptByte(algo, file[i])]
  BY <1>3
<1> HIDE DEF start, file
<1>5. raw \in Nat /\ raw + 16 # raw + 21 /\ raw + 16 # raw + 26 /\ raw + 21 # raw + 26
  BY <1>1
<1> HIDE DEF raw
<1>6. /\ words[raw + 16] = Len(file) /\ words[raw + 21] = ImageBase + 8212
      /\ words[raw + 26] = (0 - (start + 30)) % WordMod
      /\ DOMAIN words = {raw + 16, raw + 21, raw + 26}
  BY <1>5 DEF words
<1>7. pEntry(e) = raw
  BY <1>4, EntryFound DEF raw, start
<1>8. /\ ReadWord(e, raw + 16) = Len(file) /\ ReadWord(e, raw + 21) = ImageBase + 8212
      /\ ReadWord(e, raw + 26) = (0 - (start + 30)) % WordMod
  <2>1. \A o : ReadWord(e, o) = IF o \in DOMAIN words THEN words[o] ELSE 0
    BY <1>4 DEF ReadWord
  <2>2. raw + 16 \in DOMAIN words /\ raw + 21 \in DOMAIN words /\ raw + 26 \in DOMAIN words
    BY <1>6
  <2> QED
    BY <1>6, <2>1, <2>2
<1> QED
  BY <1>4, <1>7, <1>8 DEF start, file

LEMMA DataFound == pClosest(ImageBase + 8212) = 2
<1> DEFINE uiPtr == ImageBase + 8212
           far(k) == (uiPtr - ImageBase - Sections[k].VirtualAddress) % WordMod
           c == CHOOSE k \in DOMAIN Sections : \A m \in DOMAIN Sections : far(k) <= far(m)
<1>1. far(1) = 4116
  <2>1. uiPtr - ImageBase - Sections[1].VirtualAddress = 4116
    BY SectionFields DEF ImageBase
  <2> QED
    BY <2>1, Inside, WordAssumption
<1>2. far(2) = 20
  <2>1. uiPtr - ImageBase - Sections[2].VirtualAddress = 20
    BY SectionFields DEF ImageBase
  <2> QED
    BY <2>1, Inside, WordAssumption
<1>3. pClosest(uiPtr) = c
  BY DEF pClosest
<1> HIDE DEF far
<1>4. c = 2
  <2>1. \A k \in DOMAIN Sections : (\A m \in DOMAIN Sections : far(k) <= far(m)) <=> k = 2
    BY <1>1, <1>2, SectionFields
  <2> QED
    BY <2>1, SectionFields
<1> HIDE DEF c
<1> QED
  BY <1>3, <1>4

\* The call's distance leads back to the start of the section, where the
\* function is.
LEMMA FunctionFound ==
    ASSUME NEW start \in Nat, start > 0, start < 1000
    PROVE  (512 + start + 30 + ((0 - (start + 30)) % WordMod)) % WordMod = 512
<1>1. PICK k \in Nat : k = start + 30
  OBVIOUS
<1>2. PICK back : back = (0 - k) % WordMod
  OBVIOUS
<1>3. back = WordMod - k
  <2>1. k > 0 /\ k < WordMod
    BY <1>1, WordAssumption
  <2>2. (0 - k) % WordMod = WordMod - k
    BY <2>1, Below
  <2> QED
    BY <1>2, <2>2
<1>4. 512 + start + 30 + back = 512 + WordMod
  BY <1>1, <1>3, WordAssumption
<1>5. (512 + WordMod) % WordMod = 512
  BY Around, WordAssumption
<1>6. (512 + start + 30 + back) % WordMod = 512
  BY <1>4, <1>5
<1> QED
  BY <1>1, <1>2, <1>6
----------------------------------------------------------------------------
(* One layer off *)

LEMMA LevelType ==
    /\ Top \in Nat
    /\ \A l \in 1..Top : l - 1 \in 0..Top /\ Image[l - 1] \in Seq(ByteSet)
BY FilesAssumption DEF Top, ByteSet

\* Decrypting the contained file with the code beside it gives the file back.
LEMMA FileBack ==
    ASSUME NEW algo \in Algorithms, NEW file \in Seq(ByteSet),
           NEW data, data = [i \in DOMAIN file |-> EncryptByte(algo, file[i])]
    PROVE  [i \in 1..Len(file) |-> DecryptByte(reverse_algo(algo), data[i])] = file
<1>1. DOMAIN file = 1..Len(file) /\ file \in [1..Len(file) -> ByteSet]
  BY LenProperties
<1>2. ASSUME NEW i \in 1..Len(file)
      PROVE  DecryptByte(reverse_algo(algo), data[i]) = file[i]
  <2>1. data[i] = EncryptByte(algo, file[i]) /\ file[i] \in ByteSet
    BY <1>1
  <2> QED
    BY <2>1, LayerUndone
<1> QED
  BY <1>1, <1>2

LEMMA LayerOff ==
    ASSUME NEW algo \in Algorithms, current \in 1..Top, exe[current] = Fasm(algo, current), Dump
    PROVE  out' = Image[current - 1] /\ current' = current - 1
<1> DEFINE e == exe[current]
           file == Image[current - 1]
           uiNextFileSize == ReadWord(e, pEntry(e) + 16)
           uiPtr == ReadWord(e, pEntry(e) + 21)
           uiRelDecrypt == ReadWord(e, pEntry(e) + 26)
           section == Sections[pClosest(uiPtr)]
           pOutFile == section.PointerToRawData
                           + ((uiPtr - ImageBase - section.VirtualAddress) % WordMod)
           place == (pEntry(e) + 30 + uiRelDecrypt) % WordMod
<1>1. /\ out' = IF FunctionAt(e, place) /\ DataAt(pOutFile)
                 THEN [i \in 1..uiNextFileSize |-> DecryptByte(e.code, e.data[i])] ELSE <<>>
      /\ current' = IF \E l \in 0..Top : Image[l] = out'
                     THEN CHOOSE l \in 0..Top : Image[l] = out' ELSE -1
  BY DEF Dump
<1>2. /\ e.code = reverse_algo(algo)
      /\ e.entry = 4096 + Start(algo)
      /\ e.data = [i \in DOMAIN file |-> EncryptByte(algo, file[i])]
      /\ uiNextFileSize = Len(file)
      /\ uiPtr = ImageBase + 8212
      /\ uiRelDecrypt = (0 - (Start(algo) + 30)) % WordMod
  BY WordsFound
<1>3. pEntry(e) = 512 + Start(algo)
  BY <1>2, EntryFound
<1>4. DataAt(pOutFile)
  <2>1. section = Sections[2]
    BY <1>2, DataFound
  <2>2. uiPtr - ImageBase - section.VirtualAddress = 20
    BY <1>2, <2>1, SectionFields DEF ImageBase
  <2>3. 20 % WordMod = 20
    BY Inside, WordAssumption
  <2>4. pOutFile = 1024 + 20
    BY <2>1, <2>2, <2>3, SectionFields
  <2> HIDE DEF pOutFile
  <2> QED
    BY <2>4, SectionFields DEF DataAt, StringSize
<1>5. FunctionAt(e, place)
  <2>1. Start(algo) \in Nat /\ Start(algo) > 0 /\ Start(algo) < 1000
    BY StartBound
  <2>2. place = 512
    BY <1>2, <1>3, <2>1, FunctionFound
  <2>3. Length(e.code) <= CopySize
    BY <1>2, LengthBound, AlgorithmType DEF CopySize
  <2> HIDE DEF place
  <2> QED
    BY <2>2, <2>3, SectionFields DEF FunctionAt
<1>6. out' = [i \in 1..Len(file) |-> DecryptByte(reverse_algo(algo), e.data[i])]
  BY <1>1, <1>2, <1>4, <1>5
<1>7. file \in Seq(ByteSet) /\ current - 1 \in 0..Top
  BY LevelType
<1>8. out' = file
  <2> DEFINE data == e.data
  <2>1. data = [i \in DOMAIN file |-> EncryptByte(algo, file[i])]
    BY <1>2
  <2> HIDE DEF data, file
  <2>2. [i \in 1..Len(file) |-> DecryptByte(reverse_algo(algo), data[i])] = file
    BY <1>7, <2>1, FileBack
  <2> QED
    BY <1>6, <2>2 DEF data
<1>9. \A l \in 0..Top : Image[l] = file <=> l = current - 1
  BY <1>7, FilesAssumption
<1>10. current' = current - 1
  BY <1>1, <1>7, <1>8, <1>9
<1> QED
  BY <1>8, <1>10
----------------------------------------------------------------------------
(* The inductive invariant *)

Layers == {Fasm(algo, level) : algo \in Algorithms, level \in 1..Top}

\* Every layer was made by one algorithm, whichever it was, from the file of
\* the level below, and the layers come off only once the batch is complete.
NestedInv ==
    /\ enc \in Algorithms
    /\ exe \in Seq(Layers) /\ Len(exe) <= Top
    /\ \A l \in 1..Len(exe) : \E algo \in Algorithms : exe[l] = Fasm(algo, l)
    /\ current \in -1..Top
    /\ current # -1 => Len(exe) = Top

LEMMA InvInit == Init => NestedInv
<1> SUFFICES ASSUME Init PROVE NestedInv
  OBVIOUS
<1>1. <<>> \in Seq(Layers) /\ Len(<<>>) = 0
  OBVIOUS
<1> QED
  BY <1>1, LevelType DEF Init, NestedInv

LEMMA InvNext == NestedInv /\ [Next]_vars => NestedInv'
<1> SUFFICES ASSUME NestedInv, [Next]_vars PROVE NestedInv'
  OBVIOUS
<1> USE DEF NestedInv
<1> Top \in Nat
  BY LevelType
<1>1. CASE Assemble
  <2> DEFINE n == Len(exe)
             layer == Fasm(enc, n + 1)
  <2>1. n \in Nat /\ n < Top /\ n + 1 \in 1..Top
    BY <1>1, LenProperties DEF Assemble
  <2>2. layer \in Layers
    BY <2>1 DEF Layers
  <2>3. exe' = Append(exe, layer)
    BY <1>1 DEF Assemble
  <2> HIDE DEF layer
  <2>4. exe' \in Seq(Layers) /\ Len(exe') = n + 1
    BY <2>2, <2>3, AppendProperties
  <2>5. ASSUME NEW l \in 1..(n + 1) PROVE \E algo \in Algorithms : exe'[l] = Fasm(algo, l)
    <3>1. CASE l = n + 1
      BY <2>2, <2>3, <3>1, AppendProperties DEF layer
    <3>2. CASE l # n + 1
      <4>1. l \in 1..n /\ exe'[l] = exe[l]
        BY <2>1, <2>2, <2>3, <3>2, AppendProperties
      <4> QED
        BY <4>1
    <3> QED
      BY <3>1, <3>2
  <2>6. current = -1
    BY <2>1
  <2>7. enc' = enc /\ current' = current
    BY <1>1 DEF Assemble
  <2> QED
    BY <2>1, <2>4, <2>5, <2>6, <2>7
<1>2. CASE Polygen
  BY <1>2 DEF Polygen
<1>3. CASE Publish
  BY <1>3 DEF Publish
<1>4. CASE Dump
  <2>1. current \in 1..Top /\ Len(exe) = Top
    BY <1>4 DEF Dump
  <2>2. PICK algo \in Algorithms : exe[current] = Fasm(algo, current)
    BY <2>1
  <2>3. current' = current - 1
    BY <1>4, <2>1, <2>2, LayerOff
  <2>4. UNCHANGED <<enc, exe>>
    BY <1>4 DEF Dump
  <2> QED
    BY <2>1, <2>3, <2>4
<1>5. CASE Solved
  BY <1>5 DEF Solved, vars
<1>6. CASE UNCHANGED vars
  BY <1>6 DEF vars
<1> QED
  BY <1>1, <1>2, <1>3, <1>4, <1>5, <1>6 DEF Next

\* The state of the batch and of the solver stays one that they can be in: the
\* layers are all made by algorithms that polygen can draw.
THEOREM BatchIsOrdered == Spec => []NestedInv
<1> QED
  BY InvInit, InvNext, PTL DEF Spec

\* No function that polygen can generate is longer than the solver's copy,
\* whatever the algorithms: FunctionIsCopiedWhole of output_nest.py's layers
\* and nested_dump's 0x70 bytes.
THEOREM FunctionCopiedWhole == Spec => []FunctionIsCopiedWhole
<1>1. NestedInv => FunctionIsCopiedWhole
  <2> SUFFICES ASSUME NestedInv, NEW l \in DOMAIN exe PROVE Length(exe[l].code) <= CopySize
    BY DEF FunctionIsCopiedWhole
  <2>1. l \in 1..Len(exe)
    BY LenProperties DEF NestedInv
  <2>2. PICK algo \in Algorithms : exe[l] = Fasm(algo, l)
    BY <2>1 DEF NestedInv
  <2>3. exe[l].code = reverse_algo(algo)
    BY <2>2, CodeOfLayer
  <2> QED
    BY <2>3, LengthBound, AlgorithmType DEF CopySize
<1> QED
  BY <1>1, BatchIsOrdered, PTL

\* A dump takes off exactly one layer, for every algorithm, every file and any
\* number of layers: what polygen generated undoes what the macro beside it did,
\* and nested_dump finds the file, its size and the function.
THEOREM DumpTakesOneLayerOff == Spec => OneLayerOff
<1>1. NestedInv /\ [Next]_vars =>
          [current > 0 => current' = current - 1 /\ out' = Image[current - 1]]_vars
  <2> SUFFICES ASSUME NestedInv, Next, current > 0
               PROVE  (current' = current - 1 /\ out' = Image[current - 1]) \/ UNCHANGED vars
    OBVIOUS
  <2>1. current \in 1..Top /\ Len(exe) = Top /\ current # -1
    BY LevelType DEF NestedInv
  <2>2. CASE Dump
    <3>1. PICK algo \in Algorithms : exe[current] = Fasm(algo, current)
      BY <2>1 DEF NestedInv
    <3> QED
      BY <2>1, <2>2, <3>1, LayerOff
  <2>3. CASE Assemble
    BY <2>1, <2>3, LevelType DEF Assemble
  <2>4. CASE Polygen
    BY <2>1, <2>4 DEF Polygen
  <2>5. CASE Publish
    BY <2>1, <2>5 DEF Publish
  <2>6. CASE Solved
    BY <2>6 DEF Solved
  <2> QED
    BY <2>2, <2>3, <2>4, <2>5, <2>6 DEF Next
<1> QED
  BY <1>1, BatchIsOrdered, PTL DEF Spec, OneLayerOff
=============================================================================
