-------------------------------- MODULE MCNested --------------------------------
(***************************************************************************)
(* Algorithms of the real length: the one of the enc.inc in the            *)
(* repository, the longest code there is, carries and borrows that pile    *)
(* up, and a mix of them; files with the extreme bytes.                    *)
(***************************************************************************)
EXTENDS Nested

Reference == INSTANCE Bitwise

\* XorBytes agrees with the bitwise operators of the community modules.
ASSUME XorAgrees == \A a, b \in 0..255 : XorBytes(a, b) = Reference!^^(a, b)

S(op, num) == [op |-> op, num |-> num]

EncInc == <<S("xor", 96), S("-", 107), S("xor", 193), S("+", 46), S("+", 253), S("+", 36),
            S("xor", 83), S("+", 45), S("xor", 105), S("-", 200), S("xor", 69), S("+", 184),
            S("+", 24), S("+", 158), S("xor", 171)>>
AllXor == [i \in 1..15 |-> S("xor", 128 + i)]
AllMinus == [i \in 1..15 |-> S("-", 255 - i)]
Mixed == [i \in 1..15 |-> CASE i % 3 = 0 -> S("xor", 127) [] i % 3 = 1 -> S("+", 128)
                            [] i % 3 = 2 -> S("-", i)]

MCAlgorithms == {EncInc, AllXor, AllMinus, Mixed}
MCImage == [l \in 0..4 |-> CASE l = 0 -> <<0, 255, 128>> [] l = 1 -> <<77, 90, 127, 1>>
                             [] l = 2 -> <<77, 90>> [] l = 3 -> <<255, 254, 0>> [] l = 4 -> <<1, 64>>]
=============================================================================
