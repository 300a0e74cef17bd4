--------------------------------- MODULE Nested ---------------------------------
(***************************************************************************)
(* The nested binaries: a batch (output_nest.py) assembles executables     *)
(* that each hold the one before, encrypted with the algorithm that        *)
(* enc.inc has at that moment, and polygen.py writes a new enc.inc between *)
(* them.  nested_dump takes the layers off again: it finds the contained   *)
(* file and the decryption function in an executable, runs a copy of the   *)
(* function on the file and writes the file out.                           *)
(*                                                                         *)
(* Level 0 is flag.exe, level 1 nested.exe, level k + 2 zzTest<k>.exe.     *)
(***************************************************************************)
EXTENDS Integers, FiniteSets, SequencesExt

CONSTANTS MAX_FILE,    \* how many zzTest files the batch makes
          ALGO_LEN,
          Algorithms,  \* what polygen may draw: sequences of [op, num]
          Image,       \* the bytes of the file of each level, a few of them
          WordMod      \* 2^32 in the code

Top == MAX_FILE + 1
ops == <<"-", "xor", "+">>

ASSUME AlgorithmsAssumption ==
    /\ ALGO_LEN \in 1..15     \* 15 in the code; the solver's copy holds no more
    /\ Algorithms \subseteq [1..ALGO_LEN -> [op : Range(ops), num : 1..254]]
ASSUME FilesAssumption ==
    /\ MAX_FILE \in Nat
    /\ Image \in [0..Top -> Seq(0..255)]
    /\ \A l, m \in 0..Top : Image[l] = Image[m] => l = m
ASSUME WordAssumption == WordMod \in Nat /\ WordMod > 8388608

VARIABLES enc,     \* enc.inc
          fresh,   \* whether the batch has run polygen since the last fasm
          exe,     \* the executables made, level 1 first
          current, \* the level of the file nested_dump is run on, -1 if none
          out      \* the file it has written

vars == <<enc, fresh, exe, current, out>>
----------------------------------------------------------------------------
(* polygen.py *)

OP_CNT == 3
mid_index == OP_CNT \div 2
reverse_op(op) ==
    LET index == (CHOOSE i \in 1..OP_CNT : ops[i] = op) - 1
    IN  ops[mid_index - index + mid_index + 1]

\* Mutant: only the order of the operations is turned around.
reverse_algoOrderOnly(algo) == Reverse(algo)

\* The opposite operations with their numbers, last first.
reverse_algo(algo) == Reverse([i \in DOMAIN algo |-> [algo[i] EXCEPT !.op = reverse_op(@)]])

\* The exclusive or of two bytes, bit by bit.
XorBytes(a, b) ==
    LET bit(w) == w * (((a \div w) + (b \div w)) % 2)
    IN  bit(1) + bit(2) + bit(4) + bit(8) + bit(16) + bit(32) + bit(64) + bit(128)

\* One operation on a number whose low byte is the byte: eax has 32 bits, of
\* which xor with a byte changes the low ones.
Apply(op, n) ==
    [value \in Int |->
        CASE op = "-" -> value - n
          [] op = "+" -> value + n
          [] op = "xor" -> (value - (value % 256)) + XorBytes(value % 256, n)]

\* The macro algo_enc: the byte is cut after each operation.
EncryptByte(algo, byte) ==
    LET value[i \in 0..ALGO_LEN] ==
            IF i = 0 THEN byte ELSE Apply(algo[i].op, algo[i].num)[value[i - 1]] % 256
    IN  value[ALGO_LEN]

\* The code of drop_enc_code: only al is stored.
DecryptByte(code, byte) ==
    LET eax[i \in 0..ALGO_LEN] ==
            IF i = 0 THEN byte ELSE Apply(code[i].op, code[i].num)[eax[i - 1]]
    IN  eax[ALGO_LEN] % 256

\* The bytes of that code: an operand up to 127 takes one byte, else four.
Wide(code) == {i \in DOMAIN code : code[i].num >= 128}

\* Mutant: the loop in random order of gen_fasm_decrypt_code.
LengthRandomOrder(code) == 72 + 3 * Len(code) + 2 * Cardinality(Wide(code))

Length(code) == 33 + 3 * Len(code) + 2 * Cardinality(Wide(code))
----------------------------------------------------------------------------
(* What fasm makes of a source that create_fasm writes *)

ImageBase == 4194304
ImportSize == 78
StringSize == 20
Sections == <<[VirtualAddress |-> 4096, PointerToRawData |-> 512],
              [VirtualAddress |-> 8192, PointerToRawData |-> 1024]>>

\* The code section holds the function, the imports and the code at start; the
\* data section a string and the encrypted file.  words has the operands of
\* push, push and call behind the ret, by their places in the file.
Fasm(algo, level) ==
    LET code == reverse_algo(algo)
        start == Length(code) + ImportSize
        file == Image[level - 1]
        raw == Sections[1].PointerToRawData + start
    IN  [code |-> code,
         entry |-> Sections[1].VirtualAddress + start,
         words |-> [o \in {raw + 16, raw + 21, raw + 26} |->
                       CASE o = raw + 16 -> Len(file)
                         [] o = raw + 21 -> ImageBase + Sections[2].VirtualAddress + StringSize
                         [] OTHER -> (0 - (start + 30)) % WordMod],
         data |-> [i \in DOMAIN file |-> EncryptByte(algo, file[i])]]

\* nested.exe is made by hand; zzTest0 and zzTest1 share an enc.inc.
Assemble ==
    /\ Len(exe) < Top
    /\ Len(exe) >= 3 => fresh
    /\ exe' = Append(exe, Fasm(enc, Len(exe) + 1))
    /\ fresh' = FALSE
    /\ UNCHANGED <<enc, current, out>>

Polygen ==
    /\ ~fresh
    /\ Len(exe) \notin {0, 2}
    /\ current = -1
    /\ enc' \in Algorithms
    /\ fresh' = TRUE
    /\ UNCHANGED <<exe, current, out>>
----------------------------------------------------------------------------
(* nested_dump *)

\* Mutant: the distance to the section is not added.
pEntrySectionOnly(e) ==
    LET far(i) == (e.entry - Sections[i].VirtualAddress) % WordMod
        i == CHOOSE i \in DOMAIN Sections : \A j \in DOMAIN Sections : far(i) <= far(j)
    IN  IF far(i) < 65536 THEN Sections[i].PointerToRawData ELSE 0

\* The section whose address is the least way below the entry, if that is less
\* than 0x10000: its place in the file and the distance, as unsigned numbers.
pEntry(e) ==
    LET far(i) == (e.entry - Sections[i].VirtualAddress) % WordMod
        i == CHOOSE i \in DOMAIN Sections : \A j \in DOMAIN Sections : far(i) <= far(j)
    IN  IF far(i) < 65536 THEN Sections[i].PointerToRawData + far(i) ELSE 0

\* The section that begins the least way below the address.
pClosest(uiPtr) ==
    LET far(i) == (uiPtr - ImageBase - Sections[i].VirtualAddress) % WordMod
    IN  CHOOSE i \in DOMAIN Sections : \A j \in DOMAIN Sections : far(i) <= far(j)

ReadWord(e, offset) == IF offset \in DOMAIN e.words THEN e.words[offset] ELSE 0

\* What is at a place in the file: the function is at the start of the code
\* section, the encrypted file behind the string.
CopySize == 112
FunctionAt(e, offset) == offset = Sections[1].PointerToRawData /\ Length(e.code) <= CopySize
DataAt(offset) == offset = Sections[2].PointerToRawData + StringSize

Dump ==
    /\ current > 0
    /\ LET e == exe[current]
           uiNextFileSize == ReadWord(e, pEntry(e) + 16)
           uiPtr == ReadWord(e, pEntry(e) + 21)
           uiRelDecrypt == ReadWord(e, pEntry(e) + 26)
           section == Sections[pClosest(uiPtr)]
           pOutFile == section.PointerToRawData
                           + ((uiPtr - ImageBase - section.VirtualAddress) % WordMod)
       IN  out' = IF /\ FunctionAt(e, (pEntry(e) + 30 + uiRelDecrypt) % WordMod)
                     /\ DataAt(pOutFile)
                  THEN [i \in 1..uiNextFileSize |-> DecryptByte(e.code, e.data[i])]
                  ELSE <<>>
    /\ current' = IF \E l \in 0..Top : Image[l] = out'
                  THEN CHOOSE l \in 0..Top : Image[l] = out' ELSE -1
    /\ UNCHANGED <<enc, fresh, exe>>

\* The batch is complete, and its last file goes out as solve_me.exe.
Publish ==
    /\ Len(exe) = Top
    /\ current = -1
    /\ out = <<>>
    /\ current' = Top
    /\ UNCHANGED <<enc, fresh, exe, out>>

Solved == current = 0 /\ UNCHANGED vars

Init ==
    /\ enc \in Algorithms
    /\ fresh = FALSE
    /\ exe = <<>>
    /\ current = -1
    /\ out = <<>>

Next == Assemble \/ Polygen \/ Publish \/ Dump \/ Solved

\* The batch and the one who takes off the layers go on; polygen before
\* zzTest0 is up to the author.
Spec == Init /\ [][Next]_vars /\ WF_vars(Assemble \/ Polygen \/ Publish) /\ WF_vars(Dump)
----------------------------------------------------------------------------
(* Properties *)

\* The solver copies 0x70 bytes of the decryption function: the longest that
\* polygen can generate is four bytes shorter.
FunctionIsCopiedWhole == \A l \in DOMAIN exe : Length(exe[l].code) <= CopySize

\* A dump takes off exactly one layer, although enc.inc has changed since the
\* layer was made: never a wrong file, and never the same again.
OneLayerOff == [][current > 0 => current' = current - 1 /\ out' = Image[current - 1]]_vars

\* The flag comes out in the end.
FlagComesOut == <>(out = Image[0])
=============================================================================
