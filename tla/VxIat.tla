-------------------------------- MODULE VxIat --------------------------------
(***************************************************************************)
(* The import table that the assembler writes behind the image: vecIAT of  *)
(* VxAsmCompiler.h, a vector of bytes.  Strings are sequences of bytes     *)
(* without a zero.                                                         *)
(***************************************************************************)
EXTENDS Integers, Sequences, FiniteSets

Word == 65536
LowHigh(w) == <<w % 256, (w % Word) \div 256>>

\* arConventions: the index of a known name.  An unknown name is -1 in a word,
\* which the comparison with -1 does not find.
Conventions == <<"cdecl", "stdcall", "fastcall">>
GetCallingConvention(name) ==
    IF \E i \in 1..3 : Conventions[i] = name
    THEN (CHOOSE i \in 1..3 : Conventions[i] = name) - 1
    ELSE Word - 1

\* What natv appends for a new import.
Entry(mod, func, params, conv) ==
    <<255>> \o mod \o <<0>> \o func \o <<0>> \o LowHigh(params) \o LowHigh(conv) \o <<255>>

\* The string s, with its final zero, starts at index i of the bytes.
StringAt(bytes, i, s) ==
    /\ i + Len(s) <= Len(bytes)
    /\ SubSeq(bytes, i, i + Len(s)) = Append(s, 0)

\* The int at index i is params, so that a convention other than 0 matches no
\* parameter count.
IntIs(bytes, i, params) ==
    i + 3 <= Len(bytes) /\ SubSeq(bytes, i, i + 3) = LowHigh(params) \o <<0, 0>>

Matches(iat, i, mod, func, params) ==
    /\ StringAt(iat, i, mod)
    /\ StringAt(iat, i + Len(mod) + 1, func)
    /\ IntIs(iat, i + Len(mod) + Len(func) + 2, params)

\* Mutant: the half of the marks is rounded up.
IatContainsUp(iat, mod, func, params) ==
    LET hits == {i \in 1..Len(iat) : Matches(iat, i, mod, func, params)}
        first == CHOOSE i \in hits : \A j \in hits : i <= j
        marks == {i \in 1..first : iat[i] = 255}
    IN  IF hits = {} THEN -1 ELSE (Cardinality(marks) + 1) \div 2

\* Every byte is tried as the start of a module's name; the number of the
\* import is taken from the bytes 0xFF seen so far, two for each.  -1 if the
\* import is new.
IatContains(iat, mod, func, params) ==
    LET hits == {i \in 1..Len(iat) : Matches(iat, i, mod, func, params)}
        first == CHOOSE i \in hits : \A j \in hits : i <= j
        marks == {i \in 1..first : iat[i] = 255}
    IN  IF hits = {} THEN -1 ELSE Cardinality(marks) \div 2
=============================================================================
