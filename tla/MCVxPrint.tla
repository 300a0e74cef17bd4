------------------------------ MODULE MCVxPrint ------------------------------
(***************************************************************************)
(* Vx1_src.vx on VxMachine: main takes the nine arguments of the command   *)
(* line, which BeginExecution pushed, one by one from its stack, decrypts  *)
(* nine words with them and prints these.  Two history variables keep what *)
(* was given and what was printed; the machine does not see them.          *)
(*                                                                         *)
(* Words have two bytes, so that of the four characters of a word, or of   *)
(* an argument, the first two are left.                                    *)
(***************************************************************************)
EXTENDS MCVxMachine, SequencesExt, Bitwise

VARIABLES given,        \* the arguments of the command line
          printed       \* the bytes that putchar got

historyVars == <<given, printed>>

\* The i-th of a sequence of instructions is at offset at + step * (i - 1).
Laid(at, step, ins) ==
    [ip \in {at + step * (i - 1) : i \in DOMAIN ins} |->
       [ins[(ip - at) \div step + 1] EXCEPT !.next = step]]

decrypt == 200
printStr == 240
lpStart == printStr + 3 * 5
main == 900

\* The variables: tempIntValue, and nine pairs of a word and its key.
tempIntValue == 0
Word(k) == IntBytes * (2 * k - 1)
Key(k) == IntBytes * 2 * k

DecryptProc ==
    << One("pop", Enc!R(6)), One("pop", Enc!R(4)), One("pop", Enc!R(0)),
       Two("xor", Enc!R(0), Enc!R(4)),
       One("push", Enc!R(6)), Zero("ret") >>

PrintStrProc ==
    << One("pop", Enc!R(6)), One("pop", Enc!R(4)),
       Two("mov", Enc!R(1), Enc!C(0)),
       Two("mov", Enc!CAt(tempIntValue), Enc!R(4)),
       Two("mov", Enc!R(4), Enc!C(tempIntValue)),
       \* lbl lpStart
       Two("mov", Enc!R(3), Enc!RAt(4)),
       One("push", Enc!R(3)), One("natv", Enc!C(0)),
       One("push", Enc!C(1500)), One("natv", Enc!C(1)),
       Two("add", Enc!R(4), Enc!C(1)), Two("add", Enc!R(1), Enc!C(1)),
       Two("cmp", Enc!R(1), Enc!C(IntBytes)), One("jnz", Enc!C(lpStart)),
       One("push", Enc!R(6)), Zero("ret") >>

\* What main is made of, for the k-th word.
TakeKey(k) == << One("pop", Enc!R(3)), Two("mov", Enc!CAt(Key(k)), Enc!R(3)) >>
LoadWord(k) == << Two("mov", Enc!R(1), Enc!CAt(Word(k))) >>
PushWord == << One("push", Enc!R(1)) >>
CallDecrypt(k) ==
    LET reg == IF k = 1 THEN 3 ELSE 2
    IN  << Two("mov", Enc!R(reg), Enc!CAt(Key(k))), One("push", Enc!R(reg)),
           One("call", Enc!C(decrypt)) >>
CallPrintStr == << One("push", Enc!R(0)), One("call", Enc!C(printStr)) >>

\* The last keys are taken while words wait on the stack, in r1 and in r0.
MainProc ==
    FlattenSeq([k \in 1..6 |-> TakeKey(k) \o LoadWord(k) \o PushWord \o CallDecrypt(k) \o CallPrintStr])
      \o TakeKey(7) \o LoadWord(7) \o TakeKey(8) \o PushWord \o CallDecrypt(7) \o CallPrintStr
      \o LoadWord(8) \o PushWord \o CallDecrypt(8) \o TakeKey(9) \o CallPrintStr
      \o LoadWord(9) \o PushWord \o CallDecrypt(9) \o CallPrintStr \o << Zero("ret") >>

\* main lies downwards in memory.
PrintCode ==
    Laid(decrypt, 4, DecryptProc) @@ Laid(printStr, 3, PrintStrProc) @@ Laid(main, -5, MainProc)

\* Nothing is asked of the control flow in this run.
PrintFlow == [ip \in DOMAIN PrintCode |-> DOMAIN PrintCode]
PrintImports == <<1, 1>>

\* dv lasaXor, lasaKey, ctfXor, ...
Words == << 1346832933, 1278673178, 104667714, 1343620417, 241769750, 1006841189,
            1196564485, 658520900, 704731171 >>
Keys == << 825518921, 928085369, 827290420, 863659060, 2033608806, 1667979604,
           842285621, 1400133687, 1466906442 >>
PrintData ==
    [x \in 0..(Key(9) + IntBytes - 1) |->
       LET k == (x \div IntBytes + 1) \div 2
       IN  CASE x < IntBytes -> 0
             [] x >= IntBytes /\ (x \div IntBytes) % 2 = 1 -> ByteOf(Wrap(Words[k]), x % IntBytes)
             [] OTHER -> ByteOf(Wrap(Keys[k]), x % IntBytes)]

\* The command line of the comment in Vx1_src.vx (J7oW 7XtS 5B42 ...: the keys,
\* the last one first), the keys in the order of the words, and one of extreme words.
SourceArgs == [i \in 1..9 |-> Wrap(Keys[10 - i])]
InOrder == [i \in 1..9 |-> Wrap(Keys[i])]
Extremes == << 0, -1, 32767, -32768, 1, 255, 256, -256, 7745 >>
PrintArgs == {SourceArgs, InOrder, Extremes}
----------------------------------------------------------------------------
\* putchar is called at the first natv of printStr, with the int on the stack.
putcharAt == printStr + 3 * 7

PutcharGets ==
    {ByteOf(Load(ram, Unsigned(m_vecThreads[i].m_cpu.r[7])), 0) :
       i \in {i \in DOMAIN m_vecThreads : m_vecThreads[i].m_cpu.ip = putcharAt}}

PrintInit == Init /\ given = <<>> /\ printed = <<>>

PrintStart ==
    \E args \in ForcedArgs :
        /\ Begin(args)
        /\ given' = args
        /\ UNCHANGED printed

\* MaxThreads is 1: the thread that Tick runs is the one that prints.
PrintTick ==
    /\ Tick
    /\ printed' = printed \o SetToSeq(PutcharGets)
    /\ UNCHANGED given

PrintNext == PrintStart \/ PrintTick \/ ((JumpOut \/ Stopped) /\ UNCHANGED historyVars)

PrintSpec == PrintInit /\ [][PrintNext]_<<vars, historyVars>>
----------------------------------------------------------------------------
\* The bytes of the k-th word, decrypted with the argument for it: main pops
\* the arguments from the last to the first.
Decrypted(args) ==
    [n \in 1..(9 * IntBytes) |->
       LET k == (n - 1) \div IntBytes + 1
           b == (n - 1) % IntBytes
       IN  ByteOf(Wrap(Words[k]), b) ^^ ByteOf(args[10 - k], b)]

\* With the command line of its comment (key: lasa ctf{ vir7 ualc pu_w 1th_ 0bfu
\* sc4t ion}) Vx1_src.vx is to print the flag; "la" "ct" "vi" ... is left of it.
ASSUME FlagAssumption ==
    Decrypted(SourceArgs) = << 108, 97, 99, 116, 118, 105, 117, 97, 112, 117, 49, 116, 48, 98,
                               115, 99, 105, 111 >>

\* main prints the words of the source in order, the k-th decrypted with the
\* k-th argument from the end of the command line, and all of them before it
\* returns: whatever was pushed and popped between, and although the last keys
\* are taken in the midst of the words before them.  In particular it prints
\* the flag for the command line of the source.
PrintsTheDecryptedBytes ==
    /\ phase # "load" => IsPrefix(printed, Decrypted(given))
    /\ phase = "exited" => printed = Decrypted(given)
=============================================================================
