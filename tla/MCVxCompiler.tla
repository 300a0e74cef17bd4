---------------------------- MODULE MCVxCompiler ----------------------------
(***************************************************************************)
(* Sources for the assembler: every kind of line, forward and backward     *)
(* references, declarations between instructions, a memory that fills up,  *)
(* and the lines that are refused.                                         *)
(***************************************************************************)
EXTENDS VxCompiler

\* How the words of a line are written.
Plain == [text |-> "", name |-> "", deref |-> FALSE, r |-> FALSE, num |-> None, tail |-> None,
          str |-> "no", size |-> 0]
Name(s) == [Plain EXCEPT !.text = s, !.name = s]
NameR(s) == [Name(s) EXCEPT !.r = TRUE]
NameAt(s, t) == [Name(s) EXCEPT !.text = t, !.deref = TRUE]
Digits(n) == [Plain EXCEPT !.num = n]
Rn(n) == [Plain EXCEPT !.r = TRUE, !.tail = n]
RnAt(n) == [Rn(n) EXCEPT !.deref = TRUE]
Quoted(how, bytes) == [Plain EXCEPT !.str = how, !.size = bytes]
L(op, args) == [op |-> op, args |-> args]

\* References in both directions, to each kind of symbol.
Forward == <<L("dv", <<Name("x"), Digits(5)>>), L("proc", <<Name("main")>>),
             L("jz", <<Name("out")>>), L("add", <<Name("x"), Rn(1)>>),
             L("", <<>>), L("lbl", <<Name("out")>>), L("//", <<Name("back")>>), L("ret", <<>>)>>
Backward == <<L("lbl", <<Name("top")>>), L("proc", <<Name("f")>>), L("nop", <<>>),
              L("dv", <<Name("y"), Digits(1)>>), L("mov", <<RnAt(0), Name("y")>>),
              L("jmp", <<Name("top")>>)>>
Calls == <<L("proc", <<NameR("run")>>), L("ret", <<>>), L("proc", <<Name("main")>>),
           L("dv", <<Name("y"), Digits(1)>>), L("call", <<NameR("run")>>),
           L("sub", <<NameAt("run", "[run"), Digits(3)>>)>>
Targets == <<L("proc", <<Name("f")>>), L("crth", <<Name("f")>>), L("jl", <<Name("f")>>),
             L("dv", <<Name("v"), Digits(1)>>), L("jg", <<Name("v")>>)>>
Again == <<L("jmp", <<Name("a")>>), L("lbl", <<Name("a")>>), L("nop", <<>>),
           L("lbl", <<Name("a")>>), L("da", <<Name("t"), Digits(1), Digits(2)>>),
           L("pop", <<Rn(3)>>), L("push", <<Digits(4)>>)>>

\* A jump to a procedure and to a variable that are declared below it.
Early == <<L("jmp", <<Name("g")>>), L("jz", <<Name("v")>>), L("proc", <<Name("g")>>),
           L("dv", <<Name("v"), Digits(1)>>), L("add", <<Name("g"), Name("v")>>),
           L("jmp", <<Name("g")>>)>>

\* Variables on the place that waits for the next instruction.
Between == <<L("dv", <<Name("a"), Digits(1)>>), L("nop", <<>>),
             L("dv", <<Name("s"), Quoted("ok", 2)>>), L("dv", <<Name("b"), Digits(2)>>),
             L("cmp", <<Name("a"), Name("b")>>), L("push", <<Rn(2)>>)>>

Native(m, f, conv, n) == L("natv", <<Name(m), Name(f), Name(conv), Digits(n)>>)
Natives == <<L("proc", <<Name("main")>>), Native(<<1>>, <<2>>, "cdecl", 1),
             Native(<<1>>, <<2>>, "stdcall", 1), Native(<<1>>, <<2>>, "fastcall", 0),
             L("call", <<Rn(2)>>)>>

Good == {Forward, Backward, Calls, Targets, Again, Early, Between, Natives}

\* Each of these lines behind an instruction and the declaration of v, main
\* and end.
BadLines ==
    {L(op, <<>>) : op \in {"dv", "da", "proc", "lbl", "push", "pop", "jmp", "call", "crth", "mov"}}
      \cup {L(op, <<Rn(1)>>) : op \in {"dv", "da", "proc", "lbl", "mov", "natv", "jg", "push"}}
      \cup {L("dv", args) : args \in {<<Digits(1), Digits(1)>>, <<Name("v"), Digits(1)>>,
               <<Name("w"), Name("v")>>, <<Name("w"), Name("z")>>, <<Name("w")>>,
               <<Name("w"), Quoted("unterminated", 2)>>, <<Name("w"), Quoted("escape", 2)>>}}
      \cup {L("da", args) : args \in {<<Name("w")>>, <<Name("v"), Digits(1)>>,
               <<Name("w"), Digits(1), Name("v")>>}}
      \cup {L("proc", <<Name("main")>>), L("lbl", <<Name("end")>>), L("call", <<Name("z")>>),
            L("crth", <<NameAt("main", "[main")>>), L("pop", <<Name("v")>>),
            L("pop", <<RnAt(1)>>), L("push", <<Name("v")>>), L("push", <<NameR("rest")>>),
            L("jz", <<NameR("rest")>>), L("jz", <<Digits(3)>>), L("jz", <<RnAt(3)>>),
            L("mov", <<Rn(8), Rn(0)>>), L("mov", <<Rn(0), Rn(8)>>), L("mov", <<Name("z"), Rn(0)>>),
            L("mov", <<Digits(6), Digits(7)>>), L("jle", <<Name("end")>>),
            L("push", <<Rn(8)>>), Native(<<1>>, <<2>>, "pascal", 1)}
Bad == {<<L("nop", <<>>), L("dv", <<Name("v"), Digits(1)>>), L("lbl", <<Name("end")>>),
          L("proc", <<Name("main")>>), bad, L("jmp", <<Name("end")>>)>> : bad \in BadLines}

\* Hardly any room beside a long string.
Crowded == {<<L("dv", <<Name("s"), Quoted("ok", 6)>>), L("nop", <<>>), L("dv", <<Name("x"), Digits(1)>>),
              L("jmp", <<Name("end")>>), L("dv", <<Name("y"), Digits(1)>>), L("lbl", <<Name("end")>>),
              L("xor", <<Rn(1), Name("x")>>), L("ret", <<>>)>>}

Sources == Good \cup Bad \cup Crowded

MCTwoOps == {"mul", "div", "add", "sub", "mov", "lea", "shl", "shr", "xor", "or", "and",
             "cmp", "stk"}
MCRev == {"add", "cmp", "xor"}
=============================================================================
