------------------------------- MODULE VxHooks -------------------------------
(***************************************************************************)
(* Patching functions in memory (InlineHooking.cpp): a jump over the first *)
(* five bytes (Hotpatch, Detour), with what follows turned into nops       *)
(* (Detour with a size), with the first bytes kept in a trampoline         *)
(* (DetourTramp), and nops alone (NopFunction).                            *)
(*                                                                         *)
(* A word is four bytes, as in the code, but a byte has four bits, so that *)
(* the differences of addresses wrap at 2^16.  Memory is the bytes of the  *)
(* functions and of the blocks that VirtualAlloc may return.               *)
(***************************************************************************)
EXTENDS Integers, Sequences

CONSTANTS Functions,    \* the addresses of functions
          FuncSize,     \* their bytes; the last one is a ret
          Hooks,        \* the functions that may be put in their place
          Blocks,       \* the addresses that VirtualAlloc may return
          Sizes,        \* the sizes callers ask for
          MaxPatches    \* bound: how many functions are patched, one after another

ByteMod == 16
WordMod == ByteMod * ByteMod * ByteMod * ByteMod
JMP == 14       \* 0xE9, relative to the next instruction
NOP == 9        \* 0x90
RET == 12       \* 0xC3
RETN == 13      \* 0xC2, which also removes parameters
FARJMP == <<15, 2>>     \* 0xFF 0x25, through a word in memory
BODY == 1       \* any other instruction

\* Functions and blocks lie apart.  A function has room for a jump and its ret,
\* and callers count what they replace up to the ret.
ASSUME HooksAssumption ==
    /\ FuncSize \in Nat /\ FuncSize > 5
    /\ Functions \subseteq Nat /\ Blocks \subseteq Nat
    /\ \A f, g \in Functions : f # g => f + FuncSize <= g \/ g + FuncSize <= f
    /\ \A f \in Functions, at \in Blocks : f + FuncSize <= at \/ at + FuncSize + 6 <= f
    /\ Hooks \subseteq 0..(WordMod - 1)
    /\ Sizes \subseteq 0..(FuncSize - 1)

VARIABLES mem,          \* the byte at each address
          intent,       \* what the last call did to each function:
                        \* [to |-> "self", "ret", "hook" or "tramp", hook |-> its address]
          trampolines,  \* [at, func, size] of each block in use
          patches

vars == <<mem, intent, trampolines, patches>>

Cells(pos, size) == pos..(pos + size - 1)
Room(pos) == IF pos \in Functions THEN FuncSize ELSE FuncSize + 6
Mapped == UNION {Cells(pos, Room(pos)) : pos \in Functions \cup Blocks}

BytesOf(w) == <<w % ByteMod, (w \div ByteMod) % ByteMod, (w \div (ByteMod * ByteMod)) % ByteMod,
                w \div (ByteMod * ByteMod * ByteMod)>>
WordAt(memory, pos) ==
    memory[pos] + ByteMod * (memory[pos + 1] + ByteMod * (memory[pos + 2] + ByteMod * memory[pos + 3]))

\* memcpy to memory, and memset to a nop.
Written(memory, pos, bytes) ==
    [a \in Mapped |-> IF a \in Cells(pos, Len(bytes)) THEN bytes[a - pos + 1] ELSE memory[a]]
Nops(n) == [k \in 1..n |-> NOP]

\* Mutant: the distance is taken from the start of the jump.
JumpFromStart(from, to) == <<JMP>> \o BytesOf((to - from) % WordMod)

\* bPatch: the distance from behind the jump, as an unsigned word.
Jump(from, to) == <<JMP>> \o BytesOf((to - from - 5) % WordMod)
----------------------------------------------------------------------------
Patched(memory, f, wanted) ==
    /\ patches < MaxPatches
    /\ patches' = patches + 1
    /\ mem' = memory
    /\ intent' = [intent EXCEPT ![f] = wanted]

To(h) == [to |-> "hook", hook |-> h]

\* Hotpatch, and Detour of two parameters, which also returns f + 5.
Hotpatch(f, h) ==
    /\ Patched(Written(mem, f, Jump(f, h)), f, To(h))
    /\ UNCHANGED trampolines

\* Detour of three parameters does nothing without room for the jump.
Detour(f, h, dwSize) ==
    /\ dwSize >= 5
    /\ Patched(Written(mem, f, Jump(f, h) \o Nops(dwSize - 5)), f, To(h))
    /\ UNCHANGED trampolines

\* DetourTramp keeps the first bytes in a block with a far jump behind them.
\* The distance is taken from the hook to the function.
DetourTramp(f, h, stSize) ==
    /\ stSize >= 5
    /\ \E at \in Blocks \ {t.at : t \in trampolines} :
          /\ trampolines' = trampolines \cup {[at |-> at, func |-> f, size |-> stSize]}
          /\ LET bPrologue == [k \in 1..stSize |-> mem[f + k - 1]]
                 hooked == Written(mem, f, Jump(h, f) \o Nops(stSize - 5))
             IN  Patched(Written(hooked, at, bPrologue \o FARJMP \o BytesOf((f + 5) % WordMod)),
                         f, [to |-> "tramp", hook |-> h])

\* The bytes before the first that looks like a ret, be it part of an operand.
IsRet(byte) == byte \in {RET, RETN}
GetFuncSize(f) ==
    CHOOSE n \in 0..(FuncSize - 1) : IsRet(mem[f + n]) /\ \A k \in 0..(n - 1) : ~IsRet(mem[f + k])

NopFunction(f) ==
    /\ Patched(Written(mem, f, Nops(GetFuncSize(f))), f, [to |-> "ret", hook |-> 0])
    /\ UNCHANGED trampolines

Init ==
    /\ mem = [a \in Mapped |->
                 IF \E f \in Functions : a = f + FuncSize - 1 THEN RET ELSE BODY]
    /\ intent = [f \in Functions |-> [to |-> "self", hook |-> 0]]
    /\ trampolines = {}
    /\ patches = 0

Next ==
    \E f \in Functions :
       \/ NopFunction(f)
       \/ \E h \in Hooks \ {f} :
             \/ Hotpatch(f, h)
             \/ \E n \in Sizes : Detour(f, h, n) \/ DetourTramp(f, h, n)

Spec == Init /\ [][Next]_vars
----------------------------------------------------------------------------
\* Where control that enters at f leaves the nops, and then the first jump.
FirstReal(f) ==
    CHOOSE a \in Cells(f, FuncSize) : mem[a] # NOP /\ \A b \in Cells(f, a - f) : mem[b] = NOP
Lands(f) ==
    LET a == FirstReal(f)
    IN  IF mem[a] = JMP THEN (a + 5 + WordAt(mem, a + 1)) % WordMod ELSE a

\* Control that enters a function goes to the hook that Hotpatch or Detour put
\* in its place last, however far and on which side it lies ("redirects flow
\* entirely to the new function"), or after NopFunction past nops to a ret ("Make
\* a function do nothing"): whatever was patched over before, also where the ret
\* that NopFunction stops at is a byte of an earlier jump, and without harm to
\* the functions beside.  Nothing is claimed of a function that DetourTramp has
\* patched last.
LastPatchDecides ==
    \A f \in Functions :
        /\ intent[f].to = "self" => Lands(f) = f
        /\ intent[f].to = "hook" => Lands(f) = intent[f].hook
        /\ intent[f].to = "ret" => Lands(f) \in Cells(f, FuncSize) /\ IsRet(mem[Lands(f)])
=============================================================================
