# LasaCTF-Binary in TLA+

The repository holds the sources of eight CTF problems. Seven are small
programs; the eighth, Vx, is a system: an assembler that invents a new
instruction set at each compilation and scatters the code over memory, and a
virtual machine with green threads that loads and runs its output. This
directory models Vx whole: scheduler, CPU, encoding, instruction set, assembler,
imports, host process and the hooking it uses; and, of the small ones, Nested
with its solver, a chain of programs that write programs.

All source paths below are relative to `src/Problems_Source/Vx/`.

## 1. Inventory

| Component | Source | State | Operations | Hard behaviour |
|---|---|---|---|---|
| Scheduler | `CTF_Testing/VxAsm.h` 143-212, 1641-1660 | `m_vecThreads`: CPU, priority and level of each thread | `InitThread`, `ForcePush`, `Tick`, `GetActive`, the run loop, `JumpOut` | fairness between priorities; `crth` moves the vector while `Tick` and the handler hold pointers into it |
| CPU and handlers | `VxAsm.h` 104-141, 239-1556 | r0..r7, ip, flags, a stack per thread, `arMemory` shared by all | 27 handlers, `ExecuteInstruction` | interleaved calls over shared memory, pointers and offsets in one register, wrapping arithmetic, uninitialised flags |
| Instruction set | `ObfuCompiler/InstructionSet.h`, `VxAsm.h` 1620-1639 | `instructionSet`; `arInstSet` | generate, write, load | redrawing of ids, overlapping four-byte corrections |
| Assembler | `ObfuCompiler/VxAsmCompiler.h`, `ObfuCompiler.cpp` | `arMemory`, `arUsed`, `vecSymbols` with links, `vecIAT`, `pLastInst` and flags | one case per kind of line, `FindNewLocation`, `MakeInstruction`, `Compile` | random allocation in a finite memory, forward references, the chain of next offsets |
| Imports | `VxAsm.h` 216-235, 1261-1362, 1583-1609; `VxAsmCompiler.h` 101-134, 768-833 | footer of the binary, list of `Import` | `IatContains`, parsing, `natv` | indices that the two sides count differently, calling conventions |
| Host process | `CTF_Testing/Vx.cpp`, `stdafx.h` | patched dispatcher, `g_dwFlag`, `dwActiveThreads` | `main`, `IntializeProtection`, `SetupRuntime`, `JumpOut`, `CheckDebug` | two OS threads without synchronisation, control passed through an exception |
| Inline hooking | `CTF_Testing/InlineHooking.cpp` | bytes of machine code | `Hotpatch`, `Detour`, `DetourTramp` | relative addresses |
| String encryption | `CTF_Testing/XorStr.h` | a string, encrypted or not | `ToggleEncryption` | each use must toggle an even number of times |
| Nested | `../nested/polygen.py`, `output_nest.py`, `nested.asm`, `../nested_dumper/nested_dump/nested_dump.cpp` | `enc.inc`, layers of encrypted executables | draw an algorithm, assemble a layer, take one off | an inverse of a random chain of byte operations, found in the file by its offsets |
| Others | `../rop_fun`, `../ransom`, `../Easy`, `../Xor`, `../simple_rop`, `../bad_buffer` | | | straight-line puzzles |

How they interact: the assembler writes two files (`Vx.inst`, the instruction
set; `Vx.bin`, memory image, import footer and entry). The host passes control
to `BeginExecution`, which loads both and creates the main thread. The run loop
calls `Tick`, which picks a thread and calls its CPU; the CPU finds the handler
by the opcode and calls it; `crth` calls back into the scheduler from inside
`Tick`; `natv` calls out of the process. When no thread is active the run loop
calls `JumpOut`, which ends the OS thread.

What makes each correct: the scheduler runs every live thread again and again
and no dead one, and stops when all are dead; a thread's calls return to where
they were made from, on its own stack; an instruction means the same under any
instruction set; the machine decodes with the set the assembler encoded with;
what the assembler scatters over memory is not overwritten, is chained in the
order of the source and refers to what the source names; `natv` calls the
function its line names and leaves both stacks in order; the machine is entered
once, not under a debugger, and the process outlives it and no longer.
`PROJECT.json` lists the hazards line by line.

## 2. Modules

| Module | Models | Built on |
|---|---|---|
| `ThreadPool` | abstract: a pool of threads of which each step moves one that has not ended | |
| `VxThreads` | `ThreadManager` and the run loop; implements `ThreadPool` | `ThreadPool` |
| `VxThreadsProofs` | theorems about `VxThreads` | `VxThreads` |
| `VxCpu` | every handler as an operator from a CPU to what it may leave | |
| `VxEncode` | `MakeInstruction` | |
| `VxMachine` | the whole machine: `VxThreads`' scheduler over `VxCpu`'s CPUs; implements `VxThreads` | `VxCpu`, `VxThreads` |
| `VxLines` | one CPU executing encoded lines in any order, under two instruction sets | `VxCpu`, `VxEncode` |
| `VxCpuProofs` | theorems about `VxLines` and `VxMachine` | `VxLines`, `VxMachine`, `VxThreadsProofs` |
| `VxInstSet` | generation, file and loading of the instruction set | |
| `VxInstSetProofs` | theorems about `VxInstSet` | `VxInstSet` |
| `VxIat` | the import table: `IatContains`, the records, the conventions | |
| `VxCompiler` | `Compile` and `WriteInstruction`, one action per kind of line | `VxIat`, `VxEncode` |
| `VxCompilerProofs` | theorems about `VxCompiler`: places, memory, chain; symbols, links, entry | `VxCompiler` |
| `VxImports` | from `natv` lines over the footer and the parsed list to the native call | `VxIat` |
| `VxImportsProofs` | theorems about `VxImports` | `VxImports` |
| `VxHost` | the two threads of the process, the exception dispatcher, `CheckDebug` | |
| `VxHostProofs` | theorems about `VxHost` | `VxHost` |
| `VxHooks` | the functions of `InlineHooking.cpp` on memory | |
| `VxHooksProofs` | theorems about `VxHooks` | `VxHooks` |
| `Nested` | the batch that makes the layers, and `nested_dump` | |
| `NestedProofs` | theorems about `Nested` | `Nested` |
| `MCVxPrint` | `Vx1_src.vx` on the machine, with what was given and printed as history variables | `MCVxMachine` |
| `MCVxThreads`, `MCVxMachine`, `MCVxLines`, `MCVxCompiler`, `MCVxImports`, `MCNested` | programs, lines and bounds for TLC | |

Operators whose comment begins with *Mutant* are variants of the definition
they stand before, with a plausible mistake in them. No specification uses
them; they are there so that each property can be seen to fail.

### VxThreads

A state is the vector of `ThreadTracker`s (ip, priority, level), the vector's
capacity, and where `BeginExecution` is. One `Tick` is one action: raise all
levels, choose `pBest` (the first thread of highest level, as the strict
comparison from thread 0 chooses it), execute one instruction, write ip and
level. The program is a constant: for each offset, whether its instruction is a
`crth`, and where ip may go.

The point of the capacity is `crth`. `InitThread` appends to the vector while
`Tick` holds `pBest` and the handler `pThis`. If the vector is full its storage
moves, with the growth rule of Microsoft's library (by half, at least to the
size needed). What is written through the old pointers afterwards, the advance
of ip, the level reset and a cleared priority, goes to the freed block: the live
thread keeps its ip and its raised level and executes the same `crth` again. In
the model the write is lost: no code between the free and the last use of the
block allocates memory, so nothing else reads or writes it.

### VxCpu, VxEncode, VxMachine

An instruction is a record of the fields of `MemInstruction`; the bit layout
and the opcode bytes are abstracted away (the next offset is a field, `GetNext`
reads it). Handlers of two operands share one scheme (`Operate`)
and differ in an operator, as the thirteen copies in the source do; `lea`, `stk`
and `cmp` differ in their sources or results. Words have `IntBytes` bytes of
`ByteBits` bits and wrap; memory is one function from host addresses to bytes
that holds `arMemory` and all stacks, so that unaligned reads, byte-wise
overlaps, and the choice of `GetRegValue` between pointer and offset come out as
in the program. Each source of nondeterminism is kept: uninitialised flags, the
order of evaluation in `[r7] = pop()`, what a native function returns.

`VxMachine` repeats the scheduler with whole CPUs, an exception that ends the
process (`ExecuteFault`), and offsets at which no opcode matches
(`ExecuteUnknown`). `FollowsFlow` shows that it implements `VxThreads` with the
control-flow graph of the source program in the place of `Succ`: after a `ret`,
only the instructions behind a call of that procedure.

Assumptions: the constants are what the files can hold (`CodeAssumption`,
`FilesAssumption`, `ArgsAssumption`), what nothing in the machine determines has a type
(`UnknownsAssumption`), and `arMemory` and the stacks lie at addresses of a word, the
stacks above (`LayoutAssumption`); the program does not overwrite its own code (code and data are
separate in the model, and data addresses are those of variables); an access
outside `arMemory` and the stacks is an exception; a fresh stack reads as zeros;
native functions do not write into the machine's memory; a cast of an lvalue to
its own type stays an lvalue (`GetRegValue(..) *= ..`), which the Microsoft
compiler accepts and the sample programs depend on. `CheckDebug` and the `OBFU_`
macros have no effect on this state (they are empty in the checked-in
configuration).

### VxLines

The assembler side composed with the machine side, one line at a time. `Encode`
is `MakeInstruction` for one assignment of operand orders and one value of the
random filler, `OtherEncode` for another; `Outcomes` is executed under each.
`TakesOwnAddress` is the one form of line that shows its encoding: `lea` of a bare
constant, stored through a register or to memory, yields the address of that constant
inside the instruction.

### VxInstSet

The three loops, with their indices as variables. The loader corrects the order
of an entry with a four-byte subtraction at its third byte, so the model keeps
`arInstSet` as bytes, with the two bytes behind the table that the last
subtraction covers.

### VxIat, VxCompiler

A source is a sequence of lines, a line a mnemonic and its terms. What matters of
a term is what the scans of the code find in it: whether it begins with a bracket,
whether it begins with `r`, the number it begins with, and the number behind its
first character. So a term that one case takes for a register and another for a
name is represented as such. Each case of `WriteInstruction` is an action with all
its exits: `exit(1)` (phase `refused`, with the reason in `message`), an access
outside an array (phase `undefined`), nothing assembled (`Skip`), or an
instruction (`Assemble`). `FunctionRegisterCheck`, which nearly every case begins
with, is `Registered`; `bLabel` and `iLabelIndex` are one variable, `iLabel`, 0 if no
label is pending.

`FindNewLocation` is the set of what it may return: any free place, also one that
sticks out of `arMemory` if `rand()` began there, and -1 if some start leads past
every place the loop looks at (`MayFail`). `Visit` spells out which places these are.
`Assemble` writes at `pStart`, draws the next place and does not mark it.

`arMemory` keeps for each byte the line that wrote it, `code` the instruction of each
line. At the end `WriteImage` follows the links. `OrderRev` is the set of operations
that the generated instruction set has in reversed order.

Assumed: what is behind `arUsed`'s end is not relied on (a block that sticks out is
refused or undefined); strings take as many bytes as `dv` allocates, and their
escapes either fit or are refused; a name has at most 63 characters.

A jump to a name that is not declared yet makes a label of it. If the name turns out to
be a procedure or a variable, no line ever places that label, and every later jump to
the name prefers it. `ReferencesResolved` is about names without such a jump above their
declaration; the program `Early` of `MCVxCompiler` holds the others.

### VxImports

`Assemble` appends to `vecIAT` as the `natv` case does, `Parse` reads the bytes back
as `BeginExecution` does, `Walk`, `Push`, `Save`, `Call` and `Clean` are the parts of
`NatvHandler`. Stacks are sequences with the top first; the called function is
external and takes its arguments where its convention says. `VxCpu` models the same
handler without the host's stack, for whole programs.

Assumed (`SourcesAssumption`): names are words without the bytes 0 and 255, the convention
is one of the three, and there are fewer than 255 parameters. The byte 255 marks a record
and is not escaped: `IatContains` counts these bytes, and an unknown convention, which is
written as 0xFFFF, or a count of 255 would add to them. A program has pushed what its
functions take (`StacksAssumption`).

### VxHost

One program counter for each of the two operating system threads, and one for where
it is inside `CheckDebug`. `dispatcher` is what `KiUserExceptionDispatcher` begins
with; the patch and the restoration are two stores each, so that it may be torn
between them. An exception goes to what the dispatcher holds at that moment. The
debugger is there from the beginning or not at all, and takes single steps for
itself. A second entry into `BeginExecution` (`Twice`) ends the model: it replaces
the manager under the first.

### VxHooks

Bytes have four bits, words four bytes; an instruction that is neither jump, nop nor
ret is one byte `BODY`. `GetFuncSize` stops at either of the two bytes that a `ret` begins
with, wherever it meets one; two of the hooks lie where the distance of a jump holds such a
byte, so that `NopFunction` over an earlier jump stops inside of it. `intent` remembers what
the last call wanted of each function. The repository patches two functions, once each, with
`Hotpatch` (`Vx.cpp:107`, `:109`); sequences of patches are what the file offers.
Assumed (`HooksAssumption`): functions and blocks do not overlap, a function has room for
a jump and its `ret`, and nobody replaces the `ret` itself.

### Nested

`enc.inc` is the algorithm last drawn; `Fasm` is what the assembler makes of a source
that `create_fasm` writes, with the layout that the repository's `nested.exe` and
`solve_me.exe` have (the import block takes 78 bytes, the code behind the `ret` begins
16 bytes behind `start`). The batch assembles `zzTest0` and `zzTest1` with one
`enc.inc` and draws before each later one; whether one is drawn before `zzTest0` is up to
the author. `Dump` reads the operands at the entry, finds function and file by their
sections, runs the copied function and writes the file out. Files are a few bytes:
each byte is encrypted by itself. `XorBytes` is the sum of the binary digits in which two
bytes differ; `MCNested` has TLC compare it with the library's bitwise operator on all
pairs of bytes (`XorAgrees`).

Assumed: an algorithm has at most 15 operations, as `ALGO_LEN` says, with the operators of
`ops` and numbers from 1 to 254, as `rand` draws them (`AlgorithmsAssumption`); the files
are bytes and differ (`FilesAssumption`); addresses do not wrap (`WordAssumption`).

## 3. Runs

| Run | Shows | Bounds |
|---|---|---|
| `threads` | types; a retired thread is idle and never runs; `VxThreads` implements `ThreadPool`; levels are bounded by twice the number of threads; nobody starves | main and up to five threads in loops they may leave or not; the vector moves four times (1, 2, 3, 4, 6) and once a `crth` fits |
| `threads_crth` | **finding**: a `crth` that moves the vector runs again | as `threads` |
| `machine_hello` | `vxHelloWorld.vx`: `printf` gets its two parameters | one thread, all eight settings of the flags, two results of `printf` |
| `machine_print` | `Vx1_src.vx`, the whole program: the bytes that `putchar` gets are the nine words of the source, in order, the k-th decrypted with the k-th argument from the end of the command line | three command lines of nine arguments: that of the source's comment, for which the bytes are those of the flag, the same in the opposite order, and extreme words |
| `machine_threads` | six threads: balanced and separate stacks, every thread counts once per call, control flow; quotients truncate, only zero traps; all threads end, and an astray main holds nobody | 6 threads, loops of two rounds, divisors 0, -7 and 200, flags all clear or all set |
| `lines` | a line means the same under two opposite instruction sets; the six jumps follow the last comparison | every form of operand for each operation, from all states up to two of 22 lines away from the initial ones; 6-bit words |
| `instset` | ids unique, table restored, generation ends | 3 instructions, 4 ids, bytes of 5 values: a borrow would show |
| `compile` | types; instructions survive; variables lose bytes to the next instruction only; the chain follows the source; references and entry are resolved | seven sources with each kind of reference in both directions, 50 odd or refused lines, one memory that fills up; 10 bytes of memory, every place that `rand()` may give |
| `imports` | parser and table agree; `natv` calls what its line names; stacks and registers; arguments arrive | up to three lines of nine, with modules that are tails of others, all conventions, 0 to 4 parameters; two calls |
| `host` | not under a debugger; the process waits for the machine; the dispatcher is never zeroed and foreign only in setup; ended only by the race; it ends | both builds, debugger and files or not, three `CheckDebug` from `Tick` |
| `hooks` | control goes to the hook put in last by `Hotpatch` or `Detour`, or to a ret after `NopFunction` | three functions, one at the end of the words, hooks above and below, some at distances that hold the byte of a ret, two blocks, three patches |
| `nested` | the function is copied whole; a dump takes off one layer; the flag comes out | five levels, algorithms of the real length 15 (the repository's, the longest, the largest borrows, a mix) |

Deadlock is checked except where a bound ends the behaviours or the process really
ends: `lines` (`MaxSteps` lines), `imports` (`MaxCalls`), `hooks` (`MaxPatches`), and
`host`, whose process ends. `MaxThreads` bounds `crth` in a guard: when
a program has reached it, a `crth` would deadlock, and the checked programs never
get there except by creating no more. `StackInts` is the length of a stack (0x100
in the code): the programs need at most twelve.

Words are two bytes wide because every case distinction of the handlers is on
sign, on zero, on the size of `arMemory` or on the byte order, all of which two
bytes have; three-bit bytes in `lines` keep offsets, addresses of
memory and addresses of stacks apart in six bits.

In `compile` sizes are scaled down (1 byte for an `int`, 1 for an instruction without
constants) so that ten bytes hold the sources with room for a few choices: all that
the code does with sizes is add and compare them, and the proofs hold for every size.
`NextMod` (32) is larger than the memory, as 2^24 is. In `nested` words have 28 bits, because
TLC's integers have 32, and addresses fit.

### Fairness

`VxThreads` and `VxMachine` assume weak fairness of `Start`, `Tick` and `JumpOut`:
the run loop is sequential code that nothing blocks. Nothing is assumed of which
thread `Tick` picks: that is the code's business and what `NoStarvation` is
about, with programs free to loop for ever. `VxInstSet` assumes that the
sequential programs go on (weak fairness of `Next`), and strong fairness of each
value drawn in `Redraw`: `rand()` has a period longer than its range and reaches
every residue modulo 0xFF, so a loop that keeps drawing cannot miss the free ids
for ever. `VxHost` assumes weak fairness of each thread: the operating system runs both,
and polling in `main` does not stop the other. `Nested` assumes that the batch and the
solver go on, each by itself; drawing once more is never forced. `VxCompiler` and
`VxImports` state fairness of their sequential programs, but their properties are safety.

## 4. Findings

* **`crth` may run again** (`threads_crth`). `InstructionSet.h:62` calls the
  instruction "Create thread.". Because of the moved vector the first `crth` of a
  program creates five threads: the vector is full at 1, 2, 3 and 4 threads.
  All later properties hold in spite of it: every thread is still run and
  retired, stacks stay apart, and the machine implements its scheduler.

Behaviour of the code that is modelled as it is, and that a comment or message of the
repository describes otherwise; no run is about it:

* `cmp` derives its flags from the wrapped difference and there is no overflow flag (`of`
  is declared and never set), so `jg` and `jl` are wrong in the signed order when the
  difference overflows. `lines` shows that they are right in all other cases.
* `VxAsmCompiler.h:234` "Cannot use a register greater than r7": the number is in three
  bits when it is tested, so `push r8` becomes `push r0`.
* `VxAsmCompiler.h:535` "because %s does not exist": `(SymType)-1` is 255, which no symbol has
  and which is not -1, so `dv` of a symbol is always refused.
* `VxAsmCompiler.h:479` "Not enough memory to allocate var": the search leaves out one place.
* `VxAsmCompiler.h:787` "Calling convention invalid": a word is compared with -1, so an
  unknown convention is written as 0xFFFF.
* `jle` is in the instruction set (`InstructionSet.h:27`) and has a handler; the assembler
  drops the line.
* `DetourTramp` ("Standard detour function", `InlineHooking.cpp:87`) computes its jump the
  wrong way round: control goes as far to the other side of the function; its trampoline
  jumps through an address instead of to it (`:99`). Nothing calls it. The model patches as
  the code does, which other patches must bear, and claims nothing of where control goes that
  enters such a function.

Behaviour that no document of the repository speaks of, and that the models keep:
`fastcall` imports with more than two parameters find the saved registers as third and
fourth argument, and give the handler's registers back wrong; `IatContains` takes the
tail of an earlier module's name for the module, and ignores the convention; the first
of two constants of an instruction is lost; a `jmp` to a procedure that is defined below
goes to offset 0; without a debugger a race over `g_bExcep` may end the process as if
there were one, and an exception between the two halves of `SetupRuntime` may enter the
machine twice.

## 5. Proofs

TLAPS checks all of the eight modules whose names end in `Proofs`, for every value of the
constants that satisfies the named assumptions. Every safety property of `VxThreads`,
`VxLines`, `VxInstSet`, `VxCompiler`, `VxImports`, `VxHost`, `VxHooks` and `Nested` is a
theorem.

*VxThreadsProofs.* Assumed: offsets are naturals, `Kind` and `Succ` are functions
on them, the entry is a place. `TypeCorrect`: `TypeOK` is inductive; its work is
in the types of raised and settled vectors, and in the vector's size against its
growing capacity. `RetiredIdle`: `RetiredIsIdle` is inductive with `TypeOK`; a
retired thread has level 0 and priority 0, so raising leaves it at 0 and, as some
active thread has a level above 0, it is never `pBest` (`BestIsNotRetired`); hence
no write, lost or not, can touch it. `RetiredThreadsNeverRun` follows from the
same lemma. `RefinesPool` maps each thread to its status: a `Tick` maps to `Run`,
`Spawn` or `Reap` of the chosen thread, a lost write to `Spawn` alone, `JumpOut` to
`Exit`. `WaitBounded`: levels stay below twice the number of threads,
whatever the programs do. `WaitInv` counts `Older(k)`, the threads of `crth` whose level
has reached `k`. As their priority is 1, each was in `Older(k - 1)` one `Tick` earlier;
as `Tick` dispatches a thread of the highest level, a `Tick` that leaves `Older(k)` not
empty has taken its thread out of it, or was main's, or lost its writes to a moved
vector, in which case there is a thread more. So twice the size of `Older(k)` and twice
`k` stay within twice the number of threads, but for main's own dispatches, which `Slack`
accounts for. The bound is not inductive without that count: a state with two threads at
the bound could exceed it at the next `Tick`.

*VxInstSetProofs.* Assumed: `Digit` and one more fit in a byte, junk is bytes, ids
are below the byte range. The invariant `IInv` adds to types and `IdsUnique` that
the draw in hand differs from the first `j` ids (`DrawInv`: why accepting it keeps
ids unique) and how much of the file is written and corrected (`FileInv`). The
loading step rests on `NoBorrow`: the byte to correct is at least `Digit`, so the
wide subtraction changes no other byte. Theorems: `TypeCorrect`, `UniqueIds`,
`LoadedSetIsGenerated`.

*VxCompilerProofs.* Assumed: an instruction with two constants fits in memory, offsets
in memory fit in the three bytes (`SizesAssumption`), `ret` has no operands
(`OpsAssumption`), lines are sequences (`ProgramsAssumption`). The inductive invariant
`IInv` is the conjunction of the properties with what they rest on: lines below the one
that is read have no place (`Unplaced`); every byte that is written is marked, and
belongs to the line that wrote it (`Marked`); the place that waits is free of marks or
taken by variables declared since (`WaitingPlaceIsFree`), which is what makes
`OnlyWaitingPlaceIsLost` inductive; `pLastInst` is the last instruction, or 0 behind a `ret`
(`LastIsKept`), which is what makes `ChainFollowsSource` inductive. All cases of
`WriteInstruction` come down to four kinds of step, each with a lemma: refused, skipped,
a variable at a free place (`DeclareStep`), an instruction at the waiting place
(`AssembleStep`). `NextRoundTrip` shows that three bytes and a sign hold every offset
within memory. Theorems: `NoInstructionIsOverwritten`,
`VariablesLoseToNextOnly`, `InstructionsAreChained`.

`TypeCorrect` is in the module too, and says little of the code: `Compile` does not test
whether `FindNewLocation` found a place, and where it would then write in front of `arMemory`
the model's run ends in the phase `undefined`, so that no state with such a write is left to
be wrong. What can be said of this case is when it occurs. `NoPlaceOnlyWhenFull`: `pStart` is
-1 only when at most two places in memory have room for an instruction with two constants.
`FewPlacesMissed` is its core: from whatever place `rand()` has the search begin, also one
where a block sticks out, the loop visits all places but one or two. Both numbers occur: in
the program that fills the memory of `compile` there are states with -1 and two places left.

The second half of the module is about symbols. `SymInv` joins `IInv` and relates three things: the symbols,
the lines that declare them (`Declared`, `HasLine`, `OneProc`, `Placed`), and the
instructions that refer to them (`LinksOK`, `OneTarget`, `Targeted`, `LabelOrigin`). Its
heart is `PendingIsFresh`: a symbol that is pending has no instruction behind its line
yet, so that the next one, which goes to `pStart`, is the one it has to point to; and
`Placed` says that one that is not pending keeps the place it was given. It holds as long
as the source is not refused; `ImageOK` carries it through the resolution of the links
into the image. Theorems: `EntryIsFirstOfMain` and `OperandsAreResolved`.

*VxCpuProofs.* Of `VxLines`. Assumed: the powers of two up to the width of a word are positive and
double (`PowerAssumption`; the exponent has no rules in the provers), and what a line may
be (`LinesAssumption`). `JumpsFollowComparison` rests on the invariant `FlagsInv`: the
flags are those of the last comparison. Each of the other handlers leaves them
(`OutcomesKeep`), and a word that fits is itself after wrapping (`WrapsWord`).
`EncodingHidden` compares two whole machines, for any two sets of reversed operations and
any two random fillers: `EncodedAlike` says that `MakeInstruction` leaves the constants
where `m_order` looks for them, `SameOutcomes` that each handler reads nothing else of
the encoding. It holds in every state, not only in the reachable ones.

Of `VxMachine`, for every program: nothing is assumed of `Code` but that it consists of
instructions, nor of where control goes. `MachineTyped` says that `MachineTypeOK` is
inductive: registers are words, memory is bytes. It goes through the 27 handlers
(`OperationsTyped` to `CrthTyped`, joined in `OutcomesTyped`), each of which builds its
result from a few operators that keep a machine a machine (`Changes`, `AssignType`,
`StackTypes`). What a recursive function yields (the word that `Load` sums up, the bits of
`BitByBit`, the pushes of `ForcePushAll`) has its type by `Up`, which stands in for
induction, and exists by `ChainExists`. `MachineIsScheduler` says that the machine
implements `VxThreads` when all that is told apart of an ip is whether it is -1, a
`crth` or anything else (`Sort`), and when each may lead to any: a round that ends in an
exception is a stutter, a byte that is no instruction a plain instruction that stays.
`OutcomesTyped` says why a `crth` is one in both: no other handler creates a thread, and
`crth` does so or faults. So the lemmas of `VxThreadsProofs`, which are about `Safety`
(the specification without its fairness), hold of the machine: `MachineKeepsPool`,
`MachineRetiresForGood`, `MachineRetiredIdle`, `MachineWaitBounded`. This is not the
refinement that `FollowsFlow` checks, in which control also keeps to the flow graph of
the sample program. `DivisionTruncates` is about `div` alone: where it does not trap its
quotient needs no wrapping and truncates; `machine_threads` shows it in a program.

*VxImportsProofs.* Assumed: what is said of `VxImports` above, and nothing of what a
function returns. `TableInv` describes the footer by two functions, the line `own[k]` that
made import `k` and the place `off[k]` where its record begins: records follow each other
without a gap (`Offsets`, `Records`), the byte 255 is at their two ends and nowhere else
(`Marks`), and the index in each instruction is that of a record whose function and count
are those of its line and whose module ends as the line's does (`Resolves`). The key is
`HitIsTail`: where `IatContains` finds its bytes, they begin inside a module's name, with
two marks for each record before and one more; so half the marks, rounded down, is the
number of the record. `StringIs` and
`AppendedIs` carry this through the loader, whose list is the records in order (`Loads`,
`Linked`). `HandlerInv` says for each part of `NatvHandler` what lies on the host's stack
above `Frame`: the parameters passed so far (`Pushes`), the saved registers (`Saves`), and
what the function has left (`Cleans`). `IInv`, their conjunction, is `ImportsInvariant`; it
was model-checked before it was proved. Theorems: `ParserStaysAligned`, `NatvCallsRight`,
`StacksStayBalanced`, `ParametersArrive`.

*VxHostProofs.* `HostInv` says, for each pair of places that `main` and `RealThread` can
be in, what the dispatcher holds, whether `CheckDebug` is armed and who has entered the
machine, in three phases: set up by main alone, patching with `CheckDebug` disarmed,
and waiting. Theorems: `DispatcherNeverZeroed`, `DebuggerKeepsOut`, `MainWaitsForReal`,
and the action properties `DivertedInSetup` and `EndedByRace`.

*VxHooksProofs.* `LastPatchWins`. `LastPatchDecides` says where control lands; the
invariant `HookInv` says which bytes are at the start of each function whatever earlier
patches left behind them (after `DetourTramp`, none in particular), and that its last byte
is still the `ret` that bounds `GetFuncSize`. The arithmetic is in `GoesTo` (a distance, cut to a word, leads back to
where it was measured) and `WordOfBytes`.

*NestedProofs.* Assumed: what is said of `Nested` above. The generated function is the
chain of inverse operations in reverse order, and it works on 32 bits where the macro cuts
to a byte after each operation. `LayerUndone` says that it gives back each byte whatever
the algorithm: `Mirrored` pairs the k-th inverse from the end with the k-th operation, and
`OperationUndone` says that one pair cancels on the low byte, whatever carries and borrows
the high bits hold; for `xor` it rests on `XorUndone`, which takes two bytes apart into
binary digits (`DigitsFound`, `XorOf`). A chain is a recursive function, and the provers
have no induction scheme they could instantiate; so each step is one of a set of numbers
that holds 0 and is closed under successor, and `Up` shows from the least element of the
complement that such a set is everything. The other half is about the file: `EntryFound`,
`WordsFound`, `DataFound` and `FunctionFound` follow the unsigned differences by which the
solver picks sections, and `LengthBound` bounds the function by 0x70 bytes, the longest
forms of all operands included. `NestedInv` says that each layer was made by one algorithm
from the file of the level below and that none is taken off before all are made; it was
model-checked before it was proved. Theorems: `BatchIsOrdered`, `FunctionCopiedWhole`, and the
action property `DumpTakesOneLayerOff`.

Only model-checked: all liveness (`NoStarvation`, `EndsOrHoldsNobody`, `GenerationEnds`,
`ProcessEnds`, `FlagComesOut`), which is beyond TLAPS with fairness; the properties of
`VxMachine` and `MCVxMachine`, which are about the sample programs they run: that a stack
stays balanced (`BalancedAtReturn`, `OwnStack`) and that control keeps to a flow graph
(`FollowsFlow`) is not true of every program, since any may write to r7 or push and return.

## 6. Not modelled

* XorStr (`XorStr.h`): each string is decrypted, used and encrypted again by one thread; a
  call of `ToggleEncryption` is its own inverse, and nothing is left that could go wrong.
* `SSValue` (`ObfuCompiler/stdafx.h`) and `WriteEscapedString`: the splitting of lines and
  the bytes of strings are data; the models take the terms and sizes they yield.
* `gen_fasm_decrypt_code` (`polygen.py`), which nothing calls; `pe_file`'s methods that
  `nested_dump` does not call.
* `rop_fun`, `ransom`, `Easy`, `Xor`, `simple_rop`, `bad_buffer`: no state of their own, or
  behaviour that is meant to be broken. `dirent.h` is third-party code.
* The anti-debug block in `ExecuteInstruction` (`VxAsm.h` 1529-1545), an interrupt whose
  exception handler sets a local variable: without a debugger it changes nothing else.
* In `NatvHandler`, a library or function that cannot be loaded: its address would be null,
  and the call an exception. The models take each import to be there.
* In Nested, files of no or very few bytes: the layers are executables of some kilobytes.
  `ImportSize` is one constant, 78 bytes; the alignment behind
  code of another length allows a second value, which the model leaves out.
* Vendored, generated and binary files.

## 7. Plan

Models and runs are complete. A proof that is left: `OwnStack` and `BalancedAtReturn` of
`VxMachine` for every program that keeps to its stack. It needs a hypothesis on `Code`
that the assembler does not check (each procedure pops what it pushed before its `ret`,
and stores through pointers stay out of the stacks) and an invariant that relates each
thread's stack pointer to its calls.
