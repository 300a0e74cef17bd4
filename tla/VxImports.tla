------------------------------ MODULE VxImports ------------------------------
(***************************************************************************)
(* The way of an import: natv lines append to vecIAT (VxIat), the bytes    *)
(* are written behind the image, BeginExecution parses them into a linked  *)
(* list, and NatvHandler walks that list to the index in its instruction   *)
(* and calls what it finds, on the stack of the host.                      *)
(*                                                                         *)
(* Stacks are sequences with the top first.  A called function finds its   *)
(* arguments where its calling convention says and removes what it has to. *)
(***************************************************************************)
EXTENDS VxIat

CONSTANTS Sources,      \* programs: sequences of natv lines
                        \* [mod, func, conv, params]
          VmStacks,     \* the parameters that a program may have pushed
          Results,      \* what a function may return
          SavedEcx, SavedEdx,   \* what the registers hold in NatvHandler
          Frame,        \* what lies on the host's stack before
          MaxCalls      \* bound: how many natv are executed

\* Names are words of a source, without the byte that marks a record; an unknown
\* convention or a parameter count of 255 would look like marks.
Names == Seq(1..254) \ {<<>>}
NatvLines == [mod : Names, func : Names, conv : {Conventions[k] : k \in 1..3}, params : 0..254]
ASSUME SourcesAssumption == Sources \subseteq Seq(NatvLines)

\* A program has pushed what the functions take.
ASSUME StacksAssumption ==
    /\ Frame \in Seq(Int) /\ VmStacks \subseteq Seq(Int) /\ {SavedEcx, SavedEdx} \subseteq Int
    /\ \A s \in VmStacks : \A p \in Sources : \A l \in DOMAIN p : p[l].params <= Len(s)

VARIABLES phase,        \* "assemble", "load", "ready", and inside NatvHandler:
                        \* "walk", "push", "save", "call", "clean"
          source,
          vecIAT, iImports,
          args0,        \* the index in the instruction of each line
          iNumIter,     \* how much of the footer is parsed
          imports,      \* the list: [mod, func, params, callType, next]
          natv,         \* the line whose instruction is executed
          pTrain, iNumImp,
          i, ecx, edx, iEcx, iEdx,
          stack,        \* the host's stack, from NatvHandler's frame
          vmStack, r0,  \* of the CPU
          pushed,       \* auxiliary: vmStack when natv began
          received,     \* auxiliary: the arguments that the function found
          calls

assembling == <<source, vecIAT, iImports, args0>>
loading == <<iNumIter, imports>>
calling == <<natv, pTrain, iNumImp, i, ecx, edx, iEcx, iEdx, stack, vmStack, r0, pushed,
             received, calls>>
vars == <<phase, assembling, loading, calling>>

Drop(s, n) == SubSeq(s, n + 1, Len(s))
First(s, n) == SubSeq(s, 1, n)
----------------------------------------------------------------------------
(* The assembler *)

\* The natv case of WriteInstruction for the next line.
Assemble ==
    /\ phase = "assemble"
    /\ Len(args0) < Len(source)
    /\ LET l == source[Len(args0) + 1]
           iRes == IatContains(vecIAT, l.mod, l.func, l.params)
       IN  IF iRes = -1
           THEN /\ vecIAT' = vecIAT \o Entry(l.mod, l.func, l.params, GetCallingConvention(l.conv))
                /\ iImports' = iImports + 1
                /\ args0' = Append(args0, iImports)
           ELSE /\ args0' = Append(args0, iRes)
                /\ UNCHANGED <<vecIAT, iImports>>
    /\ UNCHANGED <<phase, source, loading, calling>>

Write ==
    /\ phase = "assemble"
    /\ Len(args0) = Len(source)
    /\ phase' = "load"
    /\ UNCHANGED <<assembling, loading, calling>>
----------------------------------------------------------------------------
(* The loader *)

\* The string behind byte k of the footer (bytes are counted from 0 in the code).
StringBehind(k) ==
    LET end == CHOOSE e \in (k + 2)..Len(vecIAT) :
                  vecIAT[e] = 0 /\ \A j \in (k + 2)..(e - 1) : vecIAT[j] # 0
    IN  SubSeq(vecIAT, k + 2, end - 1)

WordBehind(k) == vecIAT[k + 2] + 256 * vecIAT[k + 3]

\* The first import is linked behind itself, until a second one takes its place.
Appended(import) ==
    LET k == Len(imports) + 1
        pBase == IF k = 1 THEN 1 ELSE k - 1
    IN  [Append(imports, import) EXCEPT ![pBase].next = k]

\* Mutant: the mark behind a record is not skipped.
ParseFive ==
    /\ phase = "load"
    /\ iNumIter < Len(vecIAT)
    /\ LET szModule == StringBehind(iNumIter)
           atFunc == iNumIter + Len(szModule) + 1
           szFunc == StringBehind(atFunc)
           atParams == atFunc + Len(szFunc) + 1
       IN  /\ iNumIter' = atParams + 5
           /\ imports' = Appended([mod |-> szModule, func |-> szFunc,
                                   params |-> WordBehind(atParams),
                                   callType |-> WordBehind(atParams + 2), next |-> 0])
    /\ UNCHANGED <<phase, assembling, calling>>

\* One round of the loop: two strings, two words, a zero and a mark.
Parse ==
    /\ phase = "load"
    /\ iNumIter < Len(vecIAT)
    /\ LET szModule == StringBehind(iNumIter)
           atFunc == iNumIter + Len(szModule) + 1
           szFunc == StringBehind(atFunc)
           atParams == atFunc + Len(szFunc) + 1
       IN  /\ iNumIter' = atParams + 6
           /\ imports' = Appended([mod |-> szModule, func |-> szFunc,
                                   params |-> WordBehind(atParams),
                                   callType |-> WordBehind(atParams + 2), next |-> 0])
    /\ UNCHANGED <<phase, assembling, calling>>

Loaded ==
    /\ phase = "load"
    /\ iNumIter >= Len(vecIAT)
    /\ phase' = "ready"
    /\ UNCHANGED <<assembling, loading, calling>>
----------------------------------------------------------------------------
(* NatvHandler *)

\* Some natv instruction of the program is executed.
Natv ==
    /\ phase = "ready"
    /\ calls < MaxCalls
    /\ calls' = calls + 1
    /\ natv' \in DOMAIN source
    /\ vmStack' \in VmStacks
    /\ pushed' = vmStack'
    /\ pTrain' = 1
    /\ iNumImp' = 0
    /\ i' = 0
    /\ iEcx' = 0
    /\ iEdx' = 0
    /\ received' = <<>>
    /\ phase' = "walk"
    /\ UNCHANGED <<assembling, loading, ecx, edx, stack, r0>>

Walk ==
    /\ phase = "walk"
    /\ IF iNumImp < args0[natv] /\ imports[pTrain].next # 0
       THEN /\ pTrain' = imports[pTrain].next
            /\ iNumImp' = iNumImp + 1
            /\ UNCHANGED phase
       ELSE /\ phase' = IF iNumImp = args0[natv] THEN "push" ELSE "ready"
            /\ UNCHANGED <<pTrain, iNumImp>>
    /\ UNCHANGED <<assembling, loading, natv, i, ecx, edx, iEcx, iEdx, stack, vmStack, r0,
                   pushed, received, calls>>

Import == imports[pTrain]

\* Mutant: the parameters are taken from the top down.
ParameterFromTop(k) == vmStack[k + 1]

\* The k-th parameter to be passed is the one pushed first of those left.
Parameter(k) == vmStack[Import.params - k]

\* One round of the loop over the parameters, and then r7 moves over them.
\* fastcall takes the first two in registers.
Push ==
    /\ phase = "push"
    /\ IF i < Import.params
       THEN /\ i' = i + 1
            /\ iEcx' = IF Import.callType > 1 /\ i = 0 THEN Parameter(i) ELSE iEcx
            /\ iEdx' = IF Import.callType > 1 /\ i = 1 THEN Parameter(i) ELSE iEdx
            /\ stack' = IF Import.callType > 1 /\ i <= 1 THEN stack ELSE <<Parameter(i)>> \o stack
            /\ UNCHANGED <<phase, vmStack>>
       ELSE /\ vmStack' = Drop(vmStack, i)
            /\ phase' = "save"
            /\ UNCHANGED <<i, iEcx, iEdx, stack>>
    /\ UNCHANGED <<assembling, loading, natv, pTrain, iNumImp, ecx, edx, r0, pushed, received,
                   calls>>

Save ==
    /\ phase = "save"
    /\ phase' = "call"
    /\ IF Import.callType > 1
       THEN /\ stack' = <<edx, ecx>> \o stack
            /\ ecx' = iEcx
            /\ edx' = iEdx
       ELSE UNCHANGED <<stack, ecx, edx>>
    /\ UNCHANGED <<assembling, loading, natv, pTrain, iNumImp, i, iEcx, iEdx, vmStack, r0,
                   pushed, received, calls>>

\* How many of n parameters are on the stack, and which the function removes.
OnStack(callType, n) == IF callType > 1 THEN (IF n > 2 THEN n - 2 ELSE 0) ELSE n
Removes(callType, n) == IF callType = 0 THEN 0 ELSE OnStack(callType, n)

\* The function: its arguments are in ecx, edx and on the stack for fastcall.
Call ==
    /\ phase = "call"
    /\ LET n == Import.params
           onStack == First(stack, OnStack(Import.callType, n))
       IN  /\ received' = IF Import.callType > 1
                          THEN First(<<ecx, edx>>, IF n > 2 THEN 2 ELSE n) \o onStack
                          ELSE onStack
           /\ stack' = Drop(stack, Removes(Import.callType, n))
    /\ r0' \in Results
    /\ phase' = "clean"
    /\ UNCHANGED <<assembling, loading, natv, pTrain, iNumImp, i, ecx, edx, iEcx, iEdx,
                   vmStack, pushed, calls>>

\* Mutant: the caller removes the arguments of stdcall, too.
CleanTwice ==
    /\ phase = "clean"
    /\ phase' = "ready"
    /\ CASE Import.callType <= 1 ->
              stack' = Drop(stack, i) /\ UNCHANGED <<ecx, edx>>
         [] OTHER ->
              edx' = stack[1] /\ ecx' = stack[2] /\ stack' = Drop(stack, 2)
    /\ UNCHANGED <<assembling, loading, natv, pTrain, iNumImp, i, iEcx, iEdx, vmStack, r0,
                   pushed, received, calls>>

\* cdecl: the caller removes the arguments; fastcall: pop edx, pop ecx.
Clean ==
    /\ phase = "clean"
    /\ phase' = "ready"
    /\ CASE Import.callType = 0 ->
              stack' = Drop(stack, i) /\ UNCHANGED <<ecx, edx>>
         [] Import.callType > 1 ->
              edx' = stack[1] /\ ecx' = stack[2] /\ stack' = Drop(stack, 2)
         [] OTHER -> UNCHANGED <<stack, ecx, edx>>
    /\ UNCHANGED <<assembling, loading, natv, pTrain, iNumImp, i, iEcx, iEdx, vmStack, r0,
                   pushed, received, calls>>
----------------------------------------------------------------------------
Init ==
    /\ phase = "assemble"
    /\ source \in Sources
    /\ vecIAT = <<>> /\ iImports = 0 /\ args0 = <<>>
    /\ iNumIter = 0 /\ imports = <<>>
    /\ natv = 0 /\ pTrain = 1 /\ iNumImp = 0 /\ i = 0
    /\ ecx = SavedEcx /\ edx = SavedEdx /\ iEcx = 0 /\ iEdx = 0
    /\ stack = Frame /\ vmStack = <<>> /\ r0 = 0 /\ pushed = <<>> /\ received = <<>>
    /\ calls = 0

Next == Assemble \/ Write \/ Parse \/ Loaded \/ Natv \/ Walk \/ Push \/ Save \/ Call \/ Clean

\* The two programs are sequential; how many natv follow is the program's choice.
Spec == Init /\ [][Next]_vars
             /\ WF_vars(Assemble \/ Write \/ Parse \/ Loaded \/ Walk \/ Push \/ Save \/ Call \/ Clean)
----------------------------------------------------------------------------
Line == source[natv]
InHandler == phase \in {"push", "save", "call", "clean"}

\* The parser is always at the mark that begins a record, or exactly behind the
\* last one, and it has read as many records as it made imports.
ParserAtRecord ==
    phase = "load" =>
        \/ iNumIter = Len(vecIAT) /\ Len(imports) = iImports
        \/ /\ iNumIter < Len(vecIAT)
           /\ vecIAT[iNumIter + 1] = 255
           /\ Cardinality({k \in 1..iNumIter : vecIAT[k] = 255}) = 2 * Len(imports)

EndsIn(s, tail) == Len(tail) <= Len(s) /\ Drop(s, Len(s) - Len(tail)) = tail

\* The line that a natv line shares its import with: the first with its
\* function and parameters whose module ends in its own, if that line's
\* convention is cdecl.
Shares(l, k) ==
    /\ source[k].func = source[l].func
    /\ source[k].params = source[l].params
    /\ source[k].conv = "cdecl"
    /\ EndsIn(source[k].mod, source[l].mod)

\* Over assembler, file and loader, natv calls the function of the module that
\* its line names, with as many parameters and by its convention, unless a line
\* above has imported that function as cdecl from a module whose name ends in
\* the line's: then it calls that one.  Its index is never behind the list's end.
NatvCallsItsImport ==
    /\ phase = "walk" /\ imports[pTrain].next = 0 => iNumImp = args0[natv]
    /\ InHandler =>
        \E k \in 1..natv :
            /\ k = natv \/ Shares(natv, k)
            /\ Import.mod = source[k].mod
            /\ Import.func = source[k].func
            /\ Import.params = source[k].params
            /\ Import.callType = GetCallingConvention(source[k].conv)

\* NatvHandler leaves the host's stack as it was, and takes the parameters, no
\* more, from the CPU's stack, under every convention: with more than two
\* parameters of fastcall the function removes the saved registers and the
\* handler the parameters, which comes to the same.  Until there is such a line
\* it restores the registers as well.
StacksBalanced ==
    phase = "ready" =>
        /\ stack = Frame
        /\ natv # 0 => vmStack = Drop(pushed, Line.params)
        /\ (\A l \in DOMAIN source : source[l].conv = "fastcall" => source[l].params <= 2)
              => ecx = SavedEcx /\ edx = SavedEdx

Reversed(s) == [k \in 1..Len(s) |-> s[Len(s) + 1 - k]]

\* The function finds the parameters: as first argument the one pushed last
\* under cdecl and stdcall, the one pushed first under fastcall, which has no
\* more than two here: the saved registers lie above the others.
ArgumentsArrive ==
    phase = "clean" =>
        LET n == Line.params
        IN  /\ Import.callType <= 1 => received = First(pushed, n)
            /\ Import.callType > 1 /\ n <= 2 => received = Reversed(First(pushed, n))
=============================================================================
