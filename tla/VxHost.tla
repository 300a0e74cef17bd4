------------------------------- MODULE VxHost -------------------------------
(***************************************************************************)
(* The process that runs the virtual machine (Vx.cpp, with CheckDebug of   *)
(* stdafx.h).  main patches the exception dispatcher so that the next      *)
(* exception goes to pDecrypt, starts RealThread, which reads address 0,   *)
(* and waits.  pDecrypt is BeginExecution, unless a debugger was seen: the *)
(* virtual machine runs in place of an exception handler.  SetupRuntime    *)
(* then puts the dispatcher back.                                          *)
(*                                                                         *)
(* Two operating system threads run this without locks.  In a build        *)
(* without TESTING both of them raise exceptions in CheckDebug.            *)
(***************************************************************************)
EXTENDS Integers

CONSTANTS Builds,       \* which builds: TRUE is one with TESTING
          MaxTicks      \* bound: how often Tick calls CheckDebug

ASSUME BuildsAssumption == Builds \subseteq BOOLEAN

Threads == {"main", "real"}

VARIABLES testing, debugger, files,     \* the build, and what surrounds the process
          pc,           \* where each thread is
          check,        \* where each thread is in CheckDebug: "none", "flag",
                        \* "trap", "test"
          g_bExcep, g_dwFlag,
          dispatcher,   \* "original", "patched", "torn" in between
          saved,        \* oKiUsr holds the dispatcher's bytes
          pDecrypt,     \* "exit" or "BeginExecution"
          dwActiveThreads,
          ticks,
          entries,      \* auxiliary: the threads that entered BeginExecution
          disturbed,    \* auxiliary: g_bExcep was cleared by the other thread
                        \* since this one cleared it
          outcome       \* "running", or how the process ended

environment == <<testing, debugger, files>>
hook == <<dispatcher, saved, pDecrypt>>
checking == <<check, g_bExcep, disturbed>>
vars == <<environment, pc, checking, g_dwFlag, hook, dwActiveThreads, ticks, entries, outcome>>

Other(t) == IF t = "main" THEN "real" ELSE "main"

\* The second thread to enter BeginExecution replaces the manager under the
\* first; what follows is outside this model.
Twice == entries = Threads
Running == outcome = "running" /\ ~Twice

At(t, where) == Running /\ pc[t] = where /\ check[t] = "none"
Goto(t, where) == pc' = [pc EXCEPT ![t] = where]

End(how) == outcome' = how
----------------------------------------------------------------------------
(* Exceptions and CheckDebug *)

\* Thread t enters the dispatcher as it is now: an exception is handled, goes
\* to pDecrypt, or meets half an instruction.
Diverted(t) ==
    CASE dispatcher = "patched" /\ pDecrypt = "BeginExecution" ->
             /\ Goto(t, "setFlag")
             /\ entries' = entries \cup {t}
             /\ UNCHANGED outcome
      [] dispatcher = "patched" /\ pDecrypt = "exit" ->
             /\ End("exit_F0FF")
             /\ UNCHANGED <<pc, entries>>
      [] dispatcher = "torn" ->
             /\ End("crashed")
             /\ UNCHANGED <<pc, entries>>

\* The places where a thread calls CheckDebug, and where it goes on.
Checks == [t \in Threads |-> IF t = "main" THEN {"check1", "check2", "check3", "wait"} ELSE {"tick"}]

\* CheckDebug does nothing in a build with TESTING.
BeginCheck(t) ==
    /\ ~testing
    /\ pc[t] \in Checks[t]
    /\ At(t, pc[t])
    /\ check' = [check EXCEPT ![t] = "flag"]
    /\ g_bExcep' = FALSE
    /\ disturbed' = [disturbed EXCEPT ![t] = FALSE, ![Other(t)] = TRUE]
    /\ UNCHANGED <<environment, pc, g_dwFlag, hook, dwActiveThreads, ticks, entries, outcome>>

\* What comes behind the check.
After(t) ==
    CASE pc[t] = "check1" -> "check2"
      [] pc[t] = "check2" -> "check3"
      [] pc[t] = "check3" -> "protect"
      [] pc[t] = "wait" -> "again"
      [] pc[t] = "tick" -> "dispatch"

TestFlag(t) ==
    /\ Running
    /\ check[t] = "flag"
    /\ check' = [check EXCEPT ![t] = IF g_dwFlag THEN "trap" ELSE "none"]
    /\ IF g_dwFlag THEN UNCHANGED pc ELSE Goto(t, After(t))
    /\ UNCHANGED <<environment, g_bExcep, disturbed, g_dwFlag, hook, dwActiveThreads, ticks,
                   entries, outcome>>

\* SetTrapFlag raises a single step, which a debugger takes for itself.
Trap(t) ==
    /\ Running
    /\ check[t] = "trap"
    /\ IF debugger
       THEN /\ check' = [check EXCEPT ![t] = "test"]
            /\ UNCHANGED <<g_bExcep, pc, entries, outcome>>
       ELSE IF dispatcher = "original"
            THEN /\ check' = [check EXCEPT ![t] = "test"]
                 /\ g_bExcep' = TRUE
                 /\ UNCHANGED <<pc, entries, outcome>>
            ELSE /\ check' = [check EXCEPT ![t] = "none"]
                 /\ Diverted(t)
                 /\ UNCHANGED g_bExcep
    /\ UNCHANGED <<environment, disturbed, g_dwFlag, hook, dwActiveThreads, ticks>>

\* Mutant: the exception is taken for the sign of a debugger.
TestExceptionInverted(t) ==
    /\ Running
    /\ check[t] = "test"
    /\ check' = [check EXCEPT ![t] = "none"]
    /\ IF g_bExcep \/ debugger THEN End("exit_F0FFBABE") /\ UNCHANGED pc
       ELSE Goto(t, After(t)) /\ UNCHANGED outcome
    /\ UNCHANGED <<environment, g_bExcep, disturbed, g_dwFlag, hook, dwActiveThreads, ticks, entries>>

TestException(t) ==
    /\ Running
    /\ check[t] = "test"
    /\ check' = [check EXCEPT ![t] = "none"]
    /\ IF ~g_bExcep \/ debugger THEN End("exit_F0FFBABE") /\ UNCHANGED pc
       ELSE Goto(t, After(t)) /\ UNCHANGED outcome
    /\ UNCHANGED <<environment, g_bExcep, disturbed, g_dwFlag, hook, dwActiveThreads, ticks, entries>>

\* A place of CheckDebug in a build with TESTING.
NoCheck(t) ==
    /\ testing
    /\ pc[t] \in Checks[t]
    /\ At(t, pc[t])
    /\ Goto(t, After(t))
    /\ UNCHANGED <<environment, checking, g_dwFlag, hook, dwActiveThreads, ticks, entries, outcome>>
----------------------------------------------------------------------------
(* main *)

\* Mutant: CheckDebug stays armed.
ProtectArmed ==
    /\ At("main", "protect")
    /\ saved' = TRUE
    /\ Goto("main", "patch")
    /\ UNCHANGED <<environment, checking, g_dwFlag, dispatcher, pDecrypt, dwActiveThreads, ticks,
                   entries, outcome>>

\* Mutant: the bytes are not saved.
ProtectUnsaved ==
    /\ At("main", "protect")
    /\ g_dwFlag' = FALSE
    /\ Goto("main", "patch")
    /\ UNCHANGED <<environment, checking, saved, dispatcher, pDecrypt, dwActiveThreads, ticks,
                   entries, outcome>>

\* IntializeProtection up to g_dwFlag = 0: the bytes are saved.  A debugger that
\* is stepping makes it jump to address 0.
Protect ==
    /\ At("main", "protect")
    /\ \/ /\ saved' = TRUE
          /\ g_dwFlag' = FALSE
          /\ Goto("main", "patch")
          /\ UNCHANGED outcome
       \/ debugger /\ End("crashed") /\ UNCHANGED <<saved, g_dwFlag, pc>>
    /\ UNCHANGED <<environment, checking, dispatcher, pDecrypt, dwActiveThreads, ticks, entries>>

\* The opcode of the jump, and its operand.
Patch ==
    /\ At("main", "patch") \/ At("main", "patch2")
    /\ dispatcher' = IF pc["main"] = "patch" THEN "torn" ELSE "patched"
    /\ Goto("main", IF pc["main"] = "patch" THEN "patch2" ELSE "gate")
    /\ UNCHANGED <<environment, checking, g_dwFlag, saved, pDecrypt, dwActiveThreads, ticks, entries, outcome>>

\* Mutant: the branch is inverted.
GateInverted ==
    /\ At("main", "gate")
    /\ pDecrypt' = IF debugger THEN "BeginExecution" ELSE "exit"
    /\ Goto("main", "activate")
    /\ UNCHANGED <<environment, checking, g_dwFlag, dispatcher, saved, dwActiveThreads, ticks, entries, outcome>>

\* BeingDebugged is read twice from the environment block.
Gate ==
    /\ At("main", "gate")
    /\ pDecrypt' = IF debugger THEN "exit" ELSE "BeginExecution"
    /\ Goto("main", "activate")
    /\ UNCHANGED <<environment, checking, g_dwFlag, dispatcher, saved, dwActiveThreads, ticks, entries, outcome>>

\* Mutant: the thread is created before its bit is set.
InitThreadLate ==
    /\ At("main", "activate") \/ At("main", "create")
    /\ IF pc["main"] = "create"
       THEN dwActiveThreads' = TRUE /\ Goto("main", "wait0")
       ELSE pc' = [pc EXCEPT !["main"] = "create", !["real"] = "fault"] /\ UNCHANGED dwActiveThreads
    /\ UNCHANGED <<environment, checking, g_dwFlag, hook, ticks, entries, outcome>>

\* init_thread: the bit of the thread is set, then the thread is created.
InitThread ==
    /\ At("main", "activate") \/ At("main", "create")
    /\ IF pc["main"] = "activate"
       THEN dwActiveThreads' = TRUE /\ Goto("main", "create")
       ELSE pc' = [pc EXCEPT !["main"] = "wait0", !["real"] = "fault"] /\ UNCHANGED dwActiveThreads
    /\ UNCHANGED <<environment, checking, g_dwFlag, hook, ticks, entries, outcome>>

\* while (dwActiveThreads) CheckDebug(); and then exit(0).
Wait ==
    /\ At("main", "wait0") \/ At("main", "again")
    /\ IF dwActiveThreads THEN Goto("main", "wait") /\ UNCHANGED outcome
       ELSE Goto("main", "done") /\ End("exit_0")
    /\ UNCHANGED <<environment, checking, g_dwFlag, hook, dwActiveThreads, ticks, entries>>
----------------------------------------------------------------------------
(* RealThread, and BeginExecution on whichever thread enters it *)

\* push dword ptr ds:[0].
ReadNull ==
    /\ At("real", "fault")
    /\ IF dispatcher = "original" THEN End("crashed") /\ UNCHANGED <<pc, entries>>
       ELSE Diverted("real")
    /\ UNCHANGED <<environment, checking, g_dwFlag, hook, dwActiveThreads, ticks>>

SetFlag(t) ==
    /\ At(t, "setFlag")
    /\ g_dwFlag' = TRUE
    /\ Goto(t, "restore")
    /\ UNCHANGED <<environment, checking, hook, dwActiveThreads, ticks, entries, outcome>>

\* memcpy(pKiUsr, oKiUsr, 6), which takes two moves; oKiUsr is zero before the
\* dispatcher is saved.
Restore(t) ==
    /\ At(t, "restore") \/ At(t, "restore2")
    /\ dispatcher' = CASE pc[t] = "restore" -> "torn"
                        [] pc[t] = "restore2" /\ saved -> "original"
                        [] OTHER -> "zeros"
    /\ Goto(t, IF pc[t] = "restore" THEN "restore2" ELSE "load")
    /\ UNCHANGED <<environment, checking, g_dwFlag, saved, pDecrypt, dwActiveThreads, ticks, entries, outcome>>

\* Mutant: the bit is cleared when the machine is loaded.
LoadFilesInactive(t) ==
    /\ At(t, "load")
    /\ dwActiveThreads' = FALSE
    /\ IF files THEN Goto(t, "dispatch") /\ UNCHANGED outcome
       ELSE End("exit_1") /\ UNCHANGED pc
    /\ UNCHANGED <<environment, checking, g_dwFlag, hook, ticks, entries>>

\* Without Vx.bin or Vx.inst the process exits.
LoadFiles(t) ==
    /\ At(t, "load")
    /\ IF files THEN Goto(t, "dispatch") /\ UNCHANGED outcome
       ELSE End("exit_1") /\ UNCHANGED pc
    /\ UNCHANGED <<environment, checking, g_dwFlag, hook, dwActiveThreads, ticks, entries>>

\* The run loop: a Tick, with CheckDebug in it, as long as threads are active.
RunLoop(t) ==
    /\ At(t, "dispatch")
    /\ \/ ticks < MaxTicks /\ ticks' = ticks + 1 /\ Goto(t, "tick")
       \/ Goto(t, "jumpOut") /\ UNCHANGED ticks
    /\ UNCHANGED <<environment, checking, g_dwFlag, hook, dwActiveThreads, entries, outcome>>

\* JumpOut clears the bit and ends its thread.
JumpOut(t) ==
    /\ At(t, "jumpOut")
    /\ dwActiveThreads' = FALSE
    /\ Goto(t, "ended")
    /\ UNCHANGED <<environment, checking, g_dwFlag, hook, ticks, entries, outcome>>
----------------------------------------------------------------------------
Virtual(t) == SetFlag(t) \/ Restore(t) \/ LoadFiles(t) \/ RunLoop(t) \/ JumpOut(t)
Check(t) == BeginCheck(t) \/ TestFlag(t) \/ Trap(t) \/ TestException(t) \/ NoCheck(t)

Main == Protect \/ Patch \/ Gate \/ InitThread \/ Wait \/ Check("main")
Real == ReadNull \/ Virtual("real") \/ Check("real")

Init ==
    /\ testing \in Builds /\ debugger \in BOOLEAN /\ files \in BOOLEAN
    /\ pc = [main |-> "check1", real |-> "none"]
    /\ check = [t \in Threads |-> "none"]
    /\ g_bExcep = FALSE /\ g_dwFlag = TRUE
    /\ dispatcher = "original" /\ saved = FALSE /\ pDecrypt = "exit"
    /\ dwActiveThreads = FALSE /\ ticks = 0
    /\ entries = {} /\ disturbed = [t \in Threads |-> FALSE]
    /\ outcome = "running"

Next == Main \/ Real

\* The operating system runs both threads.
Spec == Init /\ [][Next]_vars /\ WF_vars(Main) /\ WF_vars(Real)
----------------------------------------------------------------------------
\* SetupRuntime never writes the zeros that oKiUsr holds before the dispatcher
\* is saved, and nobody enters the dispatcher to find them.
NeverZeroed == dispatcher # "zeros"

\* A debugger that is there when main looks keeps the virtual machine from
\* being entered, by whatever thread.
NotUnderDebugger == debugger => entries = {}

\* main does not end the process before RealThread has left the machine.
MainWaits == outcome = "exit_0" => pc["real"] = "ended"

\* An exception of CheckDebug meets a dispatcher that is not its own only while
\* SetupRuntime is between arming CheckDebug and putting the last byte back.
DivertedOnlyInSetup ==
    [][\A t \in Threads :
          check[t] = "trap" /\ ~debugger /\ dispatcher # "original" =>
              pc[Other(t)] \in {"restore", "restore2"}]_vars

\* Without a debugger CheckDebug ends the process only when the other thread
\* began a CheckDebug of its own between the clearing and the test of the flag
\* that both of them use.
EndedOnlyByRace ==
    [][\A t \in Threads :
          check[t] = "test" /\ check'[t] = "none" /\ outcome' = "exit_F0FFBABE" /\ ~debugger =>
              disturbed[t]]_vars

\* Whatever is found and however the threads interleave, the process ends,
\* unless the virtual machine is entered twice.
ProcessEnds == <>(outcome # "running" \/ Twice)
=============================================================================
