---------------------------- MODULE VxHostProofs ----------------------------
(***************************************************************************)
(* Proofs about VxHost, for every set of builds and every number of ticks. *)
(* HostInv says, for each place main and RealThread can be in, which bytes *)
(* the dispatcher holds, whether CheckDebug is armed, and who has entered  *)
(* the virtual machine; it is inductive, and the safety properties of the  *)
(* process follow from it.                                                 *)
(***************************************************************************)
EXTENDS VxHost, TLAPS

MainPlaces == {"check1", "check2", "check3", "protect", "patch", "patch2", "gate", "activate",
               "create", "wait0", "wait", "again", "done", "setFlag"}
RealPlaces == {"none", "fault", "setFlag", "restore", "restore2", "load", "dispatch", "tick",
               "jumpOut", "ended"}

HostType ==
    /\ testing \in BOOLEAN /\ debugger \in BOOLEAN /\ files \in BOOLEAN
    /\ pc \in [Threads -> MainPlaces \cup RealPlaces]
    /\ pc["main"] \in MainPlaces /\ pc["real"] \in RealPlaces
    /\ check \in [Threads -> {"none", "flag", "trap", "test"}]
    /\ g_bExcep \in BOOLEAN /\ g_dwFlag \in BOOLEAN /\ saved \in BOOLEAN
    /\ disturbed \in [Threads -> BOOLEAN]
    /\ dispatcher \in {"original", "torn", "patched"}
    /\ pDecrypt \in {"exit", "BeginExecution"}
    /\ dwActiveThreads \in BOOLEAN
    /\ entries \in SUBSET Threads
    /\ outcome \in {"running", "exit_0", "exit_1", "crashed", "exit_F0FF", "exit_F0FFBABE"}

\* What main has put in pDecrypt, once it has looked for a debugger.
Decided == pDecrypt = IF debugger THEN "exit" ELSE "BeginExecution"

\* Until the protection is set up nothing is patched, and main is alone.
InSetup ==
    pc["main"] \in {"check1", "check2", "check3", "protect"} =>
        /\ pc["real"] = "none" /\ entries = {}
        /\ dispatcher = "original" /\ g_dwFlag
        /\ pDecrypt = "exit" /\ ~dwActiveThreads

\* From the saving of the bytes to the creation of RealThread CheckDebug is
\* disarmed, and main is still alone.
InPatching ==
    pc["main"] \in {"patch", "patch2", "gate", "activate", "create"} =>
        /\ pc["real"] = "none" /\ entries = {}
        /\ saved /\ ~g_dwFlag
        /\ dispatcher = "original" <=> pc["main"] = "patch"
        /\ dispatcher = "torn" <=> pc["main"] = "patch2"
        /\ pc["main"] \in {"activate", "create"} => Decided
        /\ dwActiveThreads <=> pc["main"] = "create"

\* RealThread's place says how much of the patch is left.
InWaiting ==
    pc["main"] \in {"wait0", "wait", "again", "done", "setFlag"} =>
        /\ pc["real"] # "none" /\ saved /\ Decided
        /\ dwActiveThreads <=> pc["real"] # "ended"
        /\ pc["real"] = "fault" => entries = {}
        /\ pc["real"] # "fault" => "real" \in entries
        /\ g_dwFlag <=> pc["real"] \notin {"fault", "setFlag"}
        /\ ~g_dwFlag => check["main"] \in {"none", "flag"}
        /\ dispatcher = "patched" <=> pc["real"] \in {"fault", "setFlag", "restore"}
        /\ dispatcher = "torn" <=> pc["real"] = "restore2"

\* A thread is inside CheckDebug only where it calls it, and an exception of
\* its own that it no longer sees was wiped out by the other thread.
InChecks ==
    \A t \in Threads :
        /\ check[t] # "none" => pc[t] \in Checks[t]
        /\ check[t] = "test" /\ ~debugger /\ ~g_bExcep => disturbed[t]

HostInv ==
    /\ HostType
    /\ InSetup
    /\ InPatching
    /\ InWaiting
    /\ InChecks
    /\ debugger => entries = {}
    /\ pc["main"] = "setFlag" => entries = Threads
    /\ outcome = "exit_0" => pc["real"] = "ended"

----------------------------------------------------------------------------
\* Every step of either thread keeps the invariant.
LEMMA HostStep == HostInv /\ [Next]_vars => HostInv'
<1> SUFFICES ASSUME HostInv, [Next]_vars PROVE HostInv'
  OBVIOUS
<1> USE DEF HostInv, HostType, InSetup, InPatching, InWaiting, InChecks, Decided,
            At, Goto, End, Running, Twice, Threads, Checks, MainPlaces, RealPlaces, environment,
            hook, checking
<1>1. CASE Protect
  <2>1. CASE End("crashed") /\ UNCHANGED <<saved, g_dwFlag, pc>>
    BY <1>1, <2>1 DEF Protect
  <2>2. CASE saved' = TRUE /\ g_dwFlag' = FALSE /\ Goto("main", "patch") /\ UNCHANGED outcome
    BY <1>1, <2>2 DEF Protect
  <2> QED
    BY <1>1, <2>1, <2>2 DEF Protect
<1>2. CASE Patch
  BY <1>2 DEF Patch
<1>3. CASE Gate
  BY <1>3 DEF Gate
<1>4. CASE InitThread
  <2>1. CASE pc["main"] = "activate"
    BY <1>4, <2>1 DEF InitThread
  <2>2. CASE pc["main"] = "create"
    <3>1. pc'["main"] = "wait0" /\ pc'["real"] = "fault" /\ check["main"] = "none"
      BY <1>4, <2>2 DEF InitThread
    <3> QED
      BY <1>4, <2>2, <3>1 DEF InitThread
  <2> QED
    BY <1>4, <2>1, <2>2 DEF InitThread
<1>5. CASE Wait
  BY <1>5 DEF Wait
<1>6. CASE ReadNull
  <2>1. HostType'
    BY <1>6, ZenonT(30) DEF ReadNull, Diverted
  <2>2. InSetup' /\ InPatching'
    BY <1>6 DEF ReadNull, Diverted
  <2>3. InWaiting'
    BY <1>6, ZenonT(30) DEF ReadNull, Diverted
  <2>4. InChecks'
    BY <1>6 DEF ReadNull, Diverted
  <2>5. /\ (debugger => entries = {})'
        /\ (pc["main"] = "setFlag" => entries = Threads)'
        /\ (outcome = "exit_0" => pc["real"] = "ended")'
    BY <1>6 DEF ReadNull, Diverted
  <2> QED
    BY <2>1, <2>2, <2>3, <2>4, <2>5
<1>7. ASSUME NEW t \in Threads, SetFlag(t) PROVE HostInv'
  BY <1>7 DEF SetFlag
<1>8. ASSUME NEW t \in Threads, Restore(t) PROVE HostInv'
  BY <1>8 DEF Restore
<1>9. ASSUME NEW t \in Threads, LoadFiles(t) PROVE HostInv'
  BY <1>9 DEF LoadFiles
<1>10. ASSUME NEW t \in Threads, RunLoop(t) PROVE HostInv'
  BY <1>10 DEF RunLoop
<1>11. ASSUME NEW t \in Threads, JumpOut(t) PROVE HostInv'
  BY <1>11, ZenonT(30) DEF JumpOut
<1>12. ASSUME NEW t \in Threads, BeginCheck(t) PROVE HostInv'
  <2>1. /\ check'[t] = "flag" /\ check'[Other(t)] = check[Other(t)]
        /\ disturbed'[Other(t)]
    BY <1>12 DEF BeginCheck, Other
  <2>2. InChecks'
    BY <1>12, <2>1 DEF BeginCheck, Other
  <2>3. HostType' /\ UNCHANGED <<environment, pc, g_dwFlag, hook, dwActiveThreads, entries, outcome>>
    BY <1>12, <2>1, ZenonT(30) DEF BeginCheck, Other
  <2>4. g_dwFlag' = FALSE => check'["main"] \in {"none", "flag"}
    BY <1>12 DEF BeginCheck, Other
  <2> QED
    BY <2>2, <2>3, <2>4
<1>13. ASSUME NEW t \in Threads, TestFlag(t) PROVE HostInv'
  <2>1. CASE g_dwFlag
    BY <1>13, <2>1 DEF TestFlag
  <2>2. CASE ~g_dwFlag
    BY <1>13, <2>2 DEF TestFlag, After
  <2> QED
    BY <2>1, <2>2
<1>14. ASSUME NEW t \in Threads, Trap(t) PROVE HostInv'
  <2>1. CASE debugger \/ dispatcher = "original"
    <3>1. check' = [check EXCEPT ![t] = "test"] /\ (~debugger => g_bExcep')
      BY <1>14, <2>1 DEF Trap
    <3>2. HostType' /\ InChecks'
      BY <1>14, <2>1, <3>1, ZenonT(30) DEF Trap
    <3>3. g_dwFlag' = FALSE => check'["main"] \in {"none", "flag"}
      BY <1>14, <3>1 DEF Trap
    <3>4. UNCHANGED <<environment, pc, g_dwFlag, hook, dwActiveThreads, entries, outcome>>
      BY <1>14, <2>1 DEF Trap
    <3> QED
      BY <3>2, <3>3, <3>4
  <2>2. CASE ~debugger /\ dispatcher = "torn"
    BY <1>14, <2>2 DEF Trap, Diverted
  <2>3. CASE ~debugger /\ dispatcher = "patched"
    <3>1. t = "main" /\ pc[t] = "wait" /\ pDecrypt = "BeginExecution"
      BY <1>14, <2>3 DEF Trap
    <3>2. pc'[t] = "setFlag" /\ pc'["real"] = pc["real"] /\ entries' = entries \cup {t} /\ check'[t] = "none"
      BY <1>14, <2>3, <3>1 DEF Trap, Diverted
    <3> QED
      BY <1>14, <2>3, <3>1, <3>2 DEF Trap, Diverted
  <2> QED
    BY <2>1, <2>2, <2>3
<1>15. ASSUME NEW t \in Threads, TestException(t) PROVE HostInv'
  BY <1>15 DEF TestException, After
<1>16. ASSUME NEW t \in Threads, NoCheck(t) PROVE HostInv'
  BY <1>16 DEF NoCheck, After
<1>17. CASE UNCHANGED vars
  BY <1>17 DEF vars
<1> QED
  BY <1>1, <1>2, <1>3, <1>4, <1>5, <1>6, <1>7, <1>8, <1>9, <1>10, <1>11, <1>12, <1>13, <1>14,
     <1>15, <1>16, <1>17 DEF Next, Main, Real, Virtual, Check

\* The inductive invariant of the process holds in every reachable state.
THEOREM HostInvariant == Spec => []HostInv
<1>1. Init => HostInv
  <2> SUFFICES ASSUME Init PROVE HostInv
    OBVIOUS
  <2>1. /\ pc \in [Threads -> MainPlaces \cup RealPlaces]
        /\ pc["main"] = "check1" /\ pc["real"] = "none"
    BY DEF Init, Threads, MainPlaces, RealPlaces
  <2>2. /\ check \in [Threads -> {"none"}] /\ disturbed \in [Threads -> BOOLEAN]
        /\ \A t \in Threads : check[t] = "none"
    BY DEF Init, Threads
  <2> QED
    BY <2>1, <2>2, BuildsAssumption
       DEF Init, HostInv, HostType, InSetup, InPatching, InWaiting, InChecks, MainPlaces,
           RealPlaces
<1> QED
  BY <1>1, HostStep, PTL DEF Spec

\* SetupRuntime never writes back the zeros of an oKiUsr that was not filled.
THEOREM DispatcherNeverZeroed == Spec => []NeverZeroed
<1>1. HostInv => NeverZeroed
  BY DEF HostInv, HostType, NeverZeroed
<1> QED
  BY <1>1, HostInvariant, PTL

\* Under a debugger that is there when main looks, no thread enters the virtual
\* machine, whichever exceptions the two of them raise.
THEOREM DebuggerKeepsOut == Spec => []NotUnderDebugger
<1>1. HostInv => NotUnderDebugger
  BY DEF HostInv, NotUnderDebugger
<1> QED
  BY <1>1, HostInvariant, PTL

\* main ends the process only behind RealThread's JumpOut.
THEOREM MainWaitsForReal == Spec => []MainWaits
<1>1. HostInv => MainWaits
  BY DEF HostInv, MainWaits
<1> QED
  BY <1>1, HostInvariant, PTL

\* CheckDebug's exception can miss its handler only during SetupRuntime.
THEOREM DivertedInSetup == Spec => DivertedOnlyInSetup
<1> DEFINE InRestore == \A t \in Threads :
       check[t] = "trap" /\ ~debugger /\ dispatcher # "original" =>
           pc[Other(t)] \in {"restore", "restore2"}
<1>1. ASSUME HostInv, NEW t \in Threads,
             check[t] = "trap", dispatcher # "original"
      PROVE  pc[Other(t)] \in {"restore", "restore2"}
  <2>1. CASE t = "main"
    BY <1>1, <2>1 DEF HostInv, HostType, InSetup, InWaiting, InChecks, Checks, Threads, Other
  <2>2. CASE t = "real"
    <3>1. pc["real"] = "tick"
      BY <1>1, <2>2 DEF HostInv, InChecks, Checks, Threads
    <3> QED
      BY <1>1, <3>1 DEF HostInv, HostType, MainPlaces, InSetup, InPatching, InWaiting
  <2> QED
    BY <2>1, <2>2 DEF Threads
<1>2. HostInv => [InRestore]_vars
  BY <1>1
<1> QED
  BY <1>2, HostInvariant, PTL DEF DivertedOnlyInSetup

\* Only TestException leaves the test of CheckDebug.
LEMMA OnlyTestException ==
    ASSUME [Next]_vars, NEW t \in Threads, check[t] = "test", check'[t] # "test", HostType
    PROVE  TestException(t)
<1>1. CASE Protect \/ Patch \/ Gate \/ InitThread \/ Wait \/ ReadNull \/ UNCHANGED vars
  BY <1>1 DEF Protect, Patch, Gate, InitThread, Wait, ReadNull, vars, checking
<1>2. ASSUME NEW u \in Threads, Virtual(u) \/ NoCheck(u) PROVE FALSE
  BY <1>2 DEF Virtual, SetFlag, Restore, LoadFiles, RunLoop, JumpOut, NoCheck, checking
<1>3. ASSUME NEW u \in Threads, BeginCheck(u) \/ TestFlag(u) \/ Trap(u) PROVE FALSE
  BY <1>3 DEF BeginCheck, At, TestFlag, Trap, HostType
<1>4. ASSUME NEW u \in Threads, TestException(u) PROVE u = t
  BY <1>4 DEF TestException, HostType
<1>5. "main" \in Threads /\ "real" \in Threads
  BY DEF Threads
<1> QED
  BY <1>1, <1>2, <1>3, <1>4, <1>5 DEF Next, Main, Real, Check

\* Without a debugger, a process that CheckDebug ends was raced: the flag of the
\* exception was cleared by the other thread.
THEOREM EndedByRace == Spec => EndedOnlyByRace
<1> DEFINE Raced == \A t \in Threads :
       check[t] = "test" /\ check'[t] = "none" /\ outcome' = "exit_F0FFBABE" /\ ~debugger =>
           disturbed[t]
<1>1. ASSUME HostInv, [Next]_vars PROVE [Raced]_vars
  <2> SUFFICES ASSUME NEW t \in Threads, check[t] = "test", check'[t] = "none",
                      outcome' = "exit_F0FFBABE", ~debugger
               PROVE  disturbed[t]
    BY DEF Raced
  <2>1. TestException(t)
    BY <1>1, OnlyTestException DEF HostInv
  <2> QED
    BY <1>1, <2>1 DEF TestException, Running, HostInv, InChecks
<1> QED
  BY <1>1, HostInvariant, PTL DEF Spec, EndedOnlyByRace
=============================================================================
