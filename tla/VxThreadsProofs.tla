-------------------------- MODULE VxThreadsProofs --------------------------
(***************************************************************************)
(* Proofs about VxThreads, for every program, number of threads and        *)
(* capacity: type correctness, the invariant that ties a retired thread's  *)
(* priority, level and ip together, that Tick dispatches only threads that *)
(* are not retired, that the manager implements ThreadPool, and the bound  *)
(* on the levels.                                                          *)
(***************************************************************************)
EXTENDS VxThreads, SequenceTheorems, FiniteSetTheorems, TLAPS

\* The specification without fairness, which no proof needs: what implements
\* this much of VxThreads has its safety properties.
Safety == Init /\ [][Next]_vars

\* Raising the levels keeps the vector's shape, and every thread's place and
\* priority.
LEMMA RaisedType ==
    ASSUME m_vecThreads \in Seq(Thread)
    PROVE  /\ Raised \in Seq(Thread)
           /\ Len(Raised) = Len(m_vecThreads)
           /\ DOMAIN Raised = DOMAIN m_vecThreads
           /\ \A i \in DOMAIN m_vecThreads :
                 /\ Raised[i].ip = m_vecThreads[i].ip
                 /\ Raised[i].ulPriority = m_vecThreads[i].ulPriority
                 /\ Raised[i].ulCurrentLevel =
                      m_vecThreads[i].ulCurrentLevel + m_vecThreads[i].ulPriority
<1>1. \A i \in DOMAIN m_vecThreads : m_vecThreads[i] \in Thread
  OBVIOUS
<1>2. \A i \in DOMAIN m_vecThreads :
         /\ Raised[i] \in Thread
         /\ Raised[i].ip = m_vecThreads[i].ip
         /\ Raised[i].ulPriority = m_vecThreads[i].ulPriority
         /\ Raised[i].ulCurrentLevel =
              m_vecThreads[i].ulCurrentLevel + m_vecThreads[i].ulPriority
  BY <1>1 DEF Raised, Thread
<1>3. DOMAIN Raised = 1..Len(m_vecThreads)
  BY DEF Raised
<1>4. Len(m_vecThreads) \in Nat
  OBVIOUS
<1>5. Raised \in [1..Len(m_vecThreads) -> Thread]
  BY <1>2, <1>3 DEF Raised
<1>6. Raised \in Seq(Thread) /\ Len(Raised) = Len(m_vecThreads)
  BY <1>4, <1>5, SeqDef
<1> QED
  BY <1>2, <1>3, <1>6

\* Tick's last writes keep the vector's shape and touch thread b only.
LEMMA SettledType ==
    ASSUME m_vecThreads \in Seq(Thread),
           NEW b \in DOMAIN m_vecThreads, NEW ip \in Places
    PROVE  /\ Settled(b, ip) \in Seq(Thread)
           /\ Len(Settled(b, ip)) = Len(m_vecThreads)
           /\ Settled(b, ip)[b].ip = ip
           /\ Settled(b, ip)[b].ulPriority = m_vecThreads[b].ulPriority
           /\ Settled(b, ip)[b].ulCurrentLevel = 0
           /\ \A i \in DOMAIN m_vecThreads : i # b => Settled(b, ip)[i] = Raised[i]
<1>1. /\ Raised \in Seq(Thread)
      /\ Len(Raised) = Len(m_vecThreads)
      /\ DOMAIN Raised = DOMAIN m_vecThreads
      /\ Raised[b].ulPriority = m_vecThreads[b].ulPriority
  BY RaisedType
<1>2. Raised[b] \in Thread
  BY <1>1
<1>3. [Raised[b] EXCEPT !.ip = ip, !.ulCurrentLevel = 0] \in Thread
  BY <1>2 DEF Thread
<1>4. Settled(b, ip) = [Raised EXCEPT ![b] = [Raised[b] EXCEPT !.ip = ip, !.ulCurrentLevel = 0]]
  BY DEF Settled
<1> QED
  BY <1>1, <1>2, <1>3, <1>4 DEF Thread

\* The vector's capacity, after a push_back, is enough for one more thread.
LEMMA CapacityType ==
    ASSUME TypeOK
    PROVE  CapacityAfterPush \in Nat /\ Len(m_vecThreads) + 1 <= CapacityAfterPush
<1>1. capacity \in Nat /\ Len(m_vecThreads) \in Nat /\ Len(m_vecThreads) <= capacity
  BY DEF TypeOK
<1>2. capacity \div 2 \in Nat
  BY <1>1
<1> QED
  BY <1>1, <1>2 DEF CapacityAfterPush, Grown, Reallocates

\* Where ExecutePlain and ExecuteCrth send ip is a place.
LEMMA SuccPlaces ==
    ASSUME NEW ip \in Ips, NEW next \in Succ[ip]
    PROVE  next \in Places
BY SuccAssumption

LEMMA NewThreadType ==
    ASSUME NEW ip \in Places, NEW priority \in Nat
    PROVE  InitThread(ip, priority) \in Thread
BY DEF InitThread, Thread

\* Retiring a thread changes its priority only.
LEMMA RetireType ==
    ASSUME NEW thread \in Thread
    PROVE  /\ [thread EXCEPT !.ulPriority = 0] \in Thread
           /\ [thread EXCEPT !.ulPriority = 0].ip = thread.ip
           /\ [thread EXCEPT !.ulPriority = 0].ulPriority = 0
           /\ [thread EXCEPT !.ulPriority = 0].ulCurrentLevel = thread.ulCurrentLevel
BY DEF Thread

\* Every step keeps the types: one case per action.
LEMMA TypeStep == TypeOK /\ [Next]_vars => TypeOK'
<1> SUFFICES ASSUME TypeOK, [Next]_vars PROVE TypeOK'
  OBVIOUS
<1>0. /\ m_vecThreads \in Seq(Thread)
      /\ CapacityAfterPush \in Nat
      /\ Len(m_vecThreads) + 1 <= CapacityAfterPush
  BY CapacityType DEF TypeOK
<1>1. CASE Start
  <2>1. InitThread(Entry, 2) \in Thread
    BY NewThreadType, EntryAssumption
  <2>2. Len(m_vecThreads) \in Nat
    BY <1>0
  <2> QED
    BY <1>0, <1>1, <2>1, <2>2 DEF Start, TypeOK
<1>2. CASE Tick
  <2> PICK b \in DOMAIN m_vecThreads :
          /\ ExecutePlain(b) \/ ExecuteCrth(b) \/ ExecuteReturned(b)
          /\ ran' = b
    BY <1>2 DEF Tick
  <2>0. b \in Nat /\ phase' \in {"load", "run", "exited"}
    BY <1>0, <1>2 DEF Tick, TypeOK
  <2>1. CASE ExecutePlain(b)
    <3>1. PICK ip \in Places : m_vecThreads' = Settled(b, ip)
      BY <2>1, SuccPlaces DEF ExecutePlain
    <3> QED
      BY <1>0, <2>0, <2>1, <3>1, SettledType DEF ExecutePlain, TypeOK
  <2>2. CASE ExecuteCrth(b)
    <3>1. PICK target \in Places, ip \in Places :
             m_vecThreads' = Append(IF Reallocates THEN Raised ELSE Settled(b, ip),
                                    InitThread(target, 1))
      BY <2>2, SuccPlaces, EntryAssumption DEF ExecuteCrth
    <3> DEFINE old == IF Reallocates THEN Raised ELSE Settled(b, ip)
    <3>2. old \in Seq(Thread) /\ Len(old) = Len(m_vecThreads)
      BY <1>0, RaisedType, SettledType
    <3>3. InitThread(target, 1) \in Thread
      BY NewThreadType
    <3> HIDE DEF old
    <3>4. m_vecThreads' \in Seq(Thread) /\ Len(m_vecThreads') = Len(m_vecThreads) + 1
      BY <3>1, <3>2, <3>3 DEF old
    <3> QED
      BY <1>0, <2>0, <2>2, <3>4 DEF ExecuteCrth, TypeOK
  <2>3. CASE ExecuteReturned(b)
    <3>1. /\ Settled(b, Returned) \in Seq(Thread)
          /\ Len(Settled(b, Returned)) = Len(m_vecThreads)
      BY <1>0, SettledType DEF Places
    <3>2. [Settled(b, Returned)[b] EXCEPT !.ulPriority = 0] \in Thread
      BY <3>1, RetireType
    <3>3. m_vecThreads' \in Seq(Thread) /\ Len(m_vecThreads') = Len(m_vecThreads)
      BY <2>3, <3>1, <3>2 DEF ExecuteReturned
    <3> QED
      BY <1>0, <2>0, <2>3, <3>3 DEF ExecuteReturned, TypeOK
  <2> QED
    BY <2>1, <2>2, <2>3
<1>3. CASE JumpOut
  BY <1>3 DEF JumpOut, TypeOK
<1>4. CASE UNCHANGED vars
  BY <1>4 DEF vars, TypeOK
<1> QED
  BY <1>1, <1>2, <1>3, <1>4 DEF Next, Exited

LEMMA Typed == Safety => []TypeOK
<1>1. Init => TypeOK
  BY DEF Init, TypeOK
<1> QED
  BY <1>1, TypeStep, PTL DEF Safety

\* Threads, capacity and phase keep their types, and the vector never holds
\* more threads than its storage has room for.
THEOREM TypeCorrect == Spec => []TypeOK
<1> QED
  BY Typed, PTL DEF Spec, Safety
----------------------------------------------------------------------------
\* What one Tick does to the vector, whichever instruction thread b executes:
\* only b moves, b keeps its priority unless it had returned, at most one
\* thread, of priority 1, is added at the end, and b's level is reset unless the
\* thread that was added moved the vector.
LEMMA TickEffect ==
    ASSUME TypeOK, NEW b \in DOMAIN m_vecThreads,
           ExecutePlain(b) \/ ExecuteCrth(b) \/ ExecuteReturned(b)
    PROVE  /\ m_vecThreads' \in Seq(Thread)
           /\ \A i \in DOMAIN m_vecThreads : i # b => m_vecThreads'[i] = Raised[i]
           /\ \/ /\ m_vecThreads[b].ip \in Ips
                 /\ m_vecThreads'[b].ulPriority = m_vecThreads[b].ulPriority
              \/ /\ m_vecThreads[b].ip = Returned
                 /\ m_vecThreads'[b].ip = Returned
                 /\ m_vecThreads'[b].ulPriority = 0
                 /\ m_vecThreads'[b].ulCurrentLevel = 0
           /\ \/ Len(m_vecThreads') = Len(m_vecThreads)
              \/ /\ Len(m_vecThreads') = Len(m_vecThreads) + 1
                 /\ m_vecThreads[b].ip \in Ips
                 /\ m_vecThreads'[Len(m_vecThreads) + 1].ulPriority = 1
                 /\ m_vecThreads'[Len(m_vecThreads) + 1].ulCurrentLevel = 0
           /\ \/ m_vecThreads'[b].ulCurrentLevel = 0
              \/ /\ Len(m_vecThreads') = Len(m_vecThreads) + 1
                 /\ m_vecThreads'[b] = Raised[b]
<1>0. m_vecThreads \in Seq(Thread)
  BY DEF TypeOK
<1>1. CASE ExecutePlain(b)
  <2>1. PICK ip \in Places : m_vecThreads' = Settled(b, ip)
    BY <1>1, SuccPlaces DEF ExecutePlain
  <2> QED
    BY <1>0, <1>1, <2>1, SettledType DEF ExecutePlain
<1>2. CASE ExecuteCrth(b)
  <2>1. PICK target \in Places, ip \in Places :
           m_vecThreads' = Append(IF Reallocates THEN Raised ELSE Settled(b, ip),
                                  InitThread(target, 1))
    BY <1>2, SuccPlaces, EntryAssumption DEF ExecuteCrth
  <2> DEFINE old == IF Reallocates THEN Raised ELSE Settled(b, ip)
  <2>2. /\ old \in Seq(Thread) /\ Len(old) = Len(m_vecThreads)
        /\ old[b].ulPriority = m_vecThreads[b].ulPriority
        /\ \A i \in DOMAIN m_vecThreads : i # b => old[i] = Raised[i]
        /\ old[b].ulCurrentLevel = 0 \/ old[b] = Raised[b]
    BY <1>0, RaisedType, SettledType
  <2>3. /\ InitThread(target, 1) \in Thread
        /\ InitThread(target, 1).ulPriority = 1
        /\ InitThread(target, 1).ulCurrentLevel = 0
    BY NewThreadType DEF InitThread
  <2>4. m_vecThreads' = Append(old, InitThread(target, 1))
    BY <2>1
  <2> HIDE DEF old
  <2>5. /\ m_vecThreads' \in Seq(Thread)
        /\ Len(m_vecThreads') = Len(m_vecThreads) + 1
        /\ m_vecThreads'[Len(m_vecThreads) + 1] = InitThread(target, 1)
        /\ \A i \in DOMAIN m_vecThreads : m_vecThreads'[i] = old[i]
    BY <1>0, <2>2, <2>3, <2>4
  <2> QED
    BY <1>2, <2>2, <2>3, <2>5 DEF ExecuteCrth
<1>3. CASE ExecuteReturned(b)
  <2>1. /\ Settled(b, Returned) \in Seq(Thread)
        /\ Len(Settled(b, Returned)) = Len(m_vecThreads)
        /\ Settled(b, Returned)[b] \in Thread
        /\ Settled(b, Returned)[b].ip = Returned
        /\ Settled(b, Returned)[b].ulCurrentLevel = 0
        /\ \A i \in DOMAIN m_vecThreads : i # b => Settled(b, Returned)[i] = Raised[i]
    BY <1>0, SettledType DEF Places
  <2> DEFINE retired == [Settled(b, Returned)[b] EXCEPT !.ulPriority = 0]
  <2>2. /\ retired \in Thread /\ retired.ip = Returned
        /\ retired.ulPriority = 0 /\ retired.ulCurrentLevel = 0
    BY <2>1, RetireType
  <2>3. m_vecThreads' = [Settled(b, Returned) EXCEPT ![b] = retired]
    BY <1>3 DEF ExecuteReturned
  <2> HIDE DEF retired
  <2>4. /\ m_vecThreads' \in Seq(Thread)
        /\ Len(m_vecThreads') = Len(m_vecThreads)
        /\ m_vecThreads'[b] = retired
        /\ \A i \in DOMAIN m_vecThreads : i # b => m_vecThreads'[i] = Raised[i]
    BY <1>0, <2>1, <2>2, <2>3
  <2> QED
    BY <1>3, <2>2, <2>4 DEF ExecuteReturned
<1> QED
  BY <1>1, <1>2, <1>3

\* The thread Tick selects is not retired: some thread has a priority, so the
\* highest level is not 0, and a retired thread's level is.
LEMMA BestIsNotRetired ==
    ASSUME TypeOK, RetiredIsIdle, GetActive,
           NEW b \in DOMAIN m_vecThreads, IsBest(b)
    PROVE  m_vecThreads[b].ulPriority # 0
<1>0. m_vecThreads \in Seq(Thread)
  BY DEF TypeOK
<1>1. PICK j \in DOMAIN m_vecThreads : m_vecThreads[j].ulPriority # 0
  BY DEF GetActive
<1>2. /\ m_vecThreads[j].ulPriority \in Nat /\ m_vecThreads[j].ulCurrentLevel \in Nat
      /\ m_vecThreads[b].ulPriority \in Nat /\ m_vecThreads[b].ulCurrentLevel \in Nat
  <2>1. m_vecThreads[j] \in Thread /\ m_vecThreads[b] \in Thread
    BY <1>0
  <2> QED
    BY <2>1 DEF Thread
<1>3. /\ Raised[j].ulCurrentLevel =
           m_vecThreads[j].ulCurrentLevel + m_vecThreads[j].ulPriority
      /\ Raised[b].ulCurrentLevel =
           m_vecThreads[b].ulCurrentLevel + m_vecThreads[b].ulPriority
      /\ DOMAIN Raised = DOMAIN m_vecThreads
  BY <1>0, RaisedType
<1>4. Raised[j].ulCurrentLevel <= Raised[b].ulCurrentLevel
  BY <1>3 DEF IsBest
<1>5. m_vecThreads[b].ulPriority = 0 => m_vecThreads[b].ulCurrentLevel = 0
  BY DEF RetiredIsIdle
<1> HIDE DEF Raised
<1> QED
  BY <1>1, <1>2, <1>3, <1>4, <1>5

\* Every step keeps a retired thread idle: one case per action.
LEMMA RetiredStep == TypeOK /\ RetiredIsIdle /\ [Next]_vars => RetiredIsIdle'
<1> SUFFICES ASSUME TypeOK, RetiredIsIdle, [Next]_vars PROVE RetiredIsIdle'
  OBVIOUS
<1>0. m_vecThreads \in Seq(Thread)
  BY DEF TypeOK
<1>1. CASE Start
  BY <1>1 DEF Start, InitThread, RetiredIsIdle
<1>2. CASE Tick
  <2>1. PICK b \in DOMAIN m_vecThreads :
           ExecutePlain(b) \/ ExecuteCrth(b) \/ ExecuteReturned(b)
    BY <1>2 DEF Tick
  <2> SUFFICES ASSUME NEW i \in DOMAIN m_vecThreads', m_vecThreads'[i].ulPriority = 0
               PROVE  m_vecThreads'[i].ulCurrentLevel = 0 /\ m_vecThreads'[i].ip = Returned
    BY DEF RetiredIsIdle
  <2>2. m_vecThreads' \in Seq(Thread)
    BY <2>1, TickEffect
  <2>3. CASE i = b
    <3>1. Returned \notin Ips
      BY IpsAssumption DEF Returned
    <3> QED
      BY <2>1, <2>3, <3>1, TickEffect DEF RetiredIsIdle
  <2>4. CASE i \in DOMAIN m_vecThreads /\ i # b
    <3>1. m_vecThreads'[i] = Raised[i]
      BY <2>1, <2>4, TickEffect
    <3>2. m_vecThreads[i].ulPriority = 0
      BY <1>0, <2>4, <3>1, RaisedType
    <3>3. m_vecThreads[i].ulCurrentLevel = 0 /\ m_vecThreads[i].ip = Returned
      BY <2>4, <3>2 DEF RetiredIsIdle
    <3> QED
      BY <1>0, <2>4, <3>1, <3>2, <3>3, RaisedType
  <2>5. CASE i \notin DOMAIN m_vecThreads
    <3>1. i = Len(m_vecThreads) + 1 /\ Len(m_vecThreads') = Len(m_vecThreads) + 1
      BY <1>0, <2>1, <2>2, <2>5, TickEffect
    <3>2. m_vecThreads'[i].ulPriority = 1
      BY <1>0, <2>1, <3>1, TickEffect
    <3> QED
      BY <3>2
  <2> QED
    BY <2>3, <2>4, <2>5
<1>3. CASE JumpOut
  BY <1>3 DEF JumpOut, RetiredIsIdle
<1>4. CASE UNCHANGED vars
  BY <1>4 DEF vars, RetiredIsIdle
<1> QED
  BY <1>1, <1>2, <1>3, <1>4 DEF Next, Exited

LEMMA Idle == Safety => []RetiredIsIdle
<1>1. Init => RetiredIsIdle
  BY DEF Init, RetiredIsIdle
<1> QED
  BY <1>1, Typed, RetiredStep, PTL DEF Safety

\* A retired thread's priority, level and ip agree in every reachable state.
THEOREM RetiredIdle == Spec => []RetiredIsIdle
<1> QED
  BY Idle, PTL DEF Spec, Safety

\* Before main is created there are no threads.
LoadIsEmpty == phase = "load" => m_vecThreads = <<>>

LEMMA LoadEmpty == Safety => []LoadIsEmpty
<1>1. Init => LoadIsEmpty
  BY DEF Init, LoadIsEmpty
<1>2. LoadIsEmpty /\ [Next]_vars => LoadIsEmpty'
  BY DEF LoadIsEmpty, Next, Start, Tick, JumpOut, Exited, vars
<1> QED
  BY <1>1, <1>2, PTL DEF Safety

LEMMA NeverRun == Safety => RetiredNeverRuns
<1> DEFINE Good ==
       /\ Tick => m_vecThreads[ran'].ulPriority # 0
       /\ \A i \in DOMAIN m_vecThreads :
             m_vecThreads[i].ulPriority = 0 => m_vecThreads'[i] = m_vecThreads[i]
<1>1. ASSUME TypeOK, RetiredIsIdle, LoadIsEmpty, [Next]_vars PROVE [Good]_vars
  <2>0. m_vecThreads \in Seq(Thread)
    BY <1>1 DEF TypeOK
  <2>1. CASE Start
    <3>1. ~Tick
      BY <2>1 DEF Start, Tick
    <3>2. DOMAIN m_vecThreads = {}
      BY <1>1, <2>1 DEF Start, LoadIsEmpty
    <3> QED
      BY <3>1, <3>2
  <2>2. CASE Tick
    <3>1. PICK b \in DOMAIN m_vecThreads :
             /\ IsBest(b)
             /\ ExecutePlain(b) \/ ExecuteCrth(b) \/ ExecuteReturned(b)
             /\ ran' = b
      BY <2>2 DEF Tick
    <3>2. m_vecThreads[b].ulPriority # 0
      BY <1>1, <2>2, <3>1, BestIsNotRetired DEF Tick
    <3>3. ASSUME NEW i \in DOMAIN m_vecThreads, m_vecThreads[i].ulPriority = 0
          PROVE  m_vecThreads'[i] = m_vecThreads[i]
      <4>1. m_vecThreads'[i] = Raised[i]
        BY <1>1, <3>1, <3>2, <3>3, TickEffect
      <4>2. m_vecThreads[i].ulCurrentLevel = 0
        BY <1>1, <3>3 DEF RetiredIsIdle
      <4>3. Raised[i] = [m_vecThreads[i] EXCEPT !.ulCurrentLevel = 0]
        BY <3>3, <4>2 DEF Raised
      <4>4. m_vecThreads[i] \in Thread
        BY <2>0
      <4> QED
        BY <4>1, <4>2, <4>3, <4>4 DEF Thread
    <3> QED
      BY <3>1, <3>2, <3>3
  <2>3. CASE JumpOut
    BY <2>3 DEF JumpOut, Tick
  <2>4. CASE UNCHANGED vars
    BY <2>4
  <2> QED
    BY <1>1, <2>1, <2>2, <2>3, <2>4 DEF Next, Exited
<1> QED
  BY <1>1, Typed, Idle, LoadEmpty, PTL DEF Safety, RetiredNeverRuns

\* Tick dispatches only threads that are not retired, and nothing changes or
\* brings back a retired one.
THEOREM RetiredThreadsNeverRun == Spec => RetiredNeverRuns
<1> QED
  BY NeverRun, PTL DEF Spec, Safety
----------------------------------------------------------------------------
\* The pool that ThreadPool sees, as a function of the vector.
PoolOf == [i \in DOMAIN m_vecThreads |-> StatusOf(m_vecThreads[i])]

\* A thread's status depends on its priority and ip alone.
LEMMA StatusFacts ==
    ASSUME NEW thread
    PROVE  /\ thread.ulPriority = 0 <=> StatusOf(thread) = "ended"
           /\ thread.ulPriority # 0 =>
                 /\ StatusOf(thread) \in {"running", "returned"}
                 /\ thread.ip = Returned <=> StatusOf(thread) = "returned"
BY DEF StatusOf

\* A function on 1..n is a sequence of length n.
LEMMA FunctionIsSeq ==
    ASSUME NEW S, NEW n \in Nat, NEW f \in [1..n -> S]
    PROVE  f \in Seq(S) /\ Len(f) = n /\ DOMAIN f = 1..n
BY SeqDef

\* A Tick that dispatches thread b is a step of b in the pool.
LEMMA TickIsPoolStep ==
    ASSUME TypeOK, RetiredIsIdle, GetActive,
           NEW b \in DOMAIN m_vecThreads, IsBest(b),
           ExecutePlain(b) \/ ExecuteCrth(b) \/ ExecuteReturned(b)
    PROVE  Pool!Run(b) \/ Pool!Spawn(b) \/ Pool!Reap(b)
<1>0. m_vecThreads \in Seq(Thread) /\ m_vecThreads' \in Seq(Thread)
  BY TickEffect DEF TypeOK
<1>1. m_vecThreads[b].ulPriority # 0
  BY BestIsNotRetired
<1>2. Returned \notin Ips
  BY IpsAssumption DEF Returned
<1>3. /\ PoolOf \in Seq(Pool!Status) /\ Len(PoolOf) = Len(m_vecThreads)
      /\ DOMAIN PoolOf = DOMAIN m_vecThreads
      /\ PoolOf' \in Seq(Pool!Status) /\ Len(PoolOf') = Len(m_vecThreads')
      /\ DOMAIN PoolOf' = DOMAIN m_vecThreads'
  <2>1. /\ PoolOf \in [1..Len(m_vecThreads) -> Pool!Status]
        /\ PoolOf' \in [1..Len(m_vecThreads') -> Pool!Status]
    BY <1>0 DEF PoolOf, StatusOf, Pool!Status
  <2>2. Len(m_vecThreads) \in Nat /\ Len(m_vecThreads') \in Nat
    BY <1>0
  <2>3. /\ PoolOf \in Seq(Pool!Status) /\ Len(PoolOf) = Len(m_vecThreads)
        /\ PoolOf' \in Seq(Pool!Status) /\ Len(PoolOf') = Len(m_vecThreads')
    <3> HIDE DEF PoolOf
    <3> QED
      BY <2>1, <2>2, FunctionIsSeq
  <2> QED
    BY <1>0, <2>1, <2>3
<1>4. ASSUME NEW i \in DOMAIN m_vecThreads, i # b PROVE PoolOf'[i] = PoolOf[i]
  <2>1. i \in DOMAIN m_vecThreads'
    BY <1>0, TickEffect
  <2>2. m_vecThreads'[i] = Raised[i]
    BY <1>4, TickEffect
  <2>3. Raised[i].ip = m_vecThreads[i].ip /\ Raised[i].ulPriority = m_vecThreads[i].ulPriority
    BY <1>0, RaisedType
  <2> QED
    BY <2>1, <2>2, <2>3 DEF PoolOf, StatusOf
<1>5. /\ b \in DOMAIN m_vecThreads'
      /\ PoolOf[b] = StatusOf(m_vecThreads[b])
      /\ PoolOf'[b] = StatusOf(m_vecThreads'[b])
  BY <1>0, TickEffect DEF PoolOf
<1>6. CASE m_vecThreads[b].ip = Returned
  <2>1. PoolOf[b] = "returned" /\ PoolOf'[b] = "ended"
    BY <1>1, <1>2, <1>5, <1>6, TickEffect, StatusFacts
  <2>2. Len(m_vecThreads') = Len(m_vecThreads)
    BY <1>2, <1>6, TickEffect
  <2>3. PoolOf' = [PoolOf EXCEPT ![b] = "ended"]
    BY <1>0, <1>3, <1>4, <2>1, <2>2
  <2> QED
    BY <2>1, <2>3 DEF Pool!Reap, PoolOf
<1>7. CASE m_vecThreads[b].ip \in Ips
  <2>1. PoolOf[b] = "running" /\ PoolOf'[b] \in {"running", "returned"}
    BY <1>1, <1>2, <1>5, <1>7, TickEffect, StatusFacts
  <2>2. CASE Len(m_vecThreads') = Len(m_vecThreads)
    <3>1. PoolOf' = [PoolOf EXCEPT ![b] = PoolOf'[b]]
      BY <1>0, <1>3, <1>4, <2>2
    <3> QED
      BY <2>1, <3>1 DEF Pool!Run, PoolOf
  <2>3. CASE /\ Len(m_vecThreads') = Len(m_vecThreads) + 1
             /\ m_vecThreads'[Len(m_vecThreads) + 1].ulPriority = 1
    <3> DEFINE n == PoolOf'[Len(m_vecThreads) + 1]
    <3>1. n \in {"running", "returned"}
      <4>1. Len(m_vecThreads) + 1 \in DOMAIN m_vecThreads'
        BY <1>0, <2>3
      <4>2. n = StatusOf(m_vecThreads'[Len(m_vecThreads) + 1])
        BY <4>1 DEF PoolOf
      <4> QED
        BY <2>3, <4>2, StatusFacts
    <3>2. PoolOf' = Append([PoolOf EXCEPT ![b] = PoolOf'[b]], n)
      <4> DEFINE old == [PoolOf EXCEPT ![b] = PoolOf'[b]]
                 m == Len(m_vecThreads)
      <4>1. old \in Seq(Pool!Status) /\ Len(old) = m
        BY <1>0, <1>3, <1>5, <2>1 DEF Pool!Status
      <4>2. \A i \in 1..m : old[i] = PoolOf'[i]
        BY <1>0, <1>3, <1>4
      <4>3. m \in Nat /\ n \in Pool!Status
        BY <1>0, <3>1 DEF Pool!Status
      <4> HIDE DEF old, m, n
      <4>4. /\ Append(old, n) \in Seq(Pool!Status) /\ Len(Append(old, n)) = m + 1
            /\ \A i \in 1..m : Append(old, n)[i] = old[i]
            /\ Append(old, n)[m + 1] = n
        BY <4>1, <4>3
      <4>5. PoolOf' \in Seq(Pool!Status) /\ Len(PoolOf') = m + 1 /\ n = PoolOf'[m + 1]
        BY <1>3, <2>3 DEF m, n
      <4>6. \A i \in 1..(m + 1) : Append(old, n)[i] = PoolOf'[i]
        BY <4>2, <4>3, <4>4, <4>5
      <4>7. Append(old, n) = PoolOf'
        BY <4>4, <4>5, <4>6, SeqEqual
      <4> QED
        BY <4>7 DEF old
    <3> QED
      BY <2>1, <3>1, <3>2 DEF Pool!Spawn, PoolOf
  <2> QED
    BY <2>2, <2>3, TickEffect
<1> QED
  BY <1>6, <1>7, TickEffect

\* Every step of the manager is a step, or a stutter, of the pool.
LEMMA PoolStep ==
    TypeOK /\ RetiredIsIdle /\ [Next]_vars => [Pool!Next]_(Pool!vars)
<1> SUFFICES ASSUME TypeOK, RetiredIsIdle, [Next]_vars
             PROVE  [Pool!Next]_(Pool!vars)
  OBVIOUS
<1>0. m_vecThreads \in Seq(Thread)
  BY DEF TypeOK
<1>1. CASE Start
  <2>1. StatusOf(InitThread(Entry, 2)) \in {"running", "returned"}
    BY StatusFacts DEF InitThread
  <2>2. PoolOf' = <<StatusOf(InitThread(Entry, 2))>>
    BY <1>1 DEF Start, PoolOf
  <2> QED
    BY <1>1, <2>1, <2>2 DEF Start, PoolOf, Pool!Next, Pool!Start
<1>2. CASE Tick
  <2>1. PICK b \in DOMAIN m_vecThreads :
           /\ IsBest(b)
           /\ ExecutePlain(b) \/ ExecuteCrth(b) \/ ExecuteReturned(b)
    BY <1>2 DEF Tick
  <2>2. Pool!Run(b) \/ Pool!Spawn(b) \/ Pool!Reap(b)
    BY <1>2, <2>1, TickIsPoolStep DEF Tick
  <2>3. b \in DOMAIN PoolOf
    BY DEF PoolOf
  <2>4. Pool!Step
    BY <1>2, <2>2, <2>3 DEF Tick, Pool!Step, PoolOf
  <2> QED
    BY <2>4 DEF Pool!Next
<1>3. CASE JumpOut
  <2>1. \A i \in DOMAIN PoolOf : PoolOf[i] = "ended"
    BY <1>3, StatusFacts DEF JumpOut, GetActive, PoolOf
  <2>2. PoolOf' = PoolOf
    BY <1>3 DEF JumpOut, PoolOf
  <2> QED
    BY <1>3, <2>1, <2>2 DEF JumpOut, PoolOf, Pool!Next, Pool!Exit
<1>4. CASE UNCHANGED vars
  BY <1>4 DEF vars, Pool!vars
<1> QED
  BY <1>1, <1>2, <1>3, <1>4 DEF Next, Exited

LEMMA IsPool == Safety => ImplementsPool
<1>1. Init => Pool!Init
  BY DEF Init, Pool!Init
<1> QED
  BY <1>1, PoolStep, Typed, Idle, PTL DEF Safety, ImplementsPool, Pool!Spec

\* The manager implements the thread pool it promises, whatever the program.
THEOREM RefinesPool == Spec => ImplementsPool
<1> QED
  BY IsPool, PTL DEF Spec, Safety
----------------------------------------------------------------------------
(***************************************************************************)
(* The bound on the levels (WaitIsBounded).                                *)
(*                                                                         *)
(* Older(k) are the threads crth created whose level has reached k.  Since *)
(* their priority is 1, they were in Older(k - 1) one Tick earlier; and    *)
(* since Tick dispatches a thread of the highest level, a Tick that leaves *)
(* Older(k) not empty took its thread from Older(k - 1), or was main's, or *)
(* lost its writes to a moved vector, which adds a thread.  So the larger  *)
(* k is, the fewer threads are in Older(k): twice their number and twice k *)
(* stay below twice the number of threads, but for the Ticks main takes.   *)
(* Main takes one when its level is highest, and begins at 0 again: with   *)
(* main at level 2 * m, its Ticks account for Slack(k - m).                *)
(***************************************************************************)
Older(k) == {i \in 2..Len(m_vecThreads) : m_vecThreads[i].ulCurrentLevel >= k}

Slack(d) == IF d <= 0 THEN 0 ELSE IF d = 1 THEN 2 ELSE d + 2

\* Main has priority 2, the threads of crth have 1, until they are retired.
Priorities ==
    \A i \in DOMAIN m_vecThreads :
        /\ i = 1 => m_vecThreads[i].ulPriority \in {0, 2}
        /\ i # 1 => m_vecThreads[i].ulPriority \in {0, 1}

OlderIsFewer(m) ==
    \A k \in Nat :
        Older(k) # {} =>
            2 * Cardinality(Older(k)) + 2 * k <= 2 * (Len(m_vecThreads) - 1) + Slack(k - m)

LevelsBounded(m) ==
    /\ m_vecThreads[1].ulCurrentLevel = 2 * m
    /\ m + 1 <= Len(m_vecThreads)
    /\ OlderIsFewer(m)

WaitInv == m_vecThreads # <<>> => Priorities /\ \E m \in Nat : LevelsBounded(m)
----------------------------------------------------------------------------
LEMMA OlderFinite ==
    ASSUME m_vecThreads \in Seq(Thread), NEW k \in Nat
    PROVE  /\ IsFiniteSet(Older(k))
           /\ Cardinality(Older(k)) \in Nat
           /\ Older(k) # {} => Cardinality(Older(k)) >= 1
<1>1. IsFiniteSet(2..Len(m_vecThreads))
  BY FS_Interval
<1>2. Older(k) \subseteq 2..Len(m_vecThreads)
  BY DEF Older
<1>3. IsFiniteSet(Older(k))
  BY <1>1, <1>2, FS_Subset
<1> QED
  BY <1>3, FS_CardinalityType, FS_EmptySet

\* What main's dispatch adds to the slack, and what raising k and main's level
\* together leaves as it is.
LEMMA SlackFacts ==
    ASSUME NEW k \in Nat, NEW m \in Nat
    PROVE  /\ Slack(k - m) \in Nat
           /\ Slack((k + 1) - (m + 1)) = Slack(k - m)
           /\ Slack(k + 1) >= Slack(k)
           /\ k <= 2 * m + 1 => Slack(k + 1) >= Slack(k - m) + 2
BY DEF Slack

\* The level of a thread that crth created grows by one at most.
LEMMA RaisedByOne ==
    ASSUME m_vecThreads \in Seq(Thread), Priorities, NEW i \in DOMAIN m_vecThreads, i # 1
    PROVE  /\ m_vecThreads[i].ulCurrentLevel \in Nat
           /\ Raised[i].ulCurrentLevel \in Nat
           /\ Raised[i].ulCurrentLevel <= m_vecThreads[i].ulCurrentLevel + 1
<1>1. m_vecThreads[i] \in Thread
  OBVIOUS
<1>2. m_vecThreads[i].ulCurrentLevel \in Nat /\ m_vecThreads[i].ulPriority \in {0, 1}
  BY <1>1 DEF Thread, Priorities
<1>3. Raised[i].ulCurrentLevel = m_vecThreads[i].ulCurrentLevel + m_vecThreads[i].ulPriority
  BY RaisedType
<1> QED
  BY <1>2, <1>3

\* Who is in Older(k + 1) after a Tick was in Older(k) before it, and is not the
\* thread that was dispatched, unless its writes were lost.
LEMMA OlderStep ==
    ASSUME TypeOK, TypeOK', Priorities, NEW b \in DOMAIN m_vecThreads, IsBest(b),
           ExecutePlain(b) \/ ExecuteCrth(b) \/ ExecuteReturned(b),
           NEW k \in Nat
    PROVE  /\ Older(k + 1)' \subseteq Older(k)
           /\ m_vecThreads'[b].ulCurrentLevel = 0 => b \notin Older(k + 1)'
           /\ Older(k + 1)' # {} => Raised[b].ulCurrentLevel >= k + 1
<1>1. /\ m_vecThreads \in Seq(Thread) /\ m_vecThreads' \in Seq(Thread)
      /\ \A i \in DOMAIN m_vecThreads : m_vecThreads[i] \in Thread /\ Raised[i] \in Thread
      /\ DOMAIN Raised = DOMAIN m_vecThreads
      /\ DOMAIN m_vecThreads = 1..Len(m_vecThreads) /\ Len(m_vecThreads) \in Nat
  BY RaisedType DEF TypeOK
<1>2. ASSUME NEW i \in Older(k + 1)'
      PROVE  /\ i \in Older(k)
             /\ m_vecThreads'[i].ulCurrentLevel # 0
             /\ Raised[b].ulCurrentLevel >= k + 1
  <2>1. /\ i \in 2..Len(m_vecThreads') /\ m_vecThreads'[i].ulCurrentLevel >= k + 1
        /\ m_vecThreads'[i].ulCurrentLevel # 0
    BY DEF Older
  <2>2. i \in DOMAIN m_vecThreads
    BY <1>1, <2>1, TickEffect
  <2>3. m_vecThreads'[i] = Raised[i]
    BY <2>1, <2>2, TickEffect
  <2>4. /\ m_vecThreads[i].ulCurrentLevel \in Nat /\ Raised[i].ulCurrentLevel \in Nat
        /\ Raised[i].ulCurrentLevel <= m_vecThreads[i].ulCurrentLevel + 1
    BY <1>1, <2>1, <2>2, RaisedByOne
  <2>5. m_vecThreads[i].ulCurrentLevel >= k
    BY <2>1, <2>3, <2>4
  <2>6. Raised[i].ulCurrentLevel <= Raised[b].ulCurrentLevel
    BY <1>1, <2>2 DEF IsBest
  <2>7. Raised[i].ulCurrentLevel \in Nat /\ Raised[b].ulCurrentLevel \in Nat
    BY <1>1, <2>2 DEF Thread
  <2> QED
    BY <1>1, <2>1, <2>2, <2>3, <2>5, <2>6, <2>7 DEF Older
<1> QED
  BY <1>2

\* How many threads are left in Older(k + 1).
LEMMA OlderCount ==
    ASSUME TypeOK, TypeOK', Priorities, NEW b \in DOMAIN m_vecThreads, IsBest(b),
           ExecutePlain(b) \/ ExecuteCrth(b) \/ ExecuteReturned(b),
           NEW k \in Nat, Older(k + 1)' # {}
    PROVE  /\ Older(k) # {}
           /\ Cardinality(Older(k + 1)') <= Cardinality(Older(k))
           /\ b # 1 /\ m_vecThreads'[b].ulCurrentLevel = 0 =>
                Cardinality(Older(k + 1)') <= Cardinality(Older(k)) - 1
<1>1. /\ m_vecThreads \in Seq(Thread) /\ IsFiniteSet(Older(k))
      /\ Cardinality(Older(k)) \in Nat
  BY OlderFinite DEF TypeOK
<1>2. Older(k + 1)' \subseteq Older(k)
  BY OlderStep
<1>3. Cardinality(Older(k + 1)') <= Cardinality(Older(k))
  BY <1>1, <1>2, FS_Subset
<1>4. ASSUME b # 1, m_vecThreads'[b].ulCurrentLevel = 0
      PROVE  Cardinality(Older(k + 1)') <= Cardinality(Older(k)) - 1
  <2>1. Older(k + 1)' \subseteq Older(k) \ {b}
    BY <1>2, <1>4, OlderStep
  <2>2. /\ Raised[b].ulCurrentLevel >= k + 1
        /\ m_vecThreads[b].ulCurrentLevel \in Nat /\ Raised[b].ulCurrentLevel \in Nat
        /\ Raised[b].ulCurrentLevel <= m_vecThreads[b].ulCurrentLevel + 1
    BY <1>1, <1>4, OlderStep, RaisedByOne
  <2>3. b \in Older(k)
    BY <1>1, <1>4, <2>2, SMTT(30) DEF Older
  <2>4. IsFiniteSet(Older(k) \ {b}) /\ Cardinality(Older(k) \ {b}) = Cardinality(Older(k)) - 1
    BY <1>1, <2>3, FS_RemoveElement
  <2> QED
    BY <2>1, <2>4, FS_Subset
<1> QED
  BY <1>2, <1>3, <1>4

\* The threads behind main are one fewer than all of them.
LEMMA FewerThanAll ==
    ASSUME NEW n \in Nat \ {0}, NEW S \in SUBSET (2..n)
    PROVE  IsFiniteSet(S) /\ Cardinality(S) \in Nat /\ Cardinality(S) <= n - 1
<1>1. IsFiniteSet(2..n) /\ Cardinality(2..n) = n - 1
  BY FS_Interval
<1>2. IsFiniteSet(S) /\ Cardinality(S) <= Cardinality(2..n)
  BY <1>1, FS_Subset
<1> QED
  BY <1>1, <1>2, FS_CardinalityType

\* A Tick keeps the bound on the number of older threads, with main's level at
\* 2 * m before it and at 2 * next after it, in each of three cases: another
\* thread was dispatched; the vector moved; main was dispatched.
LEMMA OlderFewerStep ==
    ASSUME TypeOK, TypeOK', Priorities, NEW b \in DOMAIN m_vecThreads, IsBest(b),
           ExecutePlain(b) \/ ExecuteCrth(b) \/ ExecuteReturned(b),
           NEW m \in Nat, OlderIsFewer(m), NEW next \in Nat,
           \/ /\ \/ b # 1 /\ m_vecThreads'[b].ulCurrentLevel = 0
                 \/ Len(m_vecThreads') = Len(m_vecThreads) + 1
              /\ next = m + 1 \/ (next = 0 /\ m = 0)
           \/ next = 0 /\ Raised[b].ulCurrentLevel <= 2 * (m + 1)
    PROVE  OlderIsFewer(next)'
<1> SUFFICES ASSUME NEW k \in Nat, Older(k)' # {}
             PROVE  2 * Cardinality(Older(k)') + 2 * k
                        <= 2 * (Len(m_vecThreads') - 1) + Slack(k - next)
  BY DEF OlderIsFewer
<1>1. /\ m_vecThreads \in Seq(Thread) /\ m_vecThreads' \in Seq(Thread)
      /\ Len(m_vecThreads) \in Nat \ {0} /\ Len(m_vecThreads') \in Nat \ {0}
      /\ Len(m_vecThreads') \in {Len(m_vecThreads), Len(m_vecThreads) + 1}
  BY TickEffect DEF TypeOK
<1>2. /\ Cardinality(Older(k)') \in Nat
      /\ Cardinality(Older(k)') <= Len(m_vecThreads') - 1
  BY <1>1, FewerThanAll DEF Older
<1>3. Slack(k - next) \in Nat
  BY SlackFacts
<1>4. CASE k = 0
  BY <1>1, <1>2, <1>3, <1>4
<1>5. CASE k # 0
  <2> DEFINE j == k - 1
  <2>1. j \in Nat /\ k = j + 1
    BY <1>5
  <2> HIDE DEF j
  <2>2. /\ Older(j) # {} /\ Cardinality(Older(k)') <= Cardinality(Older(j))
        /\ b # 1 /\ m_vecThreads'[b].ulCurrentLevel = 0 =>
             Cardinality(Older(k)') <= Cardinality(Older(j)) - 1
    BY <2>1, OlderCount
  <2>3. Cardinality(Older(j)) \in Nat
    BY <1>1, <2>1, OlderFinite
  <2>4. 2 * Cardinality(Older(j)) + 2 * j <= 2 * (Len(m_vecThreads) - 1) + Slack(j - m)
    BY <2>1, <2>2 DEF OlderIsFewer
  <2>5. /\ Slack(j - m) \in Nat
        /\ Slack(k) >= Slack(j)
        /\ Slack(k - (m + 1)) = Slack(j - m)
        /\ j <= 2 * m + 1 => Slack(k) >= Slack(j - m) + 2
    BY <2>1, SlackFacts
  <2> DEFINE c == Cardinality(Older(j))
             c2 == Cardinality(Older(k)')
             n == Len(m_vecThreads)
             n2 == Len(m_vecThreads')
             s == Slack(j - m)
             s2 == Slack(k - next)
  <2> SUFFICES 2 * c2 + 2 * k <= 2 * (n2 - 1) + s2
    OBVIOUS
  <2>6. /\ c \in Nat /\ c2 \in Nat /\ n \in Nat /\ n2 \in Nat /\ s \in Nat /\ s2 \in Nat
        /\ 2 * c + 2 * j <= 2 * (n - 1) + s
        /\ c2 <= c /\ n2 >= n
    BY <1>1, <1>2, <1>3, <2>2, <2>3, <2>4, <2>5
  <2>7. CASE next = 0 /\ Raised[b].ulCurrentLevel <= 2 * (m + 1)
    <3>1. Raised[b].ulCurrentLevel >= j + 1
      BY <2>1, OlderStep
    <3>2. Raised[b].ulCurrentLevel \in Nat
      <4>1. Raised[b] \in Thread
        BY <1>1, RaisedType
      <4> QED
        BY <4>1 DEF Thread
    <3>3. j <= 2 * m + 1
      BY <2>1, <2>7, <3>1, <3>2
    <3>4. Slack(k - next) >= Slack(j - m) + 2
      <4>1. k - next = k
        BY <2>7
      <4> QED
        BY <2>5, <3>3, <4>1
    <3>5. s2 >= s + 2
      BY <3>4
    <3> HIDE DEF c, c2, n, n2, s, s2
    <3> QED
      BY <2>1, <2>6, <3>5
  <2>8. CASE /\ \/ b # 1 /\ m_vecThreads'[b].ulCurrentLevel = 0
                \/ Len(m_vecThreads') = Len(m_vecThreads) + 1
             /\ next = m + 1 \/ (next = 0 /\ m = 0)
    <3>1. Slack(k - next) >= Slack(j - m)
      <4>1. CASE next = m + 1
        <5>1. Slack(k - next) = Slack(j - m)
          BY <2>5, <4>1
        <5> QED
          BY <2>5, <5>1
      <4>2. CASE next = 0 /\ m = 0
        <5>1. k - next = k /\ j - m = j
          BY <2>1, <4>2
        <5>2. Slack(k) \in Nat /\ Slack(j) \in Nat
          BY <1>3, <2>5, <5>1
        <5> QED
          BY <2>5, <5>1, <5>2
      <4> QED
        BY <2>8, <4>1, <4>2
    <3>2. (c2 <= c - 1 \/ n2 = n + 1) /\ s2 >= s
      BY <2>2, <2>8, <3>1
    <3> HIDE DEF c, c2, n, n2, s, s2
    <3> QED
      BY <2>1, <2>6, <3>2
  <2> QED
    BY <2>7, <2>8
<1> QED
  BY <1>4, <1>5

\* A Tick changes no priority but that of a thread that returned, and the thread
\* it may add has priority 1.
LEMMA PrioritiesStep ==
    ASSUME TypeOK, TypeOK', Priorities, NEW b \in DOMAIN m_vecThreads,
           ExecutePlain(b) \/ ExecuteCrth(b) \/ ExecuteReturned(b)
    PROVE  Priorities'
<1>1. /\ m_vecThreads \in Seq(Thread) /\ m_vecThreads' \in Seq(Thread)
      /\ Len(m_vecThreads) \in Nat \ {0}
      /\ Len(m_vecThreads') \in {Len(m_vecThreads), Len(m_vecThreads) + 1}
  BY TickEffect DEF TypeOK
<1> SUFFICES ASSUME NEW i \in DOMAIN m_vecThreads'
             PROVE  /\ i = 1 => m_vecThreads'[i].ulPriority \in {0, 2}
                    /\ i # 1 => m_vecThreads'[i].ulPriority \in {0, 1}
  BY DEF Priorities
<1>2. CASE i \in DOMAIN m_vecThreads
  <2>1. m_vecThreads'[i].ulPriority \in {0, m_vecThreads[i].ulPriority}
    <3>1. CASE i = b
      BY <3>1, TickEffect
    <3>2. CASE i # b
      BY <1>1, <1>2, <3>2, TickEffect, RaisedType
    <3> QED
      BY <3>1, <3>2
  <2> QED
    BY <1>2, <2>1 DEF Priorities
<1>3. CASE i \notin DOMAIN m_vecThreads
  <2>1. i = Len(m_vecThreads) + 1 /\ i # 1
    BY <1>1, <1>3
  <2>2. Len(m_vecThreads') # Len(m_vecThreads)
    BY <1>1, <1>3
  <2> QED
    BY <2>1, <2>2, TickEffect
<1> QED
  BY <1>2, <1>3

\* A Tick keeps main's level even and below the number of threads, and with it
\* the bound on the others.
LEMMA LevelsStep ==
    ASSUME TypeOK, TypeOK', RetiredIsIdle, Priorities,
           NEW b \in DOMAIN m_vecThreads, IsBest(b),
           ExecutePlain(b) \/ ExecuteCrth(b) \/ ExecuteReturned(b),
           NEW m \in Nat, LevelsBounded(m)
    PROVE  \E next \in Nat : LevelsBounded(next)'
<1>1. /\ m_vecThreads \in Seq(Thread) /\ m_vecThreads' \in Seq(Thread)
      /\ Len(m_vecThreads) \in Nat \ {0}
      /\ Len(m_vecThreads') \in {Len(m_vecThreads), Len(m_vecThreads) + 1}
      /\ DOMAIN m_vecThreads = 1..Len(m_vecThreads)
      /\ 1 \in DOMAIN m_vecThreads
  BY TickEffect DEF TypeOK
<1>2. /\ m_vecThreads[1].ulCurrentLevel = 2 * m /\ m + 1 <= Len(m_vecThreads)
      /\ OlderIsFewer(m)
  BY DEF LevelsBounded
<1>3. m_vecThreads[1].ulPriority \in {0, 2}
  BY <1>1 DEF Priorities
<1>4. Raised[1].ulCurrentLevel = 2 * m + m_vecThreads[1].ulPriority
  BY <1>1, <1>2, RaisedType
<1>5. m_vecThreads[1].ulPriority = 0 => m = 0
  BY <1>1, <1>2 DEF RetiredIsIdle
<1>6. CASE b = 1 /\ m_vecThreads'[b].ulCurrentLevel = 0
  <2>1. Raised[b].ulCurrentLevel <= 2 * (m + 1)
    BY <1>3, <1>4, <1>6
  <2>2. OlderIsFewer(0)'
    BY <1>2, <2>1, OlderFewerStep
  <2>3. LevelsBounded(0)'
    BY <1>1, <1>6, <2>2 DEF LevelsBounded
  <2> QED
    BY <2>3
<1>7. CASE (b # 1 /\ m_vecThreads'[b].ulCurrentLevel = 0) \/ m_vecThreads'[b].ulCurrentLevel # 0
  <2>1. PICK next \in Nat : /\ next = m + 1 \/ (next = 0 /\ m = 0)
                            /\ 2 * next = Raised[1].ulCurrentLevel
    <3>1. CASE m_vecThreads[1].ulPriority = 0
      BY <1>4, <1>5, <3>1
    <3>2. CASE m_vecThreads[1].ulPriority = 2
      <4>1. m + 1 \in Nat /\ 2 * (m + 1) = Raised[1].ulCurrentLevel
        BY <1>4, <3>2
      <4>2. PICK up \in Nat : up = m + 1
        BY <4>1
      <4>3. 2 * up = Raised[1].ulCurrentLevel
        BY <4>1, <4>2
      <4> QED
        BY <4>2, <4>3
    <3> QED
      BY <1>3, <3>1, <3>2
  <2>2. \/ b # 1 /\ m_vecThreads'[b].ulCurrentLevel = 0
        \/ Len(m_vecThreads') = Len(m_vecThreads) + 1 /\ m_vecThreads'[b] = Raised[b]
    BY <1>7, TickEffect
  <2>3. m_vecThreads'[1] = Raised[1]
    BY <1>1, <2>2, TickEffect
  <2>4. OlderIsFewer(next)'
    BY <1>2, <2>1, <2>2, OlderFewerStep
  <2>5. next + 1 <= Len(m_vecThreads')
    <3>1. CASE Len(m_vecThreads') = Len(m_vecThreads) + 1
      BY <1>1, <1>2, <2>1, <3>1
    <3>2. CASE next = 0
      BY <1>1, <3>2
    <3>3. CASE b # 1 /\ next = m + 1
      <4>1. /\ m_vecThreads[b].ulCurrentLevel \in Nat /\ Raised[b].ulCurrentLevel \in Nat
            /\ Raised[b].ulCurrentLevel <= m_vecThreads[b].ulCurrentLevel + 1
        BY <1>1, <3>3, RaisedByOne
      <4>2. Raised[1].ulCurrentLevel <= Raised[b].ulCurrentLevel
        BY <1>1, RaisedType DEF IsBest
      <4>3. m_vecThreads[b].ulCurrentLevel >= m
        BY <2>1, <3>3, <4>1, <4>2
      <4>4. b \in Older(m)
        BY <1>1, <3>3, <4>3 DEF Older
      <4>5. 2 * Cardinality(Older(m)) + 2 * m <= 2 * (Len(m_vecThreads) - 1) + Slack(m - m)
        BY <1>2, <4>4 DEF OlderIsFewer
      <4>6. Slack(m - m) = 0
        BY DEF Slack
      <4>7. Cardinality(Older(m)) \in Nat /\ Cardinality(Older(m)) >= 1
        BY <1>1, <4>4, OlderFinite
      <4> QED
        BY <1>1, <3>3, <4>5, <4>6, <4>7
    <3> QED
      BY <2>1, <2>2, <3>1, <3>2, <3>3
  <2>6. LevelsBounded(next)'
    BY <2>1, <2>3, <2>4, <2>5 DEF LevelsBounded
  <2> QED
    BY <2>6
<1> QED
  BY <1>6, <1>7

\* Every step keeps the invariant.
LEMMA WaitStep == TypeOK /\ TypeOK' /\ RetiredIsIdle /\ WaitInv /\ [Next]_vars => WaitInv'
<1> SUFFICES ASSUME TypeOK, TypeOK', RetiredIsIdle, WaitInv, [Next]_vars PROVE WaitInv'
  OBVIOUS
<1>1. CASE Start
  <2>1. m_vecThreads' = <<InitThread(Entry, 2)>> /\ Len(m_vecThreads') = 1
    BY <1>1 DEF Start
  <2>2. /\ m_vecThreads'[1].ulPriority = 2 /\ m_vecThreads'[1].ulCurrentLevel = 0
        /\ DOMAIN m_vecThreads' = {1}
    BY <2>1 DEF InitThread
  <2>3. \A k \in Nat : Older(k)' = {}
    BY <2>1 DEF Older
  <2>4. OlderIsFewer(0)'
    BY <2>3 DEF OlderIsFewer
  <2>5. LevelsBounded(0)'
    BY <2>1, <2>2, <2>4 DEF LevelsBounded
  <2>6. Priorities'
    BY <2>2 DEF Priorities
  <2> QED
    BY <2>5, <2>6 DEF WaitInv
<1>2. CASE Tick
  <2>1. PICK b \in DOMAIN m_vecThreads :
          /\ IsBest(b)
          /\ ExecutePlain(b) \/ ExecuteCrth(b) \/ ExecuteReturned(b)
    BY <1>2 DEF Tick
  <2>2. m_vecThreads # <<>>
    BY DEF TypeOK
  <2>3. PICK m \in Nat : LevelsBounded(m)
    BY <2>2 DEF WaitInv
  <2>4. Priorities
    BY <2>2 DEF WaitInv
  <2>5. Priorities'
    BY <2>1, <2>4, PrioritiesStep
  <2>6. \E next \in Nat : LevelsBounded(next)'
    BY <2>1, <2>3, <2>4, LevelsStep
  <2> QED
    BY <2>5, <2>6 DEF WaitInv
<1>3. CASE JumpOut \/ UNCHANGED vars
  <2>1. m_vecThreads' = m_vecThreads
    BY <1>3 DEF JumpOut, vars
  <2>2. \A k \in Nat : Older(k)' = Older(k)
    BY <2>1 DEF Older
  <2>3. \A m \in Nat : LevelsBounded(m) => LevelsBounded(m)'
    BY <2>1, <2>2 DEF LevelsBounded, OlderIsFewer
  <2>4. Priorities => Priorities'
    BY <2>1 DEF Priorities
  <2> QED
    BY <2>1, <2>3, <2>4 DEF WaitInv
<1> QED
  BY <1>1, <1>2, <1>3 DEF Next, Exited

LEMMA Waits == Safety => []WaitIsBounded
<1>1. Init => WaitInv
  BY DEF Init, WaitInv
<1>2. ASSUME TypeOK, WaitInv PROVE WaitIsBounded
  <2> SUFFICES ASSUME NEW i \in DOMAIN m_vecThreads
               PROVE  m_vecThreads[i].ulCurrentLevel <= 2 * (Len(m_vecThreads) - 1)
    <3>1. /\ Len(m_vecThreads) \in Nat
          /\ \A j \in DOMAIN m_vecThreads : m_vecThreads[j] \in Thread
      BY <1>2 DEF TypeOK
    <3>2. \A j \in DOMAIN m_vecThreads : m_vecThreads[j].ulCurrentLevel \in Nat
      BY <3>1 DEF Thread
    <3> QED
      BY <3>1, <3>2 DEF WaitIsBounded
  <2>1. /\ m_vecThreads \in Seq(Thread) /\ Len(m_vecThreads) \in Nat \ {0}
        /\ DOMAIN m_vecThreads = 1..Len(m_vecThreads) /\ m_vecThreads # <<>>
        /\ m_vecThreads[i] \in Thread
    BY <1>2 DEF TypeOK
  <2>2. PICK m \in Nat : LevelsBounded(m)
    BY <1>2, <2>1 DEF WaitInv
  <2>3. CASE i = 1
    BY <2>1, <2>2, <2>3 DEF LevelsBounded
  <2>4. CASE i # 1
    <3> DEFINE k == m_vecThreads[i].ulCurrentLevel
    <3>1. k \in Nat
      BY <2>1 DEF Thread
    <3>2. i \in Older(k)
      BY <2>1, <2>4, <3>1 DEF Older
    <3>3. 2 * Cardinality(Older(k)) + 2 * k <= 2 * (Len(m_vecThreads) - 1) + Slack(k - m)
      BY <2>2, <3>1, <3>2 DEF LevelsBounded, OlderIsFewer
    <3>4. Cardinality(Older(k)) \in Nat /\ Cardinality(Older(k)) >= 1
      BY <2>1, <3>1, <3>2, OlderFinite
    <3>5. Slack(k - m) <= k + 2
      BY <2>2, <3>1 DEF Slack
    <3>6. Slack(k - m) \in Nat
      BY <2>2, <3>1, SlackFacts
    <3> HIDE DEF k
    <3> QED
      BY <2>1, <3>1, <3>3, <3>4, <3>5, <3>6 DEF k
  <2> QED
    BY <2>3, <2>4
<1>3. Safety => []WaitInv
  BY <1>1, WaitStep, Typed, Idle, PTL DEF Safety
<1> QED
  BY <1>2, <1>3, Typed, PTL

\* The levels are bounded by twice the number of threads, so every thread's wait
\* is; the bound that is proved is tighter by one thread.
THEOREM WaitBounded == Spec => []WaitIsBounded
<1> QED
  BY Waits, PTL DEF Spec, Safety
=============================================================================
