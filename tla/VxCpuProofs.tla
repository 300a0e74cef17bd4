----------------------------- MODULE VxCpuProofs -----------------------------
(***************************************************************************)
(* Proofs about the instructions of VxCpu, one by one (VxLines) and as the *)
(* machine executes them (VxMachine).                                      *)
(*                                                                         *)
(* 1. The conditional jumps follow the order of what was last compared,    *)
(*    for every width of a word, every set of lines and any number of them *)
(*    between the comparison and the jump.  FlagsInv says what the flags   *)
(*    are after a comparison; every handler but that of cmp leaves them.   *)
(* 2. The result of a line does not depend on the order of its operands in *)
(*    the encoding, which the instruction set of the host decides.         *)
(* 3. Whatever the program is, every register of the machine keeps a word  *)
(*    and every byte a byte (MachineTypeOK): by one lemma per handler.     *)
(* 4. Whatever the program is, the machine's threads are run as VxThreads  *)
(*    runs threads, so that what VxThreadsProofs proves of the scheduler   *)
(*    holds of the machine.                                                *)
(***************************************************************************)
EXTENDS VxLines, VxMachine, SequenceTheorems, WellFoundedInduction, TLAPS

Fields == {"r", "ip", "zf", "pf", "nf", "ram"}
KeepsFlags(after, before) ==
    /\ Fields \subseteq DOMAIN after
    /\ after.zf = before.zf /\ after.pf = before.pf /\ after.nf = before.nf

\* The flags of the last comparison, of words whose difference fits in a word.
FlagsOf(cpu, a, b) ==
    {a, b, a - b} \subseteq Ints =>
        cpu.zf = (a = b) /\ cpu.pf = (a > b) /\ cpu.nf = (a < b)
FlagsInv ==
    /\ Fields \subseteq DOMAIN m
    /\ compared # <<>> => FlagsOf(m, compared[1], compared[2])
----------------------------------------------------------------------------
(* What handlers build their results from *)

\* A result: what its CPU is, and that only cmp has another flag in it.
Result(out, before) == KeepsFlags(out.m, before)

LEMMA Continues ==
    ASSUME NEW cpu, Fields \subseteq DOMAIN cpu, NEW before, KeepsFlags(cpu, before)
    PROVE  /\ Result(Continue(cpu), before) /\ Result(Fault(cpu), before)
           /\ \A ip : Result(JumpTo(cpu, ip), before) /\ Result(Create(cpu, ip), before)
<1>1. \A ip : KeepsFlags([cpu EXCEPT !.ip = ip], before)
  BY DEF KeepsFlags, Fields
<1> QED
  BY <1>1 DEF Result, Continue, Fault, JumpTo, Create

LEMMA Assigns ==
    ASSUME NEW cpu, NEW before, KeepsFlags(cpu, before), NEW o, NEW v
    PROVE  KeepsFlags(Assign(cpu, o, v), before)
BY DEF KeepsFlags, Fields, Assign

LEMMA Pushes ==
    ASSUME NEW cpu, Fields \subseteq DOMAIN cpu, NEW v
    PROVE  KeepsFlags(Pushed(cpu, v), cpu) /\ KeepsFlags(Popped(cpu), cpu)
BY DEF KeepsFlags, Fields, Pushed, Popped

LEMMA Same == ASSUME NEW cpu, Fields \subseteq DOMAIN cpu PROVE KeepsFlags(cpu, cpu)
BY DEF KeepsFlags

LEMMA OperationsKeep ==
    ASSUME NEW cpu, Fields \subseteq DOMAIN cpu, NEW in
    PROVE  /\ Result(MulHandler(cpu, in), cpu) /\ Result(DivHandler(cpu, in), cpu)
           /\ Result(AddHandler(cpu, in), cpu) /\ Result(SubHandler(cpu, in), cpu)
           /\ Result(MovHandler(cpu, in), cpu) /\ Result(LeaHandler(cpu, in), cpu)
           /\ Result(ShlHandler(cpu, in), cpu) /\ Result(ShrHandler(cpu, in), cpu)
           /\ Result(XorHandler(cpu, in), cpu) /\ Result(OrHandler(cpu, in), cpu)
           /\ Result(AndHandler(cpu, in), cpu) /\ Result(StkHandler(cpu, in), cpu)
<1>1. Result(Continue(cpu), cpu) /\ Result(Fault(cpu), cpu)
  BY Same, Continues
<1>2. \A o, v : Result(Continue(Assign(cpu, o, v)), cpu)
  <2> SUFFICES ASSUME NEW o, NEW v PROVE Result(Continue(Assign(cpu, o, v)), cpu)
    OBVIOUS
  <2>1. KeepsFlags(Assign(cpu, o, v), cpu)
    BY Same, Assigns
  <2>2. Fields \subseteq DOMAIN Assign(cpu, o, v)
    BY <2>1 DEF KeepsFlags
  <2> QED
    BY <2>1, <2>2, Continues
<1>3. Result(MulHandler(cpu, in), cpu)
  BY <1>1, <1>2 DEF MulHandler, TwoOperands, Operate
<1>4. Result(DivHandler(cpu, in), cpu)
  BY <1>1, <1>2 DEF DivHandler, TwoOperands, Operate
<1>5. Result(MovHandler(cpu, in), cpu)
  BY <1>1, <1>2 DEF MovHandler, TwoOperands, Operate
<1>6. Result(LeaHandler(cpu, in), cpu)
  BY <1>1, <1>2 DEF LeaHandler, Operate
<1>7. Result(StkHandler(cpu, in), cpu)
  BY <1>1, <1>2 DEF StkHandler, Operate
<1>8. Result(XorHandler(cpu, in), cpu)
  BY <1>1, <1>2 DEF XorHandler, TwoOperands, Operate
<1>9. Result(AddHandler(cpu, in), cpu) /\ Result(SubHandler(cpu, in), cpu)
  BY <1>1, <1>2 DEF AddHandler, SubHandler, TwoOperands, Operate
<1>10. Result(ShlHandler(cpu, in), cpu) /\ Result(ShrHandler(cpu, in), cpu)
  BY <1>1, <1>2 DEF ShlHandler, ShrHandler, TwoOperands, Operate
<1>11. Result(OrHandler(cpu, in), cpu)
  BY <1>1, <1>2 DEF OrHandler, TwoOperands, Operate
<1>12. Result(AndHandler(cpu, in), cpu)
  BY <1>1, <1>2 DEF AndHandler, TwoOperands, Operate
<1> QED
  BY <1>3, <1>4, <1>5, <1>6, <1>7, <1>8, <1>9, <1>10, <1>11, <1>12

LEMMA JumpsKeep ==
    ASSUME NEW cpu, Fields \subseteq DOMAIN cpu, NEW in
    PROVE  /\ Result(JmpHandler(cpu, in), cpu) /\ Result(JgHandler(cpu, in), cpu)
           /\ Result(JlHandler(cpu, in), cpu) /\ Result(JleHandler(cpu, in), cpu)
           /\ Result(JgeHandler(cpu, in), cpu) /\ Result(JzHandler(cpu, in), cpu)
           /\ Result(JnzHandler(cpu, in), cpu)
<1>1. Result(Continue(cpu), cpu) /\ Result(Fault(cpu), cpu) /\ \A ip : Result(JumpTo(cpu, ip), cpu)
  BY Same, Continues
<1> QED
  BY <1>1 DEF JumpWhen, JmpHandler, JgHandler, JlHandler, JleHandler, JgeHandler, JzHandler, JnzHandler

LEMMA StackKeeps ==
    ASSUME NEW cpu, Fields \subseteq DOMAIN cpu, NEW in
    PROVE  /\ Result(PushHandler(cpu, in), cpu) /\ Result(CallHandler(cpu, in), cpu)
           /\ Result(RetHandler(cpu, in), cpu) /\ Result(NopHandler(cpu, in), cpu)
           /\ Result(CrthHandler(cpu, in), cpu)
           /\ \A out \in PopOutcomes(cpu, in) : Result(out, cpu)
           /\ \A out \in NatvOutcomes(cpu, in) : Result(out, cpu)
<1>1. /\ Result(Continue(cpu), cpu) /\ Result(Fault(cpu), cpu)
      /\ \A ip : Result(JumpTo(cpu, ip), cpu) /\ Result(Create(cpu, ip), cpu)
  BY Same, Continues
<1>2. ASSUME NEW v
      PROVE  /\ Result(Continue(Pushed(cpu, v)), cpu) /\ Result(Fault(Pushed(cpu, v)), cpu)
             /\ \A ip : Result(JumpTo(Pushed(cpu, v), ip), cpu)
  <2>1. KeepsFlags(Pushed(cpu, v), cpu) /\ Fields \subseteq DOMAIN Pushed(cpu, v)
    BY Pushes DEF KeepsFlags
  <2> QED
    BY <2>1, Continues
<1>3. /\ \A ip : Result(JumpTo(Popped(cpu), ip), cpu)
      /\ \A o, v : Result(Continue(Assign(Popped(cpu), o, v)), cpu)
  <2>1. KeepsFlags(Popped(cpu), cpu) /\ Fields \subseteq DOMAIN Popped(cpu)
    BY Pushes DEF KeepsFlags
  <2>2. ASSUME NEW o, NEW v PROVE Result(Continue(Assign(Popped(cpu), o, v)), cpu)
    <3>1. KeepsFlags(Assign(Popped(cpu), o, v), cpu)
      BY <2>1, Assigns
    <3>2. Fields \subseteq DOMAIN Assign(Popped(cpu), o, v)
      BY <3>1 DEF KeepsFlags
    <3> QED
      BY <3>1, <3>2, Continues
  <2>3. \A ip : Result(JumpTo(Popped(cpu), ip), cpu)
    BY <2>1, Continues
  <2> QED
    BY <2>2, <2>3
<1>4. Result(PushHandler(cpu, in), cpu)
  BY <1>1, <1>2 DEF PushHandler
<1>5. Result(CallHandler(cpu, in), cpu)
  BY <1>1, <1>2 DEF CallHandler
<1>6. Result(RetHandler(cpu, in), cpu) /\ Result(NopHandler(cpu, in), cpu)
  BY <1>1, <1>3 DEF RetHandler, NopHandler
<1>7. Result(CrthHandler(cpu, in), cpu)
  BY <1>1 DEF CrthHandler
<1>8. \A out \in PopOutcomes(cpu, in) : Result(out, cpu)
  BY <1>1, <1>3 DEF PopOutcomes
<1>9. \A out \in NatvOutcomes(cpu, in) : Result(out, cpu)
  <2> DEFINE after(n) == [cpu EXCEPT !.r[7] = Wrap(Top(cpu) + n * IntBytes)]
  <2>1. ASSUME NEW n, NEW iRet PROVE Result(Continue([after(n) EXCEPT !.r[0] = iRet]), cpu)
    <3>1. KeepsFlags([after(n) EXCEPT !.r[0] = iRet], cpu)
      BY DEF KeepsFlags, Fields
    <3>2. PICK c : c = [after(n) EXCEPT !.r[0] = iRet]
      OBVIOUS
    <3>3. KeepsFlags(c, cpu)
      BY <3>1, <3>2
    <3>4. Result(Continue(c), cpu)
      BY <3>3, Continues DEF KeepsFlags
    <3> QED
      BY <3>2, <3>4
  <2> SUFFICES ASSUME NEW out \in NatvOutcomes(cpu, in) PROVE Result(out, cpu)
    OBVIOUS
  <2>2. PICK n : n = Imports[(IF Len(Imports) = 1 THEN 0 ELSE in.arg0) + 1]
    OBVIOUS
  <2>3. \/ out = Continue(cpu) \/ out = Fault(cpu)
        \/ \E iRet \in NativeResults : out = Continue([after(n) EXCEPT !.r[0] = iRet])
    BY <2>2 DEF NatvOutcomes
  <2> HIDE DEF after
  <2> QED
    BY <1>1, <2>1, <2>3
<1> QED
  BY <1>4, <1>5, <1>6, <1>7, <1>8, <1>9

\* All instructions but cmp.
LEMMA OutcomesKeep ==
    ASSUME NEW cpu, Fields \subseteq DOMAIN cpu, NEW in,
           in.op \in (TwoOps \cup OneOps \cup NoOps) \ {"cmp"},
           NEW out \in Outcomes(cpu, in)
    PROVE  Result(out, cpu)
<1>1. CASE in.op = "pop" \/ in.op = "natv"
  BY <1>1, StackKeeps DEF Outcomes
<1>2. CASE in.op \in TwoOps
  BY <1>2, OperationsKeep DEF Outcomes, TwoOps
<1>3. CASE in.op \in {"jmp", "jg", "jl", "jle", "jge", "jz", "jnz"}
  BY <1>3, JumpsKeep DEF Outcomes
<1>4. CASE in.op \in {"push", "call", "crth", "ret", "nop"}
  BY <1>4, StackKeeps DEF Outcomes
<1> QED
  BY <1>1, <1>2, <1>3, <1>4 DEF TwoOps, OneOps, NoOps
----------------------------------------------------------------------------
(* cmp, and the words *)

LEMMA EncodedOp ==
    ASSUME NEW line, line.op \in TwoOps \cup OneOps \cup NoOps
    PROVE  Encode(line).op = line.op
BY DEF Encode, Make2, Make1, Make0, TwoOps, OneOps, NoOps

\* A word is itself, wrapped.
LEMMA WrapsWord == ASSUME NEW v \in Ints PROVE Wrap(v) = v /\ v \in Int
<1>1. IntBits - 1 \in 0..IntBits /\ IntBits - 1 + 1 = IntBits
  <2>1. ByteBits \in Nat /\ IntBytes \in Nat /\ ByteBits > 0 /\ IntBytes > 0
    BY WidthAssumption
  <2>2. IntBits \in Nat /\ IntBits > 0
    BY <2>1 DEF IntBits
  <2> QED
    BY <2>2
<1>2. PICK h, w : h = 2^(IntBits - 1) /\ w = 2^IntBits
  OBVIOUS
<1>3. h \in Nat /\ h > 0 /\ w = 2 * h
  BY <1>1, <1>2, PowerAssumption
<1>4. v \in Int /\ 0 - h <= v /\ v <= h - 1
  BY <1>2, <1>3 DEF Ints, MinInt
<1>5. v % w = IF v < 0 THEN v + w ELSE v
  BY <1>3, <1>4
<1>6. Wrap(v) = IF v % w >= h THEN (v % w) - w ELSE v % w
  BY <1>2 DEF Wrap, Unsigned
<1> QED
  BY <1>3, <1>4, <1>5, <1>6

\* cmp sets the flags to the order of what it compares.
LEMMA CmpSets ==
    ASSUME NEW cpu, Fields \subseteq DOMAIN cpu, NEW in, in.op = "cmp",
           NEW out \in Outcomes(cpu, in), ~out.fault
    PROVE  /\ Fields \subseteq DOMAIN out.m
           /\ NoDest(in) => KeepsFlags(out.m, cpu)
           /\ ~NoDest(in) => FlagsOf(out.m, Value(cpu, Dest(cpu, in)), Value(cpu, Src(cpu, in)))
<1>1. out = CmpHandler(cpu, in)
  BY DEF Outcomes
<1>2. PICK a, b, iRes : a = Value(cpu, Dest(cpu, in)) /\ b = Value(cpu, Src(cpu, in)) /\ iRes = Wrap(a - b)
  OBVIOUS
<1>3. CASE NoDest(in)
  <2>1. out = Continue(cpu)
    BY <1>1, <1>3 DEF CmpHandler
  <2> QED
    BY <1>3, <2>1, Same, Continues DEF Result, KeepsFlags
<1>4. CASE ~NoDest(in)
  <2> DEFINE set == [cpu EXCEPT !.zf = iRes = 0, !.pf = iRes > 0, !.nf = iRes < 0]
  <2>1. out = Fault(cpu) \/ out = Continue(set)
    BY <1>1, <1>2, <1>4 DEF CmpHandler
  <2>2. out.m = set
    BY <2>1 DEF Fault, Continue
  <2>3. Fields \subseteq DOMAIN out.m /\ out.m.zf = (iRes = 0) /\ out.m.pf = (iRes > 0) /\ out.m.nf = (iRes < 0)
    BY <2>2 DEF Fields
  <2>4. FlagsOf(out.m, a, b)
    <3> SUFFICES ASSUME a \in Ints, b \in Ints, a - b \in Ints
                 PROVE  out.m.zf = (a = b) /\ out.m.pf = (a > b) /\ out.m.nf = (a < b)
      BY DEF FlagsOf
    <3>1. iRes = a - b /\ a \in Int /\ b \in Int
      BY <1>2, WrapsWord
    <3> QED
      BY <2>3, <3>1
  <2> QED
    BY <1>2, <1>4, <2>3, <2>4
<1> QED
  BY <1>3, <1>4
----------------------------------------------------------------------------
(* The theorem *)

LEMMA InitFlagsInv == LinesInit => FlagsInv
BY DEF LinesInit, FlagsInv, Fields

LEMMA NextFlagsInv == FlagsInv /\ [LinesNext]_lineVars => FlagsInv'
<1> SUFFICES ASSUME FlagsInv, [LinesNext]_lineVars PROVE FlagsInv'
  OBVIOUS
<1>1. CASE UNCHANGED lineVars
  BY <1>1 DEF lineVars, FlagsInv, FlagsOf
<1>2. CASE LinesNext
  <2>1. PICK line \in StepLines : Execute(line)
    BY <1>2 DEF LinesNext
  <2>2. PICK in : in = Encode(line)
    OBVIOUS
  <2>3. in.op = line.op /\ line.op \in TwoOps \cup OneOps \cup NoOps
    BY <2>2, LinesAssumption, EncodedOp
  <2>4. PICK out \in Outcomes(m, in) : ~out.fault /\ m' = [out.m EXCEPT !.ip = 0]
    BY <2>1, <2>2 DEF Execute
  <2>5. compared' = IF in.op = "cmp" /\ ~NoDest(in)
                    THEN <<Value(m, Dest(m, in)), Value(m, Src(m, in))>>
                    ELSE compared
    BY <2>1, <2>2 DEF Execute
  <2>6. Fields \subseteq DOMAIN m
    BY DEF FlagsInv
  <2>7. CASE in.op = "cmp" /\ ~NoDest(in)
    <3>1. /\ Fields \subseteq DOMAIN out.m
          /\ FlagsOf(out.m, Value(m, Dest(m, in)), Value(m, Src(m, in)))
      BY <2>4, <2>6, <2>7, CmpSets
    <3>2. Fields \subseteq DOMAIN m' /\ m'.zf = out.m.zf /\ m'.pf = out.m.pf /\ m'.nf = out.m.nf
      BY <2>4, <3>1 DEF Fields
    <3>3. FlagsOf(m', compared'[1], compared'[2])
      BY <2>5, <2>7, <3>1, <3>2 DEF FlagsOf
    <3> QED
      BY <3>2, <3>3 DEF FlagsInv, FlagsOf
  <2>8. CASE ~(in.op = "cmp" /\ ~NoDest(in))
    <3>1. KeepsFlags(out.m, m)
      <4>1. CASE in.op = "cmp"
        BY <2>4, <2>6, <2>8, <4>1, CmpSets
      <4>2. CASE in.op # "cmp"
        BY <2>3, <2>4, <2>6, <4>2, OutcomesKeep DEF Result
      <4> QED
        BY <4>1, <4>2
    <3>2. Fields \subseteq DOMAIN m' /\ m'.zf = m.zf /\ m'.pf = m.pf /\ m'.nf = m.nf
      BY <2>4, <3>1 DEF KeepsFlags, Fields
    <3>3. compared' = compared
      BY <2>5, <2>8
    <3> QED
      BY <3>2, <3>3 DEF FlagsInv, FlagsOf
  <2> QED
    BY <2>7, <2>8
<1> QED
  BY <1>1, <1>2

\* A jump to a constant is taken if its flags say so.
LEMMA TakenWhen ==
    ASSUME NEW a, NEW b, a \in Int, b \in Int,
           m.zf = (a = b), m.pf = (a > b), m.nf = (a < b)
    PROVE  JumpsAgree(a, b)
<1> DEFINE jump(op) == Make1(op, C(3), 1)
<1>1. \A op : jump(op).op = op /\ ~jump(op).use0 /\ ~jump(op).drf0
  BY DEF Make1, C
<1>2. \A in : JumpTo(m, in.arg0).advance = FALSE /\ Continue(m).advance = TRUE
  BY DEF JumpTo, Continue
<1>3. \A op : JumpWhen(TRUE, m, jump(op)).advance = FALSE /\ JumpWhen(FALSE, m, jump(op)).advance = TRUE
  BY <1>1, <1>2 DEF JumpWhen
<1> HIDE DEF jump
<1>4. /\ Outcomes(m, jump("jg")) = {JumpWhen(m.pf, m, jump("jg"))}
      /\ Outcomes(m, jump("jl")) = {JumpWhen(m.nf, m, jump("jl"))}
      /\ Outcomes(m, jump("jle")) = {JumpWhen(m.nf \/ m.zf, m, jump("jle"))}
      /\ Outcomes(m, jump("jge")) = {JumpWhen(m.pf \/ m.zf, m, jump("jge"))}
      /\ Outcomes(m, jump("jz")) = {JumpWhen(m.zf, m, jump("jz"))}
      /\ Outcomes(m, jump("jnz")) = {JumpWhen(~m.zf, m, jump("jnz"))}
  <2>1. Outcomes(m, jump("jg")) = {JumpWhen(m.pf, m, jump("jg"))}
    BY <1>1, SMTT(30) DEF Outcomes, JgHandler
  <2>2. Outcomes(m, jump("jl")) = {JumpWhen(m.nf, m, jump("jl"))}
    BY <1>1, SMTT(30) DEF Outcomes, JlHandler
  <2>3. Outcomes(m, jump("jle")) = {JumpWhen(m.nf \/ m.zf, m, jump("jle"))}
    BY <1>1, SMTT(30) DEF Outcomes, JleHandler
  <2>4. Outcomes(m, jump("jge")) = {JumpWhen(m.pf \/ m.zf, m, jump("jge"))}
    BY <1>1, SMTT(30) DEF Outcomes, JgeHandler
  <2>5. Outcomes(m, jump("jz")) = {JumpWhen(m.zf, m, jump("jz"))}
    BY <1>1, SMTT(30) DEF Outcomes, JzHandler
  <2>6. Outcomes(m, jump("jnz")) = {JumpWhen(~m.zf, m, jump("jnz"))}
    BY <1>1, SMTT(30) DEF Outcomes, JnzHandler
  <2> QED
    BY <2>1, <2>2, <2>3, <2>4, <2>5, <2>6
<1>5. \A op : Taken(op) <=> \A out \in Outcomes(m, jump(op)) : ~out.advance
  BY DEF Taken, jump
<1>6. ASSUME NEW op, NEW flag \in BOOLEAN, Outcomes(m, jump(op)) = {JumpWhen(flag, m, jump(op))}
      PROVE  Taken(op) <=> flag
  BY <1>3, <1>5, <1>6
<1>7. m.zf \in BOOLEAN /\ m.pf \in BOOLEAN /\ m.nf \in BOOLEAN
  OBVIOUS
<1>8. /\ Taken("jg") <=> m.pf
      /\ Taken("jl") <=> m.nf
      /\ Taken("jle") <=> (m.nf \/ m.zf)
      /\ Taken("jge") <=> (m.pf \/ m.zf)
      /\ Taken("jz") <=> m.zf
      /\ Taken("jnz") <=> ~m.zf
  <2>1. (m.nf \/ m.zf) \in BOOLEAN /\ (m.pf \/ m.zf) \in BOOLEAN /\ (~m.zf) \in BOOLEAN
    OBVIOUS
  <2>2. Taken("jg") <=> m.pf
    BY <1>4, <1>6, <1>7
  <2>3. Taken("jl") <=> m.nf
    BY <1>4, <1>6, <1>7
  <2>4. Taken("jle") <=> (m.nf \/ m.zf)
    BY <1>4, <1>6, <2>1
  <2>5. Taken("jge") <=> (m.pf \/ m.zf)
    BY <1>4, <1>6, <2>1
  <2>6. Taken("jz") <=> m.zf
    BY <1>4, <1>6, <1>7
  <2>7. Taken("jnz") <=> ~m.zf
    BY <1>4, <1>6, <2>1
  <2> QED
    BY <2>2, <2>3, <2>4, <2>5, <2>6, <2>7
<1>9. /\ m.pf <=> a > b
      /\ m.nf <=> a < b
      /\ m.zf <=> a = b
      /\ (m.nf \/ m.zf) <=> a <= b
      /\ (m.pf \/ m.zf) <=> a >= b
      /\ ~m.zf <=> a # b
  <2>1. (a <= b <=> a < b \/ a = b) /\ (a >= b <=> a > b \/ a = b)
    OBVIOUS
  <2>2. (m.pf <=> a > b) /\ (m.nf <=> a < b) /\ (m.zf <=> a = b)
    BY Zenon
  <2> QED
    BY <2>1, <2>2, Zenon
<1>10. \A op : Taken(op) \in BOOLEAN
  BY DEF Taken
<1> QED
  BY <1>8, <1>9, <1>10 DEF JumpsAgree

THEOREM FlagsInvariant == LinesSpec => []FlagsInv
<1> QED
  BY InitFlagsInv, NextFlagsInv, PTL DEF LinesSpec

\* However many lines that compare nothing were executed since, and whatever
\* they did to registers and memory, the six jumps follow the order of the
\* words last compared, of any width, if their difference fits in a word.
THEOREM JumpsFollowComparison == LinesSpec => []JumpsFollowOrder
<1>1. FlagsInv => JumpsFollowOrder
  <2> SUFFICES ASSUME FlagsInv, compared # <<>>, NEW a, NEW b, a = compared[1], b = compared[2],
                      a \in Ints, b \in Ints, a - b \in Ints
               PROVE  JumpsAgree(a, b)
    BY DEF JumpsFollowOrder
  <2>1. m.zf = (a = b) /\ m.pf = (a > b) /\ m.nf = (a < b)
    BY DEF FlagsInv, FlagsOf
  <2>2. a \in Int /\ b \in Int
    BY WrapsWord
  <2> QED
    BY <2>1, <2>2, TakenWhen
<1> QED
  BY <1>1, FlagsInvariant, PTL
----------------------------------------------------------------------------
(* The handlers of two instruction sets *)

LEMMA SameNumbers ==
    /\ \A v : Other!Unsigned(v) = Unsigned(v) /\ Other!Wrap(v) = Wrap(v) /\ Other!Host(v) = Host(v)
    /\ Other!MinInt = MinInt /\ Other!IntBits = IntBits
BY DEF Other!Unsigned, Unsigned, Other!Wrap, Wrap, Other!IntBits, IntBits, Other!Host, Host,
       Other!MinInt, MinInt

LEMMA SameQuotient == \A a, b : Other!Quotient(a, b) = Quotient(a, b)
BY DEF Other!Quotient, Quotient

LEMMA SameBits ==
    \A a, b : /\ Other!XorBits(a, b) = XorBits(a, b)
              /\ Other!OrBits(a, b) = OrBits(a, b)
              /\ Other!AndBits(a, b) = AndBits(a, b)
<1> USE SameNumbers DEF Other!BitByBit, BitByBit, Other!Unsigned, Unsigned, Other!IntBits, IntBits
<1>1. \A a, b : Other!XorBits(a, b) = XorBits(a, b)
  BY DEF Other!XorBits, XorBits
<1>2. \A a, b : Other!OrBits(a, b) = OrBits(a, b)
  BY DEF Other!OrBits, OrBits
<1>3. \A a, b : Other!AndBits(a, b) = AndBits(a, b)
  BY DEF Other!AndBits, AndBits
<1> QED
  BY <1>1, <1>2, <1>3

LEMMA SameMemory ==
    /\ \A memory, a : Other!Load(memory, a) = Load(memory, a) /\ Other!Mapped(memory, a) = Mapped(memory, a)
    /\ \A memory, a, v : Other!Store(memory, a, v) = Store(memory, a, v)
<1>1. \A memory, a : Other!Load(memory, a) = Load(memory, a)
  BY SameNumbers DEF Other!Load, Load
<1>2. \A memory, a : Other!Mapped(memory, a) = Mapped(memory, a)
  BY DEF Other!Mapped, Mapped, Other!IntAt, IntAt
<1>3. \A memory, a, v : Other!Store(memory, a, v) = Store(memory, a, v)
  BY SameNumbers DEF Other!Store, Store, Other!IntAt, IntAt, Other!ByteOf, ByteOf
<1> QED
  BY <1>1, <1>2, <1>3

LEMMA SameOperands ==
    ASSUME NEW cpu
    PROVE  /\ \A k : Other!Reg(k) = Reg(k) /\ Other!Mem(k) = Mem(k) /\ Other!Imm(k) = Imm(k)
           /\ \A o : Other!Value(cpu, o) = Value(cpu, o) /\ Other!Accessible(cpu, o) = Accessible(cpu, o)
           /\ \A o, v : Other!Assign(cpu, o, v) = Assign(cpu, o, v)
           /\ \A deref, reg : Other!RegOperand(cpu, deref, reg) = RegOperand(cpu, deref, reg)
           /\ Other!Top(cpu) = Top(cpu) /\ Other!Below(cpu) = Below(cpu)
           /\ \A v : Other!Pushed(cpu, v) = Pushed(cpu, v)
           /\ Other!Popped(cpu) = Popped(cpu)
           /\ Other!Continue(cpu) = Continue(cpu) /\ Other!Fault(cpu) = Fault(cpu)
           /\ \A ip : Other!JumpTo(cpu, ip) = JumpTo(cpu, ip) /\ Other!Create(cpu, ip) = Create(cpu, ip)
<1>1. \A k : Other!Reg(k) = Reg(k) /\ Other!Mem(k) = Mem(k) /\ Other!Imm(k) = Imm(k)
  BY DEF Other!Reg, Reg, Other!Mem, Mem, Other!Imm, Imm
<1>2. \A o : Other!Value(cpu, o) = Value(cpu, o)
  BY SameMemory DEF Other!Value, Value
<1>3. \A o : Other!Accessible(cpu, o) = Accessible(cpu, o)
  BY SameMemory DEF Other!Accessible, Accessible
<1>4. \A o, v : Other!Assign(cpu, o, v) = Assign(cpu, o, v)
  BY SameMemory DEF Other!Assign, Assign
<1>5. \A deref, reg : Other!RegOperand(cpu, deref, reg) = RegOperand(cpu, deref, reg)
  BY <1>1, SameNumbers DEF Other!RegOperand, RegOperand, Other!Pointee, Pointee
<1>6. /\ Other!Top(cpu) = Top(cpu) /\ Other!Below(cpu) = Below(cpu)
      /\ \A v : Other!Pushed(cpu, v) = Pushed(cpu, v)
      /\ Other!Popped(cpu) = Popped(cpu)
  BY SameNumbers, SameMemory DEF Other!Top, Top, Other!Below, Below, Other!Pushed, Pushed, Other!Popped, Popped
<1>7. /\ Other!Continue(cpu) = Continue(cpu) /\ Other!Fault(cpu) = Fault(cpu)
      /\ \A ip : Other!JumpTo(cpu, ip) = JumpTo(cpu, ip) /\ Other!Create(cpu, ip) = Create(cpu, ip)
  BY DEF Other!Continue, Continue, Other!Fault, Fault, Other!JumpTo, JumpTo, Other!Create, Create
<1> QED
  BY <1>1, <1>2, <1>3, <1>4, <1>5, <1>6, <1>7

\* Two encodings of a line: the constants that the line has are found.
Alike(in, other) ==
    /\ other.op = in.op /\ other.next = in.next
    /\ other.use0 = in.use0 /\ other.use1 = in.use1 /\ other.drf0 = in.drf0 /\ other.drf1 = in.drf1
    /\ other.reg0 = in.reg0 /\ other.reg1 = in.reg1
    /\ {in.use0, in.use1, in.drf0, in.drf1} \subseteq BOOLEAN
AlikeTwo(in, other) ==
    /\ Alike(in, other)
    /\ ~in.use0 => Other!DestArg(other) = DestArg(in)
    /\ ~in.use1 => Other!SrcArg(other) = SrcArg(in)

LEMMA SameSources ==
    ASSUME NEW cpu, NEW in, NEW other, AlikeTwo(in, other)
    PROVE  /\ Other!NoDest(other) = NoDest(in)
           /\ Other!Dest(cpu, other) = Dest(cpu, in)
           /\ Other!Src(cpu, other) = Src(cpu, in)
<1>1. Other!NoDest(other) = NoDest(in)
  BY DEF Other!NoDest, NoDest, AlikeTwo, Alike
<1>2. Other!Dest(cpu, other) = Dest(cpu, in)
  BY SameOperands, SameNumbers DEF Other!Dest, Dest, AlikeTwo, Alike
<1>3. Other!Src(cpu, other) = Src(cpu, in)
  BY SameOperands, SameNumbers DEF Other!Src, Src, AlikeTwo, Alike
<1> QED
  BY <1>1, <1>2, <1>3

LEMMA SameOperations ==
    ASSUME NEW cpu, NEW in, NEW other, AlikeTwo(in, other)
    PROVE  /\ Other!MulHandler(cpu, other) = MulHandler(cpu, in)
           /\ Other!DivHandler(cpu, other) = DivHandler(cpu, in)
           /\ Other!AddHandler(cpu, other) = AddHandler(cpu, in)
           /\ Other!SubHandler(cpu, other) = SubHandler(cpu, in)
           /\ Other!MovHandler(cpu, other) = MovHandler(cpu, in)
           /\ Other!ShlHandler(cpu, other) = ShlHandler(cpu, in)
           /\ Other!ShrHandler(cpu, other) = ShrHandler(cpu, in)
           /\ Other!XorHandler(cpu, other) = XorHandler(cpu, in)
           /\ Other!OrHandler(cpu, other) = OrHandler(cpu, in)
           /\ Other!AndHandler(cpu, other) = AndHandler(cpu, in)
           /\ Other!CmpHandler(cpu, other) = CmpHandler(cpu, in)
           /\ Other!StkHandler(cpu, other) = StkHandler(cpu, in)
<1> USE SameSources, SameOperands, SameNumbers
    DEF Other!TwoOperands, TwoOperands, Other!Operate, Operate, Other!Never, Never
<1>1. Other!MulHandler(cpu, other) = MulHandler(cpu, in)
  BY DEF Other!MulHandler, MulHandler
<1>2. Other!DivHandler(cpu, other) = DivHandler(cpu, in)
  BY SameQuotient DEF Other!DivHandler, DivHandler
<1>3. Other!AddHandler(cpu, other) = AddHandler(cpu, in)
  BY DEF Other!AddHandler, AddHandler
<1>4. Other!SubHandler(cpu, other) = SubHandler(cpu, in)
  BY DEF Other!SubHandler, SubHandler
<1>5. Other!MovHandler(cpu, other) = MovHandler(cpu, in)
  BY DEF Other!MovHandler, MovHandler, Other!Second, Second
<1>6. Other!ShlHandler(cpu, other) = ShlHandler(cpu, in)
  BY DEF Other!ShlHandler, ShlHandler, Other!Count, Count
<1>7. Other!ShrHandler(cpu, other) = ShrHandler(cpu, in)
  BY DEF Other!ShrHandler, ShrHandler, Other!Count, Count
<1>8. Other!XorHandler(cpu, other) = XorHandler(cpu, in)
  BY SameBits DEF Other!XorHandler, XorHandler
<1>9. Other!OrHandler(cpu, other) = OrHandler(cpu, in)
  BY SameBits DEF Other!OrHandler, OrHandler
<1>10. Other!AndHandler(cpu, other) = AndHandler(cpu, in)
  BY SameBits DEF Other!AndHandler, AndHandler
<1>11. Other!CmpHandler(cpu, other) = CmpHandler(cpu, in)
  <2> DEFINE sets(iRes) == [cpu EXCEPT !.zf = iRes = 0, !.pf = iRes > 0, !.nf = iRes < 0]
  <2>1. PICK d, s, iRes, set : /\ d = Dest(cpu, in) /\ s = Src(cpu, in)
                               /\ iRes = Wrap(Value(cpu, d) - Value(cpu, s)) /\ set = sets(iRes)
    OBVIOUS
  <2>2. CmpHandler(cpu, in) =
          CASE NoDest(in) -> Continue(cpu)
            [] ~NoDest(in) /\ ~(Accessible(cpu, d) /\ Accessible(cpu, s)) -> Fault(cpu)
            [] OTHER -> Continue(set)
    BY ONLY <2>1 DEF CmpHandler
  <2>3. /\ d = Other!Dest(cpu, other) /\ s = Other!Src(cpu, other)
        /\ iRes = Other!Wrap(Other!Value(cpu, d) - Other!Value(cpu, s))
    BY <2>1
  <2>4. Other!CmpHandler(cpu, other) =
          CASE Other!NoDest(other) -> Other!Continue(cpu)
            [] ~Other!NoDest(other) /\ ~(Other!Accessible(cpu, d) /\ Other!Accessible(cpu, s)) -> Other!Fault(cpu)
            [] OTHER -> Other!Continue(set)
    BY ONLY <2>1, <2>3 DEF Other!CmpHandler
  <2>5. Other!Continue(set) = Continue(set)
    BY SameOperands
  <2> QED
    BY <2>2, <2>4, <2>5
<1>12. Other!StkHandler(cpu, other) = StkHandler(cpu, in)
  BY DEF Other!StkHandler, StkHandler, Other!Second, Second, AlikeTwo, Alike
<1> QED
  BY <1>1, <1>2, <1>3, <1>4, <1>5, <1>6, <1>7, <1>8, <1>9, <1>10, <1>11, <1>12

\* lea, unless it takes the address of the constant in its own encoding.
OwnArgument(in) == ~in.use1 /\ (in.use0 => in.drf0) /\ ~(in.use0 /\ in.drf1)

LEMMA SameLea ==
    ASSUME NEW cpu, NEW in, NEW other, AlikeTwo(in, other), ~NoDest(in) => ~OwnArgument(in)
    PROVE  Other!LeaHandler(cpu, other) = LeaHandler(cpu, in)
<1> USE SameSources, SameOperands, SameNumbers
    DEF Other!LeaHandler, LeaHandler, Other!Operate, Operate, Other!Never, Never, Other!Second, Second
<1>1. CASE NoDest(in)
  BY <1>1
<1>2. CASE ~NoDest(in)
  <2>1. Other!LeaSrc(cpu, other) = LeaSrc(cpu, in)
    <3>1. CASE in.use1
      BY <3>1, ZenonT(30) DEF Other!LeaSrc, LeaSrc, AlikeTwo, Alike
    <3>2. CASE ~in.use1
      BY <1>2, <3>2 DEF Other!LeaSrc, LeaSrc, AlikeTwo, Alike, OwnArgument
    <3> QED
      BY <3>1, <3>2
  <2> QED
    BY <1>2, <2>1
<1> QED
  BY <1>1, <1>2

AlikeOne(in, other) == Alike(in, other) /\ (~in.use0 => other.arg0 = in.arg0)

LEMMA SameJumps ==
    ASSUME NEW cpu, NEW in, NEW other, AlikeOne(in, other)
    PROVE  /\ Other!JmpHandler(cpu, other) = JmpHandler(cpu, in)
           /\ Other!JgHandler(cpu, other) = JgHandler(cpu, in)
           /\ Other!JlHandler(cpu, other) = JlHandler(cpu, in)
           /\ Other!JleHandler(cpu, other) = JleHandler(cpu, in)
           /\ Other!JgeHandler(cpu, other) = JgeHandler(cpu, in)
           /\ Other!JzHandler(cpu, other) = JzHandler(cpu, in)
           /\ Other!JnzHandler(cpu, other) = JnzHandler(cpu, in)
<1>1. \A taken : Other!JumpWhen(taken, cpu, other) = JumpWhen(taken, cpu, in)
  BY SameOperands, SameNumbers DEF Other!JumpWhen, JumpWhen, AlikeOne, Alike
<1> QED
  BY <1>1 DEF Other!JmpHandler, JmpHandler, Other!JgHandler, JgHandler, Other!JlHandler, JlHandler,
     Other!JleHandler, JleHandler, Other!JgeHandler, JgeHandler, Other!JzHandler, JzHandler,
     Other!JnzHandler, JnzHandler

LEMMA SameStack ==
    ASSUME NEW cpu, NEW in, NEW other, AlikeOne(in, other)
    PROVE  /\ Other!PushHandler(cpu, other) = PushHandler(cpu, in)
           /\ Other!CallHandler(cpu, other) = CallHandler(cpu, in)
           /\ Other!CrthHandler(cpu, other) = CrthHandler(cpu, in)
<1> USE SameOperands, SameNumbers, SameMemory DEF AlikeOne, Alike
<1>1. Other!PushHandler(cpu, other) = PushHandler(cpu, in)
  BY DEF Other!PushHandler, PushHandler
<1>2. Other!CallHandler(cpu, other) = CallHandler(cpu, in)
  BY DEF Other!CallHandler, CallHandler
<1>3. Other!CrthHandler(cpu, other) = CrthHandler(cpu, in)
  BY DEF Other!CrthHandler, CrthHandler
<1> QED
  BY <1>1, <1>2, <1>3

LEMMA SamePops ==
    ASSUME NEW cpu, NEW in, NEW other, Alike(in, other)
    PROVE  /\ Other!RetHandler(cpu, other) = RetHandler(cpu, in)
           /\ Other!NopHandler(cpu, other) = NopHandler(cpu, in)
           /\ Other!PopOutcomes(cpu, other) = PopOutcomes(cpu, in)
<1> USE SameOperands, SameNumbers, SameMemory DEF Alike
<1>1. Other!RetHandler(cpu, other) = RetHandler(cpu, in)
  BY DEF Other!RetHandler, RetHandler
<1>2. Other!NopHandler(cpu, other) = NopHandler(cpu, in)
  BY DEF Other!NopHandler, NopHandler
<1>3. Other!PopOutcomes(cpu, other) = PopOutcomes(cpu, in)
  BY DEF Other!PopOutcomes, PopOutcomes
<1> QED
  BY <1>1, <1>2, <1>3

LEMMA SameNatv ==
    ASSUME NEW cpu, NEW in, NEW other, other.arg0 = in.arg0
    PROVE  Other!NatvOutcomes(cpu, other) = NatvOutcomes(cpu, in)
BY SameOperands, SameNumbers, SameMemory DEF Other!NatvOutcomes, NatvOutcomes

\* By kind of instruction.
LEMMA SameOutcomes ==
    ASSUME NEW cpu, NEW in, NEW other, Alike(in, other), in.op \in TwoOps \cup OneOps \cup NoOps,
           in.op \in TwoOps => AlikeTwo(in, other),
           in.op \in OneOps => AlikeOne(in, other),
           in.op = "natv" => ~in.use0,
           in.op = "lea" /\ ~NoDest(in) => ~OwnArgument(in)
    PROVE  Other!Outcomes(cpu, other) = Outcomes(cpu, in)
<1>1. other.op = in.op
  BY DEF Alike
<1>2. CASE in.op \in TwoOps
  <2>1. CASE in.op = "lea"
    BY <1>1, <1>2, <2>1, SameLea DEF Other!Outcomes, Outcomes
  <2>2. CASE in.op # "lea"
    BY <1>1, <1>2, <2>2, SameOperations DEF Other!Outcomes, Outcomes, TwoOps
  <2> QED
    BY <2>1, <2>2
<1>3. CASE in.op \in {"jmp", "jg", "jl", "jle", "jge", "jz", "jnz"}
  BY <1>1, <1>3, SameJumps DEF Other!Outcomes, Outcomes, OneOps
<1>4. CASE in.op \in {"push", "call", "crth"}
  BY <1>1, <1>4, SameStack DEF Other!Outcomes, Outcomes, OneOps
<1>5. CASE in.op \in {"pop", "ret", "nop"}
  BY <1>1, <1>5, SamePops DEF Other!Outcomes, Outcomes
<1>6. CASE in.op = "natv"
  <2>1. other.arg0 = in.arg0
    BY <1>6 DEF OneOps, AlikeOne
  <2> QED
    BY <1>1, <1>6, <2>1, SameNatv DEF Other!Outcomes, Outcomes
<1> QED
  BY <1>2, <1>3, <1>4, <1>5, <1>6 DEF OneOps, NoOps

\* The compiler's side: the constants are found whatever the order and the
\* random bits are.
LEMMA EncodedAlike ==
    ASSUME NEW line \in Lines
    PROVE  /\ Alike(Encode(line), OtherEncode(line))
           /\ Encode(line).op = line.op
           /\ line.op \in TwoOps => AlikeTwo(Encode(line), OtherEncode(line))
           /\ line.op \in OneOps => AlikeOne(Encode(line), OtherEncode(line))
<1>1. /\ line.op \in TwoOps \cup OneOps \cup NoOps
      /\ {line.dst.reg, line.dst.deref, line.src.reg, line.src.deref} \subseteq BOOLEAN
  BY LinesAssumption
<1> USE DEF Alike, RegOf, OtherEnc!RegOf
<1>2. CASE line.op \in TwoOps
  <2>1. /\ Encode(line) = Make2(line.op, line.dst, line.src, 1)
        /\ OtherEncode(line) = OtherEnc!Make2(line.op, line.dst, line.src, 1)
    BY <1>2 DEF Encode, OtherEncode, TwoOps, OneOps, NoOps
  <2>2. Alike(Encode(line), OtherEncode(line)) /\ Encode(line).op = line.op
    BY <1>1, <2>1 DEF Make2, OtherEnc!Make2
  <2>3. AlikeTwo(Encode(line), OtherEncode(line))
    BY <2>1, <2>2 DEF AlikeTwo, Make2, OtherEnc!Make2, DestArg, SrcArg, Other!DestArg, Other!SrcArg,
       ArgOf, OtherEnc!ArgOf
  <2> QED
    BY <1>2, <2>2, <2>3 DEF TwoOps, OneOps
<1>3. CASE line.op \in OneOps
  <2>1. /\ Encode(line) = Make1(line.op, line.dst, 1)
        /\ OtherEncode(line) = OtherEnc!Make1(line.op, line.dst, 1)
    BY <1>3 DEF Encode, OtherEncode, TwoOps, OneOps, NoOps
  <2>2. Alike(Encode(line), OtherEncode(line)) /\ Encode(line).op = line.op
    BY <1>1, <2>1 DEF Make1, OtherEnc!Make1
  <2>3. AlikeOne(Encode(line), OtherEncode(line))
    BY <2>1, <2>2 DEF AlikeOne, Make1, OtherEnc!Make1, ArgOf, OtherEnc!ArgOf
  <2> QED
    BY <1>3, <2>2, <2>3 DEF TwoOps, OneOps
<1>4. CASE line.op \in NoOps
  <2>1. /\ Encode(line) = Make0(line.op, 1)
        /\ OtherEncode(line) = OtherEnc!Make0(line.op, 1)
    BY <1>4 DEF Encode, OtherEncode, TwoOps, OneOps, NoOps
  <2>2. Alike(Encode(line), OtherEncode(line)) /\ Encode(line).op = line.op
    BY <2>1 DEF Make0, OtherEnc!Make0, Make1, OtherEnc!Make1, C, OtherEnc!C
  <2> QED
    BY <1>4, <2>2 DEF TwoOps, OneOps, NoOps
<1> QED
  BY <1>1, <1>2, <1>3, <1>4

\* Whatever the two instruction sets and the random bits are, and in whatever
\* state it is executed, a line does the same.
THEOREM EncodingHidden == LinesSpec => []EncodingDoesNotShow
<1>1. EncodingDoesNotShow
  <2> SUFFICES ASSUME NEW line \in Lines, ~TakesOwnAddress(line)
               PROVE  Outcomes(m, Encode(line)) = Other!Outcomes(m, OtherEncode(line))
    BY DEF EncodingDoesNotShow
  <2>1. PICK in, other : in = Encode(line) /\ other = OtherEncode(line)
    OBVIOUS
  <2>2. /\ Alike(in, other) /\ in.op = line.op
        /\ in.op \in TwoOps => AlikeTwo(in, other)
        /\ in.op \in OneOps => AlikeOne(in, other)
    BY <2>1, EncodedAlike
  <2>3. in.op \in TwoOps \cup OneOps \cup NoOps
    BY <2>2, LinesAssumption
  <2>4. in.op = "natv" => ~in.use0
    <3> SUFFICES ASSUME line.op = "natv" PROVE ~in.use0
      BY <2>2
    <3>1. in = Make1(line.op, line.dst, 1)
      BY <2>1 DEF Encode, TwoOps, NoOps
    <3>2. ~line.dst.reg
      BY LinesAssumption
    <3> QED
      BY <3>1, <3>2 DEF Make1
  <2>5. in.op = "lea" /\ ~NoDest(in) => ~OwnArgument(in)
    <3> SUFFICES ASSUME line.op = "lea", ~NoDest(in), OwnArgument(in) PROVE FALSE
      BY <2>2
    <3>1. in = Make2(line.op, line.dst, line.src, 1)
      BY <2>1 DEF Encode, TwoOps, NoOps
    <3>2. in.use0 = line.dst.reg /\ in.use1 = line.src.reg /\ in.drf0 = line.dst.deref /\ in.drf1 = line.src.deref
      BY <3>1 DEF Make2
    <3> QED
      BY <3>2 DEF TakesOwnAddress, NoDest, OwnArgument
  <2> QED
    BY <2>1, <2>2, <2>3, <2>4, <2>5, SameOutcomes
<1> QED
  BY <1>1, PTL
----------------------------------------------------------------------------
(* Recursive functions: sums, and chains of pushes *)

\* A set of the first numbers that is closed under successor holds them all.
LEMMA Up ==
    ASSUME NEW n \in Nat, NEW S, S \subseteq 0..n, 0 \in S,
           \A k \in 1..n : k - 1 \in S => k \in S
    PROVE  S = 0..n
<1> DEFINE less == {ij \in Nat \X Nat : ij[1] < ij[2]}
           T == (0..n) \ S
<1>1. IsWellFoundedOn(less, Nat)
  BY NatLessThanWellFounded, Zenon DEF OpToRel
<1>2. \A j, k \in Nat : <<j, k>> \in less <=> j < k
  BY DEF less
<1> HIDE DEF less
<1>3. ASSUME T # {} PROVE FALSE
  <2>1. T \subseteq Nat
    OBVIOUS
  <2> HIDE DEF T
  <2>2. PICK x \in T : \A y \in T : ~(<<y, x>> \in less)
    BY <1>1, <1>3, <2>1, WFMin
  <2> USE DEF T
  <2>3. x \in 1..n
    OBVIOUS
  <2>4. x - 1 \in S
    <3>1. x - 1 \in 0..n /\ x - 1 < x /\ x - 1 \in Nat /\ x \in Nat
      BY <2>3
    <3> QED
      BY <1>2, <2>2, <3>1
  <2> QED
    BY <2>3, <2>4
<1> QED
  BY <1>3

\* A chain of steps G[k] in S that begins with b.
Chain(f, n, b, G) == f = [k \in 0..n |-> IF k = 0 THEN b ELSE G[k][f[k - 1]]]

LEMMA ChainExists ==
    ASSUME NEW S, NEW n \in Nat, NEW b \in S, NEW G \in [1..n -> [S -> S]]
    PROVE  \E f \in [0..n -> S] : Chain(f, n, b, G)
<1> DEFINE Step(f, i) == f[i] = IF i = 0 THEN b ELSE G[i][f[i - 1]]
           K == {k \in 0..n : \E f \in [0..k -> S] : \A i \in 0..k : Step(f, i)}
<1>1. 0 \in K
  <2>1. PICK f : f = [i \in 0..0 |-> b]
    OBVIOUS
  <2>2. f \in [0..0 -> S] /\ \A i \in 0..0 : Step(f, i)
    BY <2>1
  <2> QED
    BY <2>2
<1>2. ASSUME NEW k \in 1..n, k - 1 \in K PROVE k \in K
  <2>1. PICK f \in [0..(k - 1) -> S] : \A i \in 0..(k - 1) : Step(f, i)
    BY <1>2
  <2>2. PICK g : g = [i \in 0..k |-> IF i = k THEN G[k][f[k - 1]] ELSE f[i]]
    OBVIOUS
  <2>3. f[k - 1] \in S /\ G[k] \in [S -> S] /\ G[k][f[k - 1]] \in S
    <3>1. k - 1 \in 0..(k - 1)
      OBVIOUS
    <3> QED
      BY <3>1
  <2>4. g \in [0..k -> S]
    BY <2>2, <2>3
  <2>5. ASSUME NEW i \in 0..k PROVE Step(g, i)
    <3>1. CASE i = k
      BY <2>2, <3>1
    <3>2. CASE i # k
      <4>1. i \in 0..(k - 1) /\ g[i] = f[i] /\ (i # 0 => g[i - 1] = f[i - 1])
        BY <2>2, <3>2
      <4> QED
        BY <2>1, <4>1
    <3> QED
      BY <3>1, <3>2
  <2> HIDE DEF Step
  <2> QED
    BY <2>4, <2>5
<1> HIDE DEF K
<1>3. n \in K
  <2>1. K \subseteq 0..n
    BY DEF K
  <2>2. K = 0..n
    BY <1>1, <1>2, <2>1, Up
  <2> QED
    BY <2>2
<1>4. PICK f \in [0..n -> S] : \A i \in 0..n : Step(f, i)
  <2> HIDE DEF Step
  <2> QED
    BY <1>3 DEF K
<1>5. Chain(f, n, b, G)
  BY <1>4 DEF Chain
<1> QED
  BY <1>5

LEMMA ChainType ==
    ASSUME NEW S, NEW n \in Nat, NEW b \in S, NEW G \in [1..n -> [S -> S]], NEW f,
           Chain(f, n, b, G)
    PROVE  f \in [0..n -> S]
<1>1. PICK K : K = {k \in 0..n : f[k] \in S}
  OBVIOUS
<1>2. \A k \in 0..n : f[k] = IF k = 0 THEN b ELSE G[k][f[k - 1]]
  BY DEF Chain
<1>3. 0 \in K
  BY <1>1, <1>2
<1>4. ASSUME NEW k \in 1..n, k - 1 \in K PROVE k \in K
  <2>1. f[k - 1] \in S /\ G[k] \in [S -> S] /\ k \in 0..n /\ k # 0
    BY <1>1, <1>4
  <2>2. f[k] = G[k][f[k - 1]]
    BY <1>2, <2>1
  <2>3. f[k] \in S
    BY <2>1, <2>2
  <2> QED
    BY <1>1, <2>1, <2>3
<1>5. K = 0..n
  BY <1>1, <1>3, <1>4, Up
<1>6. \A k \in 0..n : f[k] \in S
  BY <1>1, <1>5
<1> QED
  BY <1>6 DEF Chain

\* A sum of n numbers, as VxCpu writes it.
SumOf(f, n, c) == f = [k \in 0..n |-> IF k = 0 THEN 0 ELSE f[k - 1] + c[k]]

LEMMA SumType ==
    ASSUME NEW n \in Nat, NEW c \in [1..n -> Int]
    PROVE  (CHOOSE f : SumOf(f, n, c))[n] \in Int
<1>1. PICK G : G = [k \in 1..n |-> [v \in Int |-> v + c[k]]]
  OBVIOUS
<1>2. G \in [1..n -> [Int -> Int]]
  <2>1. \A k \in 1..n : [v \in Int |-> v + c[k]] \in [Int -> Int]
    OBVIOUS
  <2> QED
    BY <1>1, <2>1
<1>3. \A k \in 1..n, v \in Int : G[k][v] = v + c[k]
  BY <1>1
<1>4. \E f \in [0..n -> Int] : SumOf(f, n, c)
  <2>1. PICK f \in [0..n -> Int] : Chain(f, n, 0, G)
    <3>1. 0 \in Int
      OBVIOUS
    <3> QED
      BY <1>2, <3>1, ChainExists, Zenon
  <2>2. ASSUME NEW k \in 0..n PROVE f[k] = IF k = 0 THEN 0 ELSE f[k - 1] + c[k]
    <3>1. f[k] = IF k = 0 THEN 0 ELSE G[k][f[k - 1]]
      BY <2>1 DEF Chain
    <3>2. k # 0 => k \in 1..n /\ f[k - 1] \in Int
      OBVIOUS
    <3> QED
      BY <1>3, <3>1, <3>2
  <2>3. f = [k \in 0..n |-> IF k = 0 THEN 0 ELSE f[k - 1] + c[k]]
    BY <2>2
  <2> QED
    BY <2>3 DEF SumOf
<1>5. ASSUME NEW f, SumOf(f, n, c) PROVE f[n] \in Int
  <2>1. PICK K : K = {k \in 0..n : f[k] \in Int}
    OBVIOUS
  <2>2. \A k \in 0..n : f[k] = IF k = 0 THEN 0 ELSE f[k - 1] + c[k]
    BY <1>5 DEF SumOf
  <2>3. 0 \in K
    BY <2>1, <2>2
  <2>4. ASSUME NEW k \in 1..n, k - 1 \in K PROVE k \in K
    <3>1. f[k - 1] \in Int /\ c[k] \in Int /\ k \in 0..n /\ k # 0
      BY <2>1, <2>4
    <3>2. f[k] = f[k - 1] + c[k]
      BY <2>2, <3>1
    <3> QED
      BY <2>1, <3>1, <3>2
  <2>5. K = 0..n
    BY <2>1, <2>3, <2>4, Up
  <2> QED
    BY <2>1, <2>5
<1> QED
  BY <1>4, <1>5, Zenon
----------------------------------------------------------------------------
(* Words, bytes and memory *)

LEMMA Widths ==
    /\ IntBits \in Nat \ {0} /\ IntBytes \in Nat \ {0} /\ ByteBits \in Nat \ {0}
    /\ ByteBits \in 0..IntBits /\ IntBits - 1 \in 0..IntBits /\ IntBits \in 0..IntBits
<1>1. IntBytes \in Nat \ {0} /\ ByteBits \in Nat \ {0}
  BY WidthAssumption
<1>2. \A b, i \in Nat : b > 0 /\ i > 0 => b * i \in Nat /\ b * i > 0 /\ b <= b * i
  OBVIOUS
<1>3. IntBits \in Nat /\ IntBits > 0 /\ ByteBits <= IntBits
  BY <1>1, <1>2 DEF IntBits
<1> QED
  BY <1>1, <1>3

LEMMA Powers ==
    /\ 2^IntBits \in Nat \ {0} /\ 2^(IntBits - 1) \in Nat \ {0}
    /\ 2^IntBits = 2 * 2^(IntBits - 1)
    /\ 2^ByteBits \in Nat \ {0}
<1>1. IntBits - 1 + 1 = IntBits
  BY Widths
<1> QED
  BY <1>1, Widths, PowerAssumption

LEMMA WrapType ==
    ASSUME NEW v \in Int
    PROVE  Unsigned(v) \in Nat /\ Unsigned(v) < 2^IntBits /\ Wrap(v) \in Ints
<1>1. PICK h, w : h = 2^(IntBits - 1) /\ w = 2^IntBits
  OBVIOUS
<1>2. h \in Nat /\ h > 0 /\ w = 2 * h /\ w \in Nat
  BY <1>1, Powers
<1>3. PICK u : u = v % w
  OBVIOUS
<1>4. u \in Nat /\ u < w
  BY <1>2, <1>3
<1>5. Unsigned(v) = u
  BY <1>1, <1>3 DEF Unsigned
<1>6. Wrap(v) = IF u >= h THEN u - w ELSE u
  BY <1>1, <1>5 DEF Wrap
<1>7. Ints = (0 - h)..(h - 1)
  BY <1>1, <1>2 DEF Ints, MinInt
<1>8. Wrap(v) \in (0 - h)..(h - 1)
  BY <1>2, <1>4, <1>6
<1> QED
  BY <1>1, <1>4, <1>5, <1>7, <1>8

LEMMA IntsAreInt == Ints \subseteq Int /\ Bytes \subseteq Int /\ 0 \in Ints /\ 0 \in Bytes
<1>1. PICK h, w, c : h = 2^(IntBits - 1) /\ w = 2^IntBits /\ c = 2^ByteBits
  OBVIOUS
<1>2. h \in Nat /\ h > 0 /\ c \in Nat /\ c > 0
  BY <1>1, Powers
<1>3. Ints = (0 - h)..(h - 1) /\ Bytes = 0..(c - 1)
  BY <1>1, <1>2 DEF Ints, MinInt, Bytes
<1> QED
  BY <1>2, <1>3

LEMMA PlaceValue ==
    ASSUME NEW k \in 0..(IntBytes - 1)
    PROVE  2^(ByteBits * k) \in Nat \ {0}
<1>1. ByteBits \in Nat /\ IntBytes \in Nat /\ k \in Nat /\ k <= IntBytes
  BY Widths
<1>2. \A b, i, j \in Nat : j <= i => b * j \in Nat /\ b * j <= b * i
  OBVIOUS
<1>3. ByteBits * k \in 0..IntBits
  <2>1. ByteBits * k \in Nat /\ ByteBits * k <= ByteBits * IntBytes
    BY <1>1, <1>2
  <2> QED
    BY <2>1, Widths DEF IntBits
<1> QED
  BY <1>3, PowerAssumption

LEMMA ByteType ==
    ASSUME NEW v \in Int, NEW k \in 0..(IntBytes - 1)
    PROVE  ByteOf(v, k) \in Bytes
<1>1. PICK p, c, u : p = 2^(ByteBits * k) /\ c = 2^ByteBits /\ u = Unsigned(v)
  OBVIOUS
<1>2. p \in Nat /\ p > 0 /\ c \in Nat /\ c > 0 /\ u \in Nat
  BY <1>1, PlaceValue, Powers, WrapType
<1>3. (u \div p) \in Int
  BY <1>2
<1>4. (u \div p) % c \in 0..(c - 1)
  BY <1>2, <1>3
<1> QED
  BY <1>1, <1>4 DEF ByteOf, Bytes

Rams == [HostAddresses -> Bytes]

LEMMA StoreType ==
    ASSUME NEW memory \in Rams, NEW a \in Int, NEW v \in Int
    PROVE  Store(memory, a, v) \in Rams
<1>1. ASSUME NEW x \in HostAddresses
      PROVE  (IF x \in IntAt(a) THEN ByteOf(v, x - a) ELSE memory[x]) \in Bytes
  <2>1. CASE x \in IntAt(a)
    <3>1. IntBytes \in Nat
      BY Widths
    <3>2. x - a \in 0..(IntBytes - 1)
      BY <2>1, <3>1 DEF IntAt
    <3> QED
      BY <2>1, <3>2, ByteType
  <2>2. CASE x \notin IntAt(a)
    BY <2>2 DEF Rams
  <2> QED
    BY <2>1, <2>2
<1>2. DOMAIN memory = HostAddresses
  BY DEF Rams
<1> QED
  BY <1>1, <1>2 DEF Store, Rams

LEMMA LoadType ==
    ASSUME NEW memory \in Rams, NEW a \in Int, Mapped(memory, a)
    PROVE  Load(memory, a) \in Ints
<1> DEFINE term(k) == memory[a + k - 1] * 2^(ByteBits * (k - 1))
           F(f) == [k \in 0..IntBytes |-> IF k = 0 THEN 0 ELSE f[k - 1] + term(k)]
           sum == CHOOSE f : f = F(f)
<1>1. Load(memory, a) = Wrap(sum[IntBytes])
  BY DEF Load
<1>2. IntBytes \in Nat
  BY Widths
<1>3. \A k \in 1..IntBytes : term(k) \in Int
  <2> SUFFICES ASSUME NEW k \in 1..IntBytes PROVE term(k) \in Int
    OBVIOUS
  <2>1. k - 1 \in 0..(IntBytes - 1) /\ a + k - 1 \in IntAt(a)
    BY <1>2 DEF IntAt
  <2>2. PICK p, b : p = 2^(ByteBits * (k - 1)) /\ b = memory[a + k - 1]
    OBVIOUS
  <2>3. p \in Nat
    BY <2>1, <2>2, PlaceValue
  <2>4. b \in Int
    <3>1. a + k - 1 \in HostAddresses
      BY <2>1 DEF Mapped, Rams
    <3> QED
      BY <2>2, <3>1, IntsAreInt DEF Rams
  <2>5. b * p \in Int
    BY <2>3, <2>4
  <2> QED
    BY <2>2, <2>5
<1> HIDE DEF term
<1>4. PICK c : c = [k \in 1..IntBytes |-> term(k)]
  OBVIOUS
<1>5. c \in [1..IntBytes -> Int] /\ \A k \in 1..IntBytes : c[k] = term(k)
  BY <1>3, <1>4
<1>6. \A f : f = F(f) <=> SumOf(f, IntBytes, c)
  <2> SUFFICES ASSUME NEW f
               PROVE  F(f) = [k \in 0..IntBytes |-> IF k = 0 THEN 0 ELSE f[k - 1] + c[k]]
    BY DEF SumOf
  <2>1. \A k \in 0..IntBytes : k # 0 => k \in 1..IntBytes
    BY <1>2
  <2> QED
    BY <1>5, <2>1
<1> HIDE DEF F
<1>7. sum = CHOOSE f : SumOf(f, IntBytes, c)
  BY <1>6, Zenon
<1> QED
  BY <1>1, <1>2, <1>5, <1>7, SumType, WrapType
----------------------------------------------------------------------------
(* Bitwise operations and the others that a handler applies *)

LEMMA XorType ==
    ASSUME NEW a, NEW b
    PROVE  XorBits(a, b) \in Int
<1> DEFINE Bit(v, k) == (Unsigned(v) \div 2^k) % 2
           term(k) == IF Bit(a, k - 1) # Bit(b, k - 1) THEN 2^(k - 1) ELSE 0
           F(f) == [k \in 0..IntBits |-> IF k = 0 THEN 0 ELSE f[k - 1] + term(k)]
           low == CHOOSE f : f = F(f)
<1>1. XorBits(a, b) = low[IntBits]
  BY DEF XorBits, BitByBit
<1> HIDE DEF Bit
<1>2. IntBits \in Nat
  BY Widths
<1>3. \A k \in 1..IntBits : term(k) \in Int
  <2>1. \A k \in 1..IntBits : k - 1 \in 0..IntBits
    BY <1>2
  <2> QED
    BY <2>1, PowerAssumption
<1> HIDE DEF term
<1>4. PICK c : c = [k \in 1..IntBits |-> term(k)]
  OBVIOUS
<1>5. c \in [1..IntBits -> Int]
  BY <1>3, <1>4
<1>6. \A f : f = F(f) <=> SumOf(f, IntBits, c)
  <2> SUFFICES ASSUME NEW f
               PROVE  F(f) = [k \in 0..IntBits |-> IF k = 0 THEN 0 ELSE f[k - 1] + c[k]]
    BY DEF SumOf
  <2>1. \A k \in 0..IntBits : k # 0 => k \in 1..IntBits
    BY <1>2
  <2> QED
    BY <1>4, <2>1
<1> HIDE DEF F
<1>7. low = CHOOSE f : SumOf(f, IntBits, c)
  BY <1>6, Zenon
<1> QED
  BY <1>1, <1>2, <1>5, <1>7, SumType

LEMMA OrType ==
    ASSUME NEW a, NEW b
    PROVE  OrBits(a, b) \in Int
<1> DEFINE Bit(v, k) == (Unsigned(v) \div 2^k) % 2
           term(k) == IF Bit(a, k - 1) + Bit(b, k - 1) > 0 THEN 2^(k - 1) ELSE 0
           F(f) == [k \in 0..IntBits |-> IF k = 0 THEN 0 ELSE f[k - 1] + term(k)]
           low == CHOOSE f : f = F(f)
<1>1. OrBits(a, b) = low[IntBits]
  BY DEF OrBits, BitByBit
<1> HIDE DEF Bit
<1>2. IntBits \in Nat
  BY Widths
<1>3. \A k \in 1..IntBits : term(k) \in Int
  <2>1. \A k \in 1..IntBits : k - 1 \in 0..IntBits
    BY <1>2
  <2> QED
    BY <2>1, PowerAssumption
<1> HIDE DEF term
<1>4. PICK c : c = [k \in 1..IntBits |-> term(k)]
  OBVIOUS
<1>5. c \in [1..IntBits -> Int]
  BY <1>3, <1>4
<1>6. \A f : f = F(f) <=> SumOf(f, IntBits, c)
  <2> SUFFICES ASSUME NEW f
               PROVE  F(f) = [k \in 0..IntBits |-> IF k = 0 THEN 0 ELSE f[k - 1] + c[k]]
    BY DEF SumOf
  <2>1. \A k \in 0..IntBits : k # 0 => k \in 1..IntBits
    BY <1>2
  <2> QED
    BY <1>4, <2>1
<1> HIDE DEF F
<1>7. low = CHOOSE f : SumOf(f, IntBits, c)
  BY <1>6, Zenon
<1> QED
  BY <1>1, <1>2, <1>5, <1>7, SumType

LEMMA AndType ==
    ASSUME NEW a, NEW b
    PROVE  AndBits(a, b) \in Int
<1> DEFINE Bit(v, k) == (Unsigned(v) \div 2^k) % 2
           term(k) == IF Bit(a, k - 1) + Bit(b, k - 1) = 2 THEN 2^(k - 1) ELSE 0
           F(f) == [k \in 0..IntBits |-> IF k = 0 THEN 0 ELSE f[k - 1] + term(k)]
           low == CHOOSE f : f = F(f)
<1>1. AndBits(a, b) = low[IntBits]
  BY DEF AndBits, BitByBit
<1> HIDE DEF Bit
<1>2. IntBits \in Nat
  BY Widths
<1>3. \A k \in 1..IntBits : term(k) \in Int
  <2>1. \A k \in 1..IntBits : k - 1 \in 0..IntBits
    BY <1>2
  <2> QED
    BY <2>1, PowerAssumption
<1> HIDE DEF term
<1>4. PICK c : c = [k \in 1..IntBits |-> term(k)]
  OBVIOUS
<1>5. c \in [1..IntBits -> Int]
  BY <1>3, <1>4
<1>6. \A f : f = F(f) <=> SumOf(f, IntBits, c)
  <2> SUFFICES ASSUME NEW f
               PROVE  F(f) = [k \in 0..IntBits |-> IF k = 0 THEN 0 ELSE f[k - 1] + c[k]]
    BY DEF SumOf
  <2>1. \A k \in 0..IntBits : k # 0 => k \in 1..IntBits
    BY <1>2
  <2> QED
    BY <1>4, <2>1
<1> HIDE DEF F
<1>7. low = CHOOSE f : SumOf(f, IntBits, c)
  BY <1>6, Zenon
<1> QED
  BY <1>1, <1>2, <1>5, <1>7, SumType


LEMMA QuotientType ==
    ASSUME NEW a \in Int, NEW b \in Int, b # 0
    PROVE  Quotient(a, b) \in Int
<1> DEFINE Abs(v) == IF v < 0 THEN -v ELSE v
<1>1. PICK p, d : p = Abs(a) /\ d = Abs(b)
  OBVIOUS
<1>2. p \in Nat /\ d \in Nat /\ d > 0
  BY <1>1
<1>3. p \div d \in Int
  BY <1>2
<1> QED
  BY <1>1, <1>3 DEF Quotient

LEMMA ShiftTypes ==
    ASSUME NEW a \in Int, NEW b \in Int
    PROVE  (a * 2^Count(b)) % 2^IntBits \in Int /\ a \div 2^Count(b) \in Int
<1>1. Unsigned(b) \in Nat /\ IntBits \in Nat /\ IntBits > 0
  BY WrapType, Widths
<1>2. Count(b) \in 0..IntBits
  BY <1>1 DEF Count
<1>3. PICK p, w : p = 2^Count(b) /\ w = 2^IntBits
  OBVIOUS
<1>4. p \in Nat /\ p > 0 /\ w \in Nat /\ w > 0
  BY <1>2, <1>3, PowerAssumption, Powers
<1>5. a * p \in Int /\ a \div p \in Int
  BY <1>4
<1>6. (a * p) % w \in Int
  BY <1>4, <1>5
<1> QED
  BY <1>3, <1>5, <1>6
----------------------------------------------------------------------------
(* What handlers build their results from *)

\* A CPU and the memory it works on, whatever the program is.
Machines == [r : [0..7 -> Ints], ip : Int, zf : BOOLEAN, pf : BOOLEAN, nf : BOOLEAN, ram : Rams]

\* A result of a handler, and one that creates no thread.
IsResult(out) ==
    out.m \in Machines /\ out.advance \in BOOLEAN /\ out.fault \in BOOLEAN /\ out.spawn \subseteq Int
Quiet(out) == IsResult(out) /\ out.spawn = {}

IsOperand(o) ==
    \/ o.kind = "reg" /\ o.at \in 0..7
    \/ o.kind \in {"mem", "imm"} /\ o.at \in Int

LEMMA MachineFields ==
    ASSUME NEW cpu \in Machines
    PROVE  /\ \A k \in 0..7 : cpu.r[k] \in Ints /\ cpu.r[k] \in Int
           /\ cpu.r[0] \in Int /\ cpu.r[6] \in Int /\ cpu.r[7] \in Int
           /\ cpu.ip \in Int /\ cpu.ram \in Rams
           /\ cpu.zf \in BOOLEAN /\ cpu.pf \in BOOLEAN /\ cpu.nf \in BOOLEAN
<1>1. cpu.r \in [0..7 -> Ints]
  BY DEF Machines
<1>2. \A k \in 0..7 : cpu.r[k] \in Ints
  BY <1>1
<1>3. 0 \in 0..7 /\ 6 \in 0..7 /\ 7 \in 0..7
  OBVIOUS
<1> QED
  BY <1>2, <1>3, IntsAreInt DEF Machines

\* The changes that are made to a CPU.
LEMMA Changes ==
    ASSUME NEW cpu \in Machines
    PROVE  /\ \A k \in 0..7, v \in Ints : [cpu EXCEPT !.r[k] = v] \in Machines
           /\ \A v \in Int : [cpu EXCEPT !.ip = v] \in Machines
           /\ \A memory \in Rams : [cpu EXCEPT !.ram = memory] \in Machines
<1>1. cpu.r \in [0..7 -> Ints]
  BY DEF Machines
<1>2. \A k \in 0..7, v \in Ints : [cpu.r EXCEPT ![k] = v] \in [0..7 -> Ints]
  BY <1>1
<1>3. \A k \in 0..7, v \in Ints : [cpu EXCEPT !.r[k] = v] \in Machines
  BY <1>2 DEF Machines
<1>4. \A v \in Int : [cpu EXCEPT !.ip = v] \in Machines
  BY DEF Machines
<1>5. \A memory \in Rams : [cpu EXCEPT !.ram = memory] \in Machines
  BY DEF Machines
<1> QED
  BY <1>3, <1>4, <1>5

LEMMA Ends ==
    ASSUME NEW cpu \in Machines
    PROVE  /\ Quiet(Continue(cpu)) /\ Quiet(Fault(cpu))
           /\ ~Continue(cpu).fault /\ Continue(cpu).m = cpu
           /\ \A ip \in Int : Quiet(JumpTo(cpu, ip)) /\ IsResult(Create(cpu, ip))
           /\ \A ip : Create(cpu, ip).spawn = {ip} /\ Fault(cpu).fault
<1>1. Quiet(Continue(cpu)) /\ Quiet(Fault(cpu)) /\ ~Continue(cpu).fault /\ Continue(cpu).m = cpu
  BY DEF Quiet, IsResult, Continue, Fault
<1>2. \A ip \in Int : Quiet(JumpTo(cpu, ip))
  <2> SUFFICES ASSUME NEW ip \in Int PROVE Quiet(JumpTo(cpu, ip))
    OBVIOUS
  <2>1. PICK c : c = [cpu EXCEPT !.ip = ip]
    OBVIOUS
  <2>2. c \in Machines
    BY <2>1, Changes
  <2>3. JumpTo(cpu, ip) = [Continue(c) EXCEPT !.advance = FALSE]
    BY <2>1 DEF JumpTo
  <2> QED
    BY <2>2, <2>3 DEF Quiet, IsResult, Continue
<1>3. \A ip \in Int : IsResult(Create(cpu, ip))
  BY DEF IsResult, Create, Continue
<1>4. \A ip : Create(cpu, ip).spawn = {ip} /\ Fault(cpu).fault
  BY DEF Create, Fault, Continue
<1> QED
  BY <1>1, <1>2, <1>3, <1>4

LEMMA OperandTypes ==
    ASSUME NEW cpu \in Machines, NEW o, IsOperand(o), Accessible(cpu, o)
    PROVE  Value(cpu, o) \in Int
<1>1. CASE o.kind = "reg"
  BY <1>1, MachineFields DEF IsOperand, Value
<1>2. CASE o.kind = "mem"
  <2>1. o.at \in Int /\ Mapped(cpu.ram, o.at) /\ cpu.ram \in Rams
    BY <1>2, MachineFields DEF IsOperand, Accessible
  <2>2. Load(cpu.ram, o.at) \in Int
    BY <2>1, LoadType, IntsAreInt
  <2> QED
    BY <1>2, <2>2 DEF Value
<1>3. CASE o.kind = "imm"
  BY <1>3 DEF IsOperand, Value
<1> QED
  BY <1>1, <1>2, <1>3 DEF IsOperand

LEMMA AssignType ==
    ASSUME NEW cpu \in Machines, NEW o, IsOperand(o), NEW v \in Ints
    PROVE  Assign(cpu, o, v) \in Machines
<1>1. CASE o.kind = "reg"
  BY <1>1, Changes DEF IsOperand, Assign
<1>2. CASE o.kind # "reg"
  <2>1. Store(cpu.ram, o.at, v) \in Rams
    BY <1>2, MachineFields, IntsAreInt, StoreType DEF IsOperand
  <2> QED
    BY <1>2, <2>1, Changes DEF Assign
<1> QED
  BY <1>1, <1>2

LEMMA StackTypes ==
    ASSUME NEW cpu \in Machines
    PROVE  /\ Top(cpu) \in Int /\ Below(cpu) \in Int
           /\ Popped(cpu) \in Machines /\ Popped(cpu).ip = cpu.ip
           /\ \A v \in Int : Pushed(cpu, v) \in Machines /\ Pushed(cpu, v).ip = cpu.ip
<1>1. cpu.r[7] \in Int /\ IntBytes \in Int /\ 7 \in 0..7
  BY MachineFields, Widths
<1>2. Top(cpu) \in Int /\ Below(cpu) \in Int
  BY <1>1, WrapType DEF Top, Below
<1>3. Wrap(Below(cpu)) \in Ints /\ Wrap(Top(cpu) + IntBytes) \in Ints
  BY <1>1, <1>2, WrapType
<1>4. Popped(cpu) \in Machines
  BY <1>1, <1>3, Changes DEF Popped
<1>5. ASSUME NEW v \in Int PROVE Pushed(cpu, v) \in Machines
  <2>1. Store(cpu.ram, Below(cpu), v) \in Rams
    BY <1>2, MachineFields, StoreType
  <2>2. PICK c : c = [cpu EXCEPT !.r[7] = Wrap(Below(cpu))]
    OBVIOUS
  <2>3. c \in Machines
    BY <1>1, <1>3, <2>2, Changes
  <2>4. Pushed(cpu, v) = [c EXCEPT !.ram = Store(cpu.ram, Below(cpu), v)]
    BY <2>2 DEF Pushed
  <2> QED
    BY <2>1, <2>3, <2>4, Changes
<1>6. Popped(cpu).ip = cpu.ip /\ \A v \in Int : Pushed(cpu, v).ip = cpu.ip
  BY DEF Popped, Pushed, Machines
<1> QED
  BY <1>2, <1>4, <1>5, <1>6

LEMMA HostType == ASSUME NEW v \in Int PROVE Host(v) \in Int
BY MemoryAssumption, WrapType DEF Host

LEMMA Operands ==
    ASSUME NEW cpu \in Machines, NEW in \in Instruction
    PROVE  /\ \A d \in BOOLEAN : IsOperand(RegOperand(cpu, d, in.reg0)) /\ IsOperand(RegOperand(cpu, d, in.reg1))
           /\ IsOperand(Dest(cpu, in)) /\ IsOperand(Src(cpu, in)) /\ IsOperand(LeaSrc(cpu, in))
           /\ IsOperand(Mem(Host(in.arg0))) /\ IsOperand(Imm(in.arg0))
<1>1. /\ in.reg0 \in 0..7 /\ in.reg1 \in 0..7 /\ in.arg0 \in Int /\ in.arg1 \in Int
      /\ {in.drf0, in.drf1, in.use0, in.use1} \subseteq BOOLEAN
  BY IntsAreInt DEF Instruction
<1>2. \A v \in Int : IsOperand(Mem(v)) /\ IsOperand(Imm(v))
  BY DEF IsOperand, Mem, Imm
<1>3. ASSUME NEW d \in BOOLEAN, NEW k \in 0..7 PROVE IsOperand(RegOperand(cpu, d, k))
  <2>1. cpu.r[k] \in Int
    BY MachineFields
  <2>2. Pointee(cpu, k) \in Int
    BY <2>1, WrapType, HostType DEF Pointee
  <2>3. IsOperand(Reg(k))
    BY DEF IsOperand, Reg
  <2> QED
    BY <1>2, <2>2, <2>3 DEF RegOperand
<1>4. DestArg(in) \in Int /\ SrcArg(in) \in Int
  BY <1>1 DEF DestArg, SrcArg
<1>5. IsOperand(Mem(Host(DestArg(in)))) /\ IsOperand(Mem(Host(SrcArg(in)))) /\ IsOperand(Imm(SrcArg(in)))
      /\ IsOperand(Mem(Host(in.arg0))) /\ IsOperand(Imm(in.arg0))
  BY <1>1, <1>2, <1>4, HostType
<1>6. IsOperand(Dest(cpu, in))
  BY <1>1, <1>3, <1>5 DEF Dest
<1>7. IsOperand(Src(cpu, in))
  BY <1>1, <1>3, <1>5 DEF Src
<1>8. IsOperand(LeaSrc(cpu, in))
  <2>1. cpu.r[in.reg1] \in Int
    BY <1>1, MachineFields
  <2>2. PICK o : o = Host(cpu.ip + ArgBytes + (IF in.op \in OrderRev THEN 0 ELSE IntBytes))
    OBVIOUS
  <2>3. o \in Int
    <3>1. cpu.ip \in Int /\ IntBytes \in Int /\ ArgBytes \in Int
      BY MachineFields, Widths, LayoutAssumption
    <3> QED
      BY <2>2, <3>1, HostType
  <2>4. IsOperand(RegOperand(cpu, TRUE, in.reg1)) /\ IsOperand(Imm(Host(cpu.r[in.reg1])))
        /\ IsOperand(Imm(Host(SrcArg(in)))) /\ IsOperand(Imm(SrcArg(in))) /\ IsOperand(Imm(o))
    BY <1>1, <1>2, <1>3, <1>4, <2>1, <2>3, HostType
  <2> QED
    BY <2>2, <2>4 DEF LeaSrc
<1> QED
  BY <1>1, <1>3, <1>5, <1>6, <1>7, <1>8
----------------------------------------------------------------------------
(* The handlers *)

LEMMA OperateParts ==
    ASSUME NEW cpu \in Machines, NEW in \in Instruction, NEW s, IsOperand(s)
    PROVE  /\ Quiet(Continue(cpu)) /\ Quiet(Fault(cpu))
           /\ Accessible(cpu, Dest(cpu, in)) /\ Accessible(cpu, s) =>
                 Value(cpu, Dest(cpu, in)) \in Int /\ Value(cpu, s) \in Int
           /\ \A v \in Int : Quiet(Continue(Assign(cpu, Dest(cpu, in), Wrap(v))))
<1>1. IsOperand(Dest(cpu, in))
  BY Operands
<1>2. ASSUME NEW v \in Int PROVE Quiet(Continue(Assign(cpu, Dest(cpu, in), Wrap(v))))
  <2>1. Assign(cpu, Dest(cpu, in), Wrap(v)) \in Machines
    BY <1>1, WrapType, AssignType
  <2> QED
    BY <2>1, Ends
<1> QED
  BY <1>1, <1>2, Ends, OperandTypes

LEMMA OperationsTyped ==
    ASSUME NEW cpu \in Machines, NEW in \in Instruction
    PROVE  /\ Quiet(MulHandler(cpu, in)) /\ Quiet(DivHandler(cpu, in))
           /\ Quiet(AddHandler(cpu, in)) /\ Quiet(SubHandler(cpu, in))
           /\ Quiet(MovHandler(cpu, in)) /\ Quiet(LeaHandler(cpu, in))
           /\ Quiet(ShlHandler(cpu, in)) /\ Quiet(ShrHandler(cpu, in))
           /\ Quiet(XorHandler(cpu, in)) /\ Quiet(OrHandler(cpu, in))
           /\ Quiet(AndHandler(cpu, in))
<1>1. PICK d, s : d = Dest(cpu, in) /\ s = Src(cpu, in)
  OBVIOUS
<1>2. IsOperand(s) /\ IsOperand(LeaSrc(cpu, in))
  BY <1>1, Operands
<1>3. PICK a, b : a = Value(cpu, d) /\ b = Value(cpu, s)
  OBVIOUS
<1>4. /\ Quiet(Continue(cpu)) /\ Quiet(Fault(cpu))
      /\ Accessible(cpu, d) /\ Accessible(cpu, s) => a \in Int /\ b \in Int
      /\ \A v \in Int : Quiet(Continue(Assign(cpu, d, Wrap(v))))
  BY <1>1, <1>2, <1>3, OperateParts
<1>5. Quiet(MulHandler(cpu, in))
  <2>1. a \in Int /\ b \in Int => a * b \in Int
    OBVIOUS
  <2> QED
    BY <1>1, <1>3, <1>4, <2>1 DEF MulHandler, TwoOperands, Operate, Never
<1>6. Quiet(AddHandler(cpu, in))
  <2>1. a \in Int /\ b \in Int => a + b \in Int
    OBVIOUS
  <2> QED
    BY <1>1, <1>3, <1>4, <2>1 DEF AddHandler, TwoOperands, Operate, Never
<1>7. Quiet(SubHandler(cpu, in))
  <2>1. a \in Int /\ b \in Int => a - b \in Int
    OBVIOUS
  <2> QED
    BY <1>1, <1>3, <1>4, <2>1 DEF SubHandler, TwoOperands, Operate, Never
<1>8. Quiet(MovHandler(cpu, in))
  <2>1. a \in Int /\ b \in Int => b \in Int
    OBVIOUS
  <2> QED
    BY <1>1, <1>3, <1>4, <2>1 DEF MovHandler, TwoOperands, Operate, Never, Second
<1>9. Quiet(ShlHandler(cpu, in))
  <2>1. a \in Int /\ b \in Int => (a * 2^Count(b)) % 2^IntBits \in Int
    BY ShiftTypes
  <2> QED
    BY <1>1, <1>3, <1>4, <2>1 DEF ShlHandler, TwoOperands, Operate, Never
<1>10. Quiet(ShrHandler(cpu, in))
  <2>1. a \in Int /\ b \in Int => a \div 2^Count(b) \in Int
    BY ShiftTypes
  <2> QED
    BY <1>1, <1>3, <1>4, <2>1 DEF ShrHandler, TwoOperands, Operate, Never
<1>11. Quiet(XorHandler(cpu, in))
  <2>1. a \in Int /\ b \in Int => XorBits(a, b) \in Int
    BY XorType
  <2> QED
    BY <1>1, <1>3, <1>4, <2>1 DEF XorHandler, TwoOperands, Operate, Never
<1>12. Quiet(OrHandler(cpu, in))
  <2>1. a \in Int /\ b \in Int => OrBits(a, b) \in Int
    BY OrType
  <2> QED
    BY <1>1, <1>3, <1>4, <2>1 DEF OrHandler, TwoOperands, Operate, Never
<1>13. Quiet(AndHandler(cpu, in))
  <2>1. a \in Int /\ b \in Int => AndBits(a, b) \in Int
    BY AndType
  <2> QED
    BY <1>1, <1>3, <1>4, <2>1 DEF AndHandler, TwoOperands, Operate, Never
<1>14. Quiet(DivHandler(cpu, in))
  <2>1. a \in Int /\ b \in Int /\ b # 0 => Quotient(a, b) \in Int
    BY QuotientType
  <2> QED
    BY <1>1, <1>3, <1>4, <2>1 DEF DivHandler, TwoOperands, Operate
<1>15. Quiet(LeaHandler(cpu, in))
  <2>1. PICK t, c : t = LeaSrc(cpu, in) /\ c = Value(cpu, t)
    OBVIOUS
  <2>2. Accessible(cpu, d) /\ Accessible(cpu, t) => c \in Int
    BY <1>1, <1>2, <2>1, OperateParts
  <2> QED
    BY <1>1, <1>4, <2>1, <2>2 DEF LeaHandler, Operate, Never, Second
<1> QED
  BY <1>5, <1>6, <1>7, <1>8, <1>9, <1>10, <1>11, <1>12, <1>13, <1>14, <1>15

LEMMA StkTyped ==
    ASSUME NEW cpu \in Machines, NEW in \in Instruction
    PROVE  Quiet(StkHandler(cpu, in))
<1>1. PICK s, b : s = Src(cpu, in) /\ b = Value(cpu, s)
  OBVIOUS
<1>2. IsOperand(s)
  BY <1>1, Operands
<1>3. Quiet(Fault(cpu)) /\ Quiet(Continue(cpu))
  BY Ends
<1>4. PICK k : k = IF in.use0 THEN 6 ELSE 7
  OBVIOUS
<1>5. cpu.r[k] \in Int
  BY <1>4, MachineFields
<1>6. PICK t : t = Mem(Unsigned(cpu.r[k] + b))
  OBVIOUS
<1>7. StkHandler(cpu, in) = IF ~NoDest(in) /\ ~Accessible(cpu, s) THEN Fault(cpu)
                            ELSE Operate(cpu, in, t, Never, Second)
  BY <1>1, <1>4, <1>6 DEF StkHandler
<1>8. CASE NoDest(in)
  BY <1>3, <1>7, <1>8 DEF Operate
<1>9. CASE ~NoDest(in) /\ ~Accessible(cpu, s)
  BY <1>3, <1>7, <1>9
<1>10. CASE Accessible(cpu, s)
  <2>1. b \in Int
    BY <1>1, <1>2, <1>10, OperandTypes
  <2>2. IsOperand(t)
    <3>1. Unsigned(cpu.r[k] + b) \in Int
      BY <1>5, <2>1, WrapType
    <3> QED
      BY <1>6, <3>1 DEF IsOperand, Mem
  <2>3. PICK d, c : d = Dest(cpu, in) /\ c = Value(cpu, t)
    OBVIOUS
  <2>4. /\ Accessible(cpu, d) /\ Accessible(cpu, t) => c \in Int
        /\ \A v \in Int : Quiet(Continue(Assign(cpu, d, Wrap(v))))
    BY <2>2, <2>3, OperateParts
  <2> QED
    BY <1>3, <1>7, <1>10, <2>3, <2>4 DEF Operate, Never, Second
<1> QED
  BY <1>8, <1>9, <1>10

LEMMA CmpTyped ==
    ASSUME NEW cpu \in Machines, NEW in \in Instruction
    PROVE  Quiet(CmpHandler(cpu, in))
<1>1. PICK iRes : iRes = Wrap(Value(cpu, Dest(cpu, in)) - Value(cpu, Src(cpu, in)))
  OBVIOUS
<1>2. PICK set : set = [cpu EXCEPT !.zf = iRes = 0, !.pf = iRes > 0, !.nf = iRes < 0]
  OBVIOUS
<1>3. set \in Machines
  <2>1. ASSUME NEW z \in BOOLEAN, NEW p \in BOOLEAN, NEW n \in BOOLEAN
        PROVE  [cpu EXCEPT !.zf = z, !.pf = p, !.nf = n] \in Machines
    BY DEF Machines
  <2>2. (iRes = 0) \in BOOLEAN /\ (iRes > 0) \in BOOLEAN /\ (iRes < 0) \in BOOLEAN
    OBVIOUS
  <2> QED
    BY <1>2, <2>1, <2>2, Zenon
<1>4. CmpHandler(cpu, in) \in {Continue(cpu), Fault(cpu), Continue(set)}
  BY <1>1, <1>2 DEF CmpHandler
<1> QED
  BY <1>3, <1>4, Ends

LEMMA JumpsTyped ==
    ASSUME NEW cpu \in Machines, NEW in \in Instruction
    PROVE  /\ Quiet(JmpHandler(cpu, in)) /\ Quiet(JgHandler(cpu, in)) /\ Quiet(JlHandler(cpu, in))
           /\ Quiet(JleHandler(cpu, in)) /\ Quiet(JgeHandler(cpu, in))
           /\ Quiet(JzHandler(cpu, in)) /\ Quiet(JnzHandler(cpu, in))
<1> SUFFICES ASSUME NEW taken \in BOOLEAN PROVE Quiet(JumpWhen(taken, cpu, in))
  BY DEF JmpHandler, JgHandler, JlHandler, JleHandler, JgeHandler, JzHandler, JnzHandler, Machines
<1>1. PICK o : o = RegOperand(cpu, in.drf0, in.reg0)
  OBVIOUS
<1>2. in.drf0 \in BOOLEAN /\ in.arg0 \in Int
  BY IntsAreInt DEF Instruction
<1>3. Accessible(cpu, o) => Value(cpu, o) \in Int
  BY <1>1, <1>2, Operands, OperandTypes
<1>4. Host(in.arg0) \in DOMAIN cpu.ram => cpu.ram[Host(in.arg0)] \in Int
  BY MachineFields, IntsAreInt DEF Rams
<1>5. Quiet(Continue(cpu)) /\ Quiet(Fault(cpu)) /\ \A ip \in Int : Quiet(JumpTo(cpu, ip))
  BY Ends
<1> QED
  BY <1>1, <1>2, <1>3, <1>4, <1>5 DEF JumpWhen

LEMMA StackHandlersTyped ==
    ASSUME NEW cpu \in Machines, NEW in \in Instruction
    PROVE  /\ Quiet(PushHandler(cpu, in)) /\ Quiet(CallHandler(cpu, in))
           /\ Quiet(RetHandler(cpu, in)) /\ Quiet(NopHandler(cpu, in))
           /\ \A out \in PopOutcomes(cpu, in) : Quiet(out)
<1>1. /\ Quiet(Continue(cpu)) /\ Quiet(Fault(cpu))
      /\ \A v \in Int : Quiet(JumpTo(cpu, v))
  BY Ends
<1>2. /\ in.drf0 \in BOOLEAN /\ in.use0 \in BOOLEAN /\ in.arg0 \in Int /\ in.next \in Int
  BY IntsAreInt DEF Instruction
<1>3. Quiet(PushHandler(cpu, in))
  <2>1. PICK o : o = CASE in.use0 -> RegOperand(cpu, in.drf0, in.reg0)
                       [] ~in.use0 /\ in.drf0 -> Mem(Host(in.arg0))
                       [] OTHER -> Imm(in.arg0)
    OBVIOUS
  <2>2. IsOperand(o)
    BY <1>2, <2>1, Operands
  <2>3. ASSUME NEW v \in Int PROVE Quiet(Continue(Pushed(cpu, v)))
    BY StackTypes, Ends
  <2>4. Accessible(cpu, o) => Value(cpu, o) \in Int
    BY <2>2, OperandTypes
  <2> QED
    BY <1>1, <2>1, <2>3, <2>4 DEF PushHandler
<1>4. Quiet(CallHandler(cpu, in))
  <2>1. PICK c : c = Pushed(cpu, Wrap(cpu.ip + in.next))
    OBVIOUS
  <2>2. c \in Machines
    <3>1. cpu.ip + in.next \in Int
      BY <1>2, MachineFields
    <3>2. Wrap(cpu.ip + in.next) \in Int
      BY <3>1, WrapType, IntsAreInt
    <3> QED
      BY <2>1, <3>2, StackTypes
  <2>3. PICK o : o = RegOperand(c, in.drf0, in.reg0)
    OBVIOUS
  <2>4. Accessible(c, o) => Value(c, o) \in Int
    BY <1>2, <2>2, <2>3, Operands, OperandTypes
  <2>5. Quiet(Fault(c)) /\ \A v \in Int : Quiet(JumpTo(c, v))
    BY <2>2, Ends
  <2> QED
    BY <1>1, <1>2, <2>1, <2>3, <2>4, <2>5 DEF CallHandler
<1>5. Mapped(cpu.ram, Top(cpu)) => Load(cpu.ram, Top(cpu)) \in Ints
  BY MachineFields, StackTypes, LoadType
<1>6. Quiet(RetHandler(cpu, in)) /\ Quiet(NopHandler(cpu, in))
  <2>1. \A v \in Int : Quiet(JumpTo(Popped(cpu), v))
    BY StackTypes, Ends
  <2> QED
    BY <1>1, <1>5, <2>1, IntsAreInt DEF RetHandler, NopHandler
<1>7. \A out \in PopOutcomes(cpu, in) : Quiet(out)
  <2> SUFFICES ASSUME NEW o \in {RegOperand(cpu, in.drf0, in.reg0), RegOperand(Popped(cpu), in.drf0, in.reg0)}
               PROVE  Mapped(cpu.ram, Top(cpu)) =>
                         Quiet(Continue(Assign(Popped(cpu), o, Load(cpu.ram, Top(cpu)))))
    BY <1>1 DEF PopOutcomes
  <2>1. IsOperand(o) /\ Popped(cpu) \in Machines
    BY <1>2, StackTypes, Operands
  <2> QED
    BY <1>5, <2>1, AssignType, Ends
<1> QED
  BY <1>3, <1>4, <1>6, <1>7

LEMMA NatvTyped ==
    ASSUME NEW cpu \in Machines, NEW in \in Instruction, NEW out \in NatvOutcomes(cpu, in)
    PROVE  Quiet(out)
<1>1. PICK index, params :
         index = (IF Len(Imports) = 1 THEN 0 ELSE in.arg0) /\ params = Imports[index + 1]
  OBVIOUS
<1>2. PICK after : after = [cpu EXCEPT !.r[7] = Wrap(Top(cpu) + params * IntBytes)]
  OBVIOUS
<1>3. in.arg0 \in Int /\ Imports \in Seq(Nat) /\ Len(Imports) \in Nat
  BY IntsAreInt, FilesAssumption DEF Instruction
<1>4. CASE out \in {Continue(cpu), Fault(cpu)}
  BY <1>4, Ends
<1>5. CASE out \notin {Continue(cpu), Fault(cpu)}
  <2>0. PICK results, n, arg :
           /\ results = {Continue([after EXCEPT !.r[0] = iRet]) : iRet \in NativeResults}
           /\ n = Len(Imports) /\ arg = in.arg0
    OBVIOUS
  <2>1. ~(arg < 0 \/ (n > 1 /\ arg >= n)) /\ ~(arg >= 0 /\ n = 0) /\ out \in results
    <3>1. \/ (arg < 0 \/ (n > 1 /\ arg >= n)) /\ out \in {Continue(cpu)}
          \/ (arg >= 0 /\ n = 0) /\ out \in {Fault(cpu)}
          \/ ~(arg < 0 \/ (n > 1 /\ arg >= n)) /\ ~(arg >= 0 /\ n = 0) /\ out \in results \cup {Fault(cpu)}
      BY <1>1, <1>2, <2>0 DEF NatvOutcomes
    <3> QED
      BY <1>5, <3>1
  <2>2. index + 1 \in 1..n
    <3>1. arg \in Int /\ n \in Nat
      BY <1>3, <2>0
    <3>2. CASE n = 1
      BY <1>1, <2>0, <3>2
    <3>3. CASE n # 1
      BY <1>1, <2>0, <2>1, <3>1, <3>3
    <3> QED
      BY <3>2, <3>3
  <2>3. params \in Nat
    BY <1>1, <1>3, <2>0, <2>2
  <2>4. PICK iRet \in NativeResults : out = Continue([after EXCEPT !.r[0] = iRet])
    BY <2>0, <2>1
  <2>5. after \in Machines
    <3>1. Top(cpu) \in Int /\ IntBytes \in Int /\ params * IntBytes \in Int
      BY <2>3, StackTypes, Widths
    <3>2. Wrap(Top(cpu) + params * IntBytes) \in Ints
      BY <3>1, WrapType
    <3> QED
      BY <1>2, <3>2, Changes
  <2>6. [after EXCEPT !.r[0] = iRet] \in Machines
    BY <2>5, UnknownsAssumption, Changes
  <2> QED
    BY <2>4, <2>6, Ends
<1> QED
  BY <1>4, <1>5

LEMMA CrthTyped ==
    ASSUME NEW cpu \in Machines, NEW in \in Instruction
    PROVE  LET out == CrthHandler(cpu, in)
           IN  IsResult(out) /\ (out.fault \/ out.spawn # {})
<1>1. PICK o : o = RegOperand(cpu, in.drf0, in.reg0)
  OBVIOUS
<1>2. Accessible(cpu, o) => Value(cpu, o) \in Int
  <2>1. in.drf0 \in BOOLEAN
    BY DEF Instruction
  <2> QED
    BY <1>1, <2>1, Operands, OperandTypes
<1>3. CASE Accessible(cpu, o)
  <2>1. PICK v : v = Value(cpu, o)
    OBVIOUS
  <2>2. v \in Int /\ CrthHandler(cpu, in) = Create(cpu, v)
    BY <1>1, <1>2, <1>3, <2>1 DEF CrthHandler
  <2> QED
    BY <2>2, Ends
<1>4. CASE ~Accessible(cpu, o)
  <2>1. CrthHandler(cpu, in) = Fault(cpu)
    BY <1>1, <1>4 DEF CrthHandler
  <2> QED
    BY <2>1, Ends DEF Quiet
<1> QED
  BY <1>3, <1>4

\* All instructions: the types, and that crth and nothing else creates a thread.
LEMMA OutcomesTyped ==
    ASSUME NEW cpu \in Machines, NEW in \in Instruction, NEW out \in Outcomes(cpu, in)
    PROVE  /\ IsResult(out)
           /\ in.op # "crth" => out.spawn = {}
           /\ in.op = "crth" => out.fault \/ out.spawn # {}
<1>1. in.op \in TwoOps \cup OneOps \cup NoOps
  BY DEF Instruction
<1>2. CASE in.op \in TwoOps
  <2>1. Quiet(out)
    BY <1>2, OperationsTyped, StkTyped, CmpTyped DEF Outcomes, TwoOps
  <2> QED
    BY <1>2, <2>1 DEF Quiet, TwoOps
<1>3. CASE in.op \in {"jmp", "jg", "jl", "jle", "jge", "jz", "jnz"}
  <2>1. Quiet(out)
    BY <1>3, JumpsTyped DEF Outcomes
  <2> QED
    BY <1>3, <2>1 DEF Quiet
<1>4. CASE in.op \in {"push", "call", "ret", "nop", "pop", "natv"}
  <2>1. Quiet(out)
    BY <1>4, StackHandlersTyped, NatvTyped DEF Outcomes
  <2> QED
    BY <1>4, <2>1 DEF Quiet
<1>5. CASE in.op = "crth"
  <2>1. out = CrthHandler(cpu, in)
    BY <1>5 DEF Outcomes
  <2> QED
    BY <1>5, <2>1, CrthTyped
<1> QED
  BY <1>1, <1>2, <1>3, <1>4, <1>5 DEF TwoOps, OneOps, NoOps
----------------------------------------------------------------------------
(* Every register holds a word and every byte a byte, whatever the program. *)

Cpus == [r : [0..7 -> Ints], ip : Int, zf : BOOLEAN, pf : BOOLEAN, nf : BOOLEAN]
Trackers == [m_cpu : Cpus, ulPriority : {0, 1, 2}, ulCurrentLevel : Nat]

MachineTypeOK ==
    /\ m_vecThreads \in Seq(Trackers)
    /\ capacity \in Nat
    /\ phase \in {"load", "run", "exited", "faulted"}
    /\ ran \in Nat
    /\ ram \in Rams

LEMMA ViewTypes ==
    /\ \A cpu \in Cpus, memory \in Rams : View(cpu, memory) \in Machines /\ View(cpu, memory).ip = cpu.ip
    /\ \A cpu \in Machines : CpuOf(cpu) \in Cpus /\ cpu.ram \in Rams /\ CpuOf(cpu).ip = cpu.ip
    /\ \A cpu \in Machines, p \in {0, 1, 2} : Tracker(cpu, p) \in Trackers
<1>1. \A cpu \in Cpus, memory \in Rams : View(cpu, memory) \in Machines /\ View(cpu, memory).ip = cpu.ip
  BY DEF View, Cpus, Machines
<1>2. \A cpu \in Machines : CpuOf(cpu) \in Cpus /\ cpu.ram \in Rams /\ CpuOf(cpu).ip = cpu.ip
  BY DEF CpuOf, Cpus, Machines
<1> QED
  BY <1>1, <1>2 DEF Tracker, Trackers

LEMMA LoadedRamType == LoadedRam \in Rams
<1>1. ASSUME NEW a \in HostAddresses, a < StackBase PROVE Data[a - MemBase] \in Bytes
  <2>1. StackBase \in Nat /\ StackSize \in Nat
    BY Widths, LayoutAssumption DEF StackSize
  <2>2. a \notin StackBase..(StackTop(MaxThreads) - 1)
    BY <1>1, <2>1
  <2>3. PICK x \in DOMAIN Data : a = Host(x)
    BY <2>2 DEF HostAddresses
  <2>4. /\ x \in Nat /\ MemBase \in Nat /\ MemBase + x \in Nat
        /\ MemBase + x < 2^IntBits /\ 2^IntBits \in Nat
    BY FilesAssumption, MemoryAssumption, LayoutAssumption, Powers
  <2>5. Unsigned(MemBase + x) = MemBase + x
    <3>1. \A w, v \in Nat : v < w => v % w = v
      OBVIOUS
    <3> QED
      BY <2>4, <3>1 DEF Unsigned
  <2>6. a - MemBase = x
    BY <2>3, <2>4, <2>5 DEF Host
  <2> QED
    BY <2>6, FilesAssumption
<1> QED
  BY <1>1, IntsAreInt DEF LoadedRam, Rams

LEMMA NewCpusTyped ==
    ASSUME NEW n \in Nat, NEW ip \in Int, NEW cpu \in NewCpus(n, ip)
    PROVE  cpu \in Cpus /\ cpu.ip = ip
<1>1. PICK top : top = Wrap(StackTop(n))
  OBVIOUS
<1>2. top \in Ints
  <2>1. /\ StackBase \in Int /\ StackInts \in Int /\ IntBytes \in Int
        /\ StackSize \in Int
    BY Widths, LayoutAssumption DEF StackSize
  <2>2. (n - 1) * StackSize \in Int
    BY <2>1
  <2> QED
    BY <1>1, <2>1, <2>2, WrapType DEF StackTop, StackOf
<1>3. PICK f \in FreshFlags :
         cpu = [r |-> [k \in 0..7 |-> IF k = 7 THEN top ELSE 0],
                ip |-> ip, zf |-> f[1], pf |-> f[2], nf |-> f[3]]
  BY <1>1 DEF NewCpus
<1>4. f[1] \in BOOLEAN /\ f[2] \in BOOLEAN /\ f[3] \in BOOLEAN
  BY UnknownsAssumption
<1>5. [k \in 0..7 |-> IF k = 7 THEN top ELSE 0] \in [0..7 -> Ints]
  BY <1>2, IntsAreInt
<1> QED
  BY <1>3, <1>4, <1>5 DEF Cpus

LEMMA InitThreadTyped ==
    ASSUME NEW n \in Nat, NEW ip \in Int, NEW memory \in Rams, NEW cpu \in InitThread(n, ip, memory)
    PROVE  cpu \in Machines /\ cpu.ip = ip
<1>1. PICK new \in NewCpus(n, ip) : cpu = Pushed(View(new, memory), -1)
  BY DEF InitThread
<1>2. View(new, memory) \in Machines /\ View(new, memory).ip = ip
  BY NewCpusTyped, ViewTypes
<1> QED
  BY <1>1, <1>2, StackTypes

LEMMA ForcePushAllTyped ==
    ASSUME NEW cpu \in Machines, NEW args \in Seq(Ints)
    PROVE  ForcePushAll(cpu, args) \in Machines /\ ForcePushAll(cpu, args).ip = cpu.ip
<1> DEFINE n == Len(args)
           S == {c \in Machines : c.ip = cpu.ip}
           F(f) == [k \in 0..n |-> IF k = 0 THEN cpu ELSE Pushed(f[k - 1], args[k])]
           f0 == CHOOSE f : f = F(f)
<1>1. ForcePushAll(cpu, args) = f0[n]
  BY DEF ForcePushAll
<1>2. n \in Nat /\ \A k \in 1..n : args[k] \in Int
  <2>1. n \in Nat /\ \A k \in 1..n : args[k] \in Ints
    OBVIOUS
  <2>2. ASSUME NEW k \in 1..n PROVE args[k] \in Int
    <3>1. PICK v : v = args[k]
      OBVIOUS
    <3>2. v \in Ints
      BY <2>1, <3>1
    <3> QED
      BY <3>1, <3>2, IntsAreInt
  <2> QED
    BY <2>1, <2>2, Zenon
<1>3. cpu \in S /\ \A k \in 1..n, c \in S : Pushed(c, args[k]) \in S
  BY <1>2, StackTypes
<1>4. \A k \in 0..n : k # 0 => k \in 1..n
  OBVIOUS
<1> HIDE DEF S, n
<1>5. \E f : f = F(f)
  <2>1. PICK G : G = [k \in 1..n |-> [c \in S |-> Pushed(c, args[k])]]
    OBVIOUS
  <2>2. G \in [1..n -> [S -> S]] /\ \A k \in 1..n, c \in S : G[k][c] = Pushed(c, args[k])
    BY <1>3, <2>1
  <2>3. PICK f \in [0..n -> S] : Chain(f, n, cpu, G)
    BY <1>2, <1>3, <2>2, ChainExists
  <2>4. ASSUME NEW k \in 0..n PROVE f[k] = IF k = 0 THEN cpu ELSE Pushed(f[k - 1], args[k])
    <3>1. f[k] = IF k = 0 THEN cpu ELSE G[k][f[k - 1]]
      BY <2>3 DEF Chain
    <3>2. k # 0 => k \in 1..n /\ k - 1 \in 0..n
      BY <1>2
    <3> QED
      BY <2>2, <2>3, <3>1, <3>2
  <2>5. f = F(f)
    BY <2>3, <2>4
  <2> QED
    BY <2>5
<1>6. f0 = F(f0)
  <2> HIDE DEF F
  <2> QED
    BY <1>5, Zenon
<1>7. PICK f : f = f0
  OBVIOUS
<1>8. \A k \in 0..n : f[k] = IF k = 0 THEN cpu ELSE Pushed(f[k - 1], args[k])
  BY <1>6, <1>7
<1>9. PICK K : K = {k \in 0..n : f[k] \in S}
  OBVIOUS
<1>10. 0 \in K
  BY <1>2, <1>3, <1>8, <1>9
<1>11. ASSUME NEW k \in 1..n, k - 1 \in K PROVE k \in K
  <2>1. f[k - 1] \in S /\ k \in 0..n /\ k # 0
    BY <1>9, <1>11
  <2> QED
    BY <1>3, <1>8, <1>9, <2>1
<1>12. K = 0..n
  BY <1>2, <1>9, <1>10, <1>11, Up
<1>13. f[n] \in S
  BY <1>2, <1>9, <1>12
<1> QED
  BY <1>1, <1>7, <1>13 DEF S

LEMMA AfterHandlerTyped ==
    ASSUME NEW out, IsResult(out), NEW in \in Instruction
    PROVE  AfterHandler(out, in) \in Machines
<1>1. out.m \in Machines /\ out.m.ip \in Int /\ in.next \in Int
  BY MachineFields DEF IsResult, Instruction
<1>2. Wrap(out.m.ip + in.next) \in Int
  <2>1. out.m.ip + in.next \in Int
    BY <1>1
  <2> QED
    BY <2>1, WrapType, IntsAreInt
<1> QED
  BY <1>1, <1>2, Changes DEF AfterHandler

LEMMA CapacityTyped == ASSUME capacity \in Nat PROVE CapacityAfterPush \in Nat
BY DEF CapacityAfterPush, Grown

\* A function of the positions of a sequence is a sequence.
LEMMA PositionsGiveSeq ==
    ASSUME NEW S, NEW n \in Nat, NEW f \in [1..n -> S]
    PROVE  f \in Seq(S) /\ Len(f) = n
BY SeqDef

\* What Tick makes of the trackers.
LEMMA RaisedTyped ==
    ASSUME m_vecThreads \in Seq(Trackers)
    PROVE  /\ Raised \in Seq(Trackers) /\ Len(Raised) = Len(m_vecThreads)
           /\ DOMAIN Raised = DOMAIN m_vecThreads
           /\ \A i \in DOMAIN m_vecThreads :
                 /\ m_vecThreads[i] \in Trackers
                 /\ Raised[i] = [m_vecThreads[i] EXCEPT
                                   !.ulCurrentLevel = @ + m_vecThreads[i].ulPriority]
<1>1. PICK n : n = Len(m_vecThreads)
  OBVIOUS
<1>2. n \in Nat /\ DOMAIN m_vecThreads = 1..n /\ \A i \in 1..n : m_vecThreads[i] \in Trackers
  BY <1>1
<1>3. \A i \in 1..n : [m_vecThreads[i] EXCEPT
                         !.ulCurrentLevel = @ + m_vecThreads[i].ulPriority] \in Trackers
  BY <1>2 DEF Trackers
<1>4. Raised \in [1..n -> Trackers]
  BY <1>2, <1>3 DEF Raised
<1>5. Raised \in Seq(Trackers) /\ Len(Raised) = n
  BY <1>2, <1>4, PositionsGiveSeq
<1> QED
  BY <1>1, <1>2, <1>5 DEF Raised

LEMMA SettledTyped ==
    ASSUME m_vecThreads \in Seq(Trackers), NEW b \in DOMAIN m_vecThreads,
           NEW cpu \in Cpus, NEW p \in {0, 1, 2}
    PROVE  /\ Settled(b, cpu, p) \in Seq(Trackers)
           /\ Len(Settled(b, cpu, p)) = Len(m_vecThreads)
           /\ Settled(b, cpu, p)[b] = [m_cpu |-> cpu, ulPriority |-> p, ulCurrentLevel |-> 0]
           /\ \A i \in DOMAIN m_vecThreads \ {b} : Settled(b, cpu, p)[i] = Raised[i]
<1>1. PICK new : new = [m_cpu |-> cpu, ulPriority |-> p, ulCurrentLevel |-> 0]
  OBVIOUS
<1>2. new \in Trackers
  BY <1>1 DEF Trackers
<1>3. Settled(b, cpu, p) = [Raised EXCEPT ![b] = new]
  BY <1>1 DEF Settled
<1> QED
  BY <1>1, <1>2, <1>3, RaisedTyped

\* The step of one instruction.
LEMMA ExecuteTyped ==
    ASSUME MachineTypeOK, NEW b \in DOMAIN m_vecThreads, ExecuteInstruction(b)
    PROVE  m_vecThreads' \in Seq(Trackers) /\ capacity' \in Nat /\ ram' \in Rams
           /\ phase' \in {phase, "faulted"}
<1>1. /\ m_vecThreads \in Seq(Trackers) /\ capacity \in Nat /\ ram \in Rams
  BY DEF MachineTypeOK
<1>2. m_vecThreads[b] \in Trackers
  BY <1>1
<1>3. PICK cpu, p : cpu = m_vecThreads[b].m_cpu /\ p = m_vecThreads[b].ulPriority
  OBVIOUS
<1>4. cpu \in Cpus /\ p \in {0, 1, 2}
  BY <1>2, <1>3 DEF Trackers
<1>5. CASE ExecuteReturned(b)
  BY <1>1, <1>3, <1>4, <1>5, SettledTyped DEF ExecuteReturned
<1>6. CASE ExecuteUnknown(b)
  BY <1>1, <1>3, <1>4, <1>6, SettledTyped DEF ExecuteUnknown
<1>7. ASSUME cpu.ip \in DOMAIN Code, NEW out \in Outcomes(View(cpu, ram), Code[cpu.ip]),
             \/ ExecutePlain(b, out, Code[cpu.ip])
             \/ ExecuteCrth(b, out, Code[cpu.ip])
             \/ ExecuteFault(out)
      PROVE  m_vecThreads' \in Seq(Trackers) /\ capacity' \in Nat /\ ram' \in Rams
             /\ phase' \in {phase, "faulted"}
  <2>1. PICK in : in = Code[cpu.ip]
    OBVIOUS
  <2>2. in \in Instruction
    BY <1>7, <2>1, CodeAssumption
  <2>3. IsResult(out)
    <3>1. View(cpu, ram) \in Machines
      BY <1>1, <1>4, ViewTypes
    <3> QED
      BY <1>7, <2>1, <2>2, <3>1, OutcomesTyped
  <2>4. PICK after : after = AfterHandler(out, in)
    OBVIOUS
  <2>5. after \in Machines /\ CpuOf(after) \in Cpus /\ after.ram \in Rams
    BY <2>2, <2>3, <2>4, AfterHandlerTyped, ViewTypes
  <2>6. Settled(b, CpuOf(after), p) \in Seq(Trackers)
    BY <1>1, <1>4, <2>5, SettledTyped
  <2>7. CASE ExecutePlain(b, out, in)
    BY <1>1, <1>3, <2>4, <2>5, <2>6, <2>7 DEF ExecutePlain
  <2>8. CASE ExecuteCrth(b, out, in)
    <3>0. PICK ip \in out.spawn :
             \E m0 \in InitThread(Len(m_vecThreads) + 1, ip, out.m.ram) :
                /\ m_vecThreads' = Append(IF Reallocates THEN Raised ELSE Settled(b, CpuOf(after), p),
                                          Tracker(m0, 1))
                /\ ram' = m0.ram
      BY <1>3, <2>4, <2>8 DEF ExecuteCrth
    <3>1. PICK m0 \in InitThread(Len(m_vecThreads) + 1, ip, out.m.ram) :
             /\ m_vecThreads' = Append(IF Reallocates THEN Raised ELSE Settled(b, CpuOf(after), p),
                                       Tracker(m0, 1))
             /\ ram' = m0.ram
      BY <3>0
    <3>2. m0 \in Machines
      <4>1. ip \in Int /\ out.m.ram \in Rams /\ Len(m_vecThreads) + 1 \in Nat
        BY <1>1, <2>3, MachineFields DEF IsResult
      <4> QED
        BY <3>1, <4>1, InitThreadTyped
    <3>3. Tracker(m0, 1) \in Trackers /\ m0.ram \in Rams
      BY <3>2, ViewTypes
    <3>4. (IF Reallocates THEN Raised ELSE Settled(b, CpuOf(after), p)) \in Seq(Trackers)
      BY <1>1, <2>6, RaisedTyped
    <3>5. m_vecThreads' \in Seq(Trackers)
      BY <3>1, <3>3, <3>4
    <3>6. capacity' \in Nat /\ phase' = phase
      BY <1>1, <2>8, CapacityTyped DEF ExecuteCrth
    <3> QED
      BY <3>1, <3>3, <3>5, <3>6
  <2>9. CASE ExecuteFault(out)
    BY <1>1, <2>9 DEF ExecuteFault
  <2> QED
    BY <1>7, <2>1, <2>7, <2>8, <2>9
<1> QED
  BY <1>3, <1>5, <1>6, <1>7 DEF ExecuteInstruction

\* The first thread, of BeginExecution.
LEMMA StartTyped ==
    ASSUME MachineTypeOK, Start
    PROVE  \E m0 \in Machines :
              /\ m0.ip = Entry /\ m_vecThreads' = <<Tracker(m0, 2)>> /\ ram' = m0.ram
<1>1. ram \in Rams
  BY DEF MachineTypeOK
<1>2. PICK m1 \in InitThread(1, Entry, ram), args \in ForcedArgs :
         LET started == ForcePushAll(m1, args)
         IN  m_vecThreads' = <<Tracker(started, 2)>> /\ ram' = started.ram
  BY DEF Start, Begin
<1>3. m1 \in Machines /\ m1.ip = Entry
  BY <1>1, <1>2, FilesAssumption, InitThreadTyped
<1>4. PICK m0 : m0 = ForcePushAll(m1, args)
  OBVIOUS
<1>5. m0 \in Machines /\ m0.ip = Entry
  BY <1>2, <1>3, <1>4, ArgsAssumption, ForcePushAllTyped
<1> QED
  BY <1>2, <1>4, <1>5

\* Whatever the program does with its words and addresses, every register
\* keeps a word, every byte of the host's memory a byte and every thread one
\* of the three priorities: no handler's result escapes the width of an int.
THEOREM MachineTyped == Spec => []MachineTypeOK
<1>1. Init => MachineTypeOK
  <2>1. <<>> \in Seq(Trackers)
    OBVIOUS
  <2> QED
    BY <2>1, LoadedRamType DEF Init, MachineTypeOK
<1>2. MachineTypeOK /\ [Next]_vars => MachineTypeOK'
  <2> SUFFICES ASSUME MachineTypeOK, [Next]_vars PROVE MachineTypeOK'
    OBVIOUS
  <2>1. CASE Start
    <3>1. PICK m0 \in Machines : m_vecThreads' = <<Tracker(m0, 2)>> /\ ram' = m0.ram
      BY <2>1, StartTyped
    <3>2. Tracker(m0, 2) \in Trackers /\ m0.ram \in Rams
      BY ViewTypes
    <3>3. m_vecThreads' \in Seq(Trackers)
      BY <3>1, <3>2
    <3>4. capacity' \in Nat /\ phase' = "run" /\ ran' \in Nat
      BY <2>1, CapacityTyped DEF Start, Begin, MachineTypeOK
    <3> QED
      BY <3>1, <3>2, <3>3, <3>4 DEF MachineTypeOK
  <2>2. CASE Tick
    <3>1. PICK b \in DOMAIN m_vecThreads :
             ExecuteInstruction(b) /\ ran' = IF phase' = "faulted" THEN ran ELSE b
      BY <2>2 DEF Tick
    <3>2. b \in Nat
      BY <3>1 DEF MachineTypeOK
    <3>3. phase = "run"
      BY <2>2 DEF Tick
    <3> QED
      BY <3>1, <3>2, <3>3, ExecuteTyped DEF MachineTypeOK
  <2>3. CASE JumpOut
    BY <2>3 DEF JumpOut, MachineTypeOK
  <2>4. CASE Stopped
    BY <2>4 DEF Stopped, vars, MachineTypeOK
  <2>5. CASE UNCHANGED vars
    BY <2>5 DEF vars, MachineTypeOK
  <2> QED
    BY <2>1, <2>2, <2>3, <2>4, <2>5 DEF Next
<1> QED
  BY <1>1, <1>2, PTL DEF Spec
----------------------------------------------------------------------------
(***************************************************************************)
(* The machine is a scheduler.                                             *)
(*                                                                         *)
(* What a thread will do is only told apart as far as VxThreads can see    *)
(* it: it has returned (-1), comes to a crth (1), or to anything else (0). *)
(* From each of them it may go to any, since nothing is assumed of Code.   *)
(***************************************************************************)
Sort(ip) == CASE ip = -1 -> -1
              [] ip \in DOMAIN Code /\ Code[ip].op = "crth" -> 1
              [] OTHER -> 0
AnyIp == {-1, 0, 1}

Seen(thread) == [ip |-> Sort(thread.m_cpu.ip),
                 ulPriority |-> thread.ulPriority,
                 ulCurrentLevel |-> thread.ulCurrentLevel]
SeenAll(threads) == [i \in DOMAIN threads |-> Seen(threads[i])]

Scheduler == INSTANCE VxThreadsProofs WITH
    Ips <- {0, 1},
    Kind <- [i \in {0, 1} |-> IF i = 1 THEN "crth" ELSE "plain"],
    Succ <- [i \in {0, 1} |-> AnyIp],
    Targets <- AnyIp,
    Entry <- Sort(Entry),
    phase <- IF phase = "faulted" THEN "run" ELSE phase,
    m_vecThreads <- SeenAll(m_vecThreads)

LEMMA SortFacts ==
    /\ \A ip : Sort(ip) \in AnyIp
    /\ Sort(-1) = -1
    /\ \A ip \in DOMAIN Code : Code[ip].op = "crth" => Sort(ip) = 1
    /\ \A ip \in DOMAIN Code : Code[ip].op # "crth" => Sort(ip) = 0
    /\ \A ip \in Int : ip \notin DOMAIN Code /\ ip # -1 => Sort(ip) = 0
<1>1. -1 \notin DOMAIN Code
  BY CodeAssumption
<1> QED
  BY <1>1 DEF Sort, AnyIp

\* The assumptions of VxThreads hold of the machine's threads.
LEMMA Assumed ==
    /\ {0, 1} \subseteq Nat
    /\ [i \in {0, 1} |-> IF i = 1 THEN "crth" ELSE "plain"] \in [{0, 1} -> {"plain", "crth"}]
    /\ [i \in {0, 1} |-> AnyIp] \in [{0, 1} -> SUBSET Scheduler!Places]
    /\ Sort(Entry) \in Scheduler!Places /\ AnyIp \subseteq Scheduler!Places
    /\ MaxThreads \in Nat \ {0}
BY LayoutAssumption, SortFacts DEF AnyIp, Scheduler!Places, Scheduler!Returned

LEMMA SeenShape ==
    ASSUME m_vecThreads \in Seq(Trackers)
    PROVE  /\ DOMAIN SeenAll(m_vecThreads) = DOMAIN m_vecThreads
           /\ Len(SeenAll(m_vecThreads)) = Len(m_vecThreads)
           /\ \A i \in DOMAIN m_vecThreads : SeenAll(m_vecThreads)[i] = Seen(m_vecThreads[i])
<1>1. PICK n : n = Len(m_vecThreads) /\ n \in Nat /\ DOMAIN m_vecThreads = 1..n
  OBVIOUS
<1>2. PICK S : S = {Seen(m_vecThreads[i]) : i \in 1..n}
  OBVIOUS
<1>3. SeenAll(m_vecThreads) \in [1..n -> S]
  BY <1>1, <1>2 DEF SeenAll
<1>4. Len(SeenAll(m_vecThreads)) = n
  BY <1>1, <1>3, PositionsGiveSeq
<1> QED
  BY <1>1, <1>4 DEF SeenAll

LEMMA SeenAppend ==
    ASSUME NEW s \in Seq(Trackers), NEW t \in Trackers
    PROVE  SeenAll(Append(s, t)) = Append(SeenAll(s), Seen(t))
<1>1. PICK n : n = Len(s) /\ n \in Nat /\ DOMAIN s = 1..n
  OBVIOUS
<1>2. PICK S : S = {Seen(s[i]) : i \in 1..n}
  OBVIOUS
<1>3. SeenAll(s) \in [1..n -> S]
  BY <1>1, <1>2 DEF SeenAll
<1>4. SeenAll(s) \in Seq(S) /\ Len(SeenAll(s)) = n
  BY <1>1, <1>3, PositionsGiveSeq
<1>5. PICK u : u = Append(s, t)
  OBVIOUS
<1>6. DOMAIN u = 1..(n + 1) /\ \A i \in 1..(n + 1) : u[i] = IF i = n + 1 THEN t ELSE s[i]
  BY <1>1, <1>5
<1>7. PICK v : v = Append(SeenAll(s), Seen(t))
  OBVIOUS
<1>8. DOMAIN v = 1..(n + 1)
      /\ \A i \in 1..(n + 1) : v[i] = IF i = n + 1 THEN Seen(t) ELSE SeenAll(s)[i]
  BY <1>4, <1>7
<1>9. PICK D : D = 1..(n + 1)
  OBVIOUS
<1>10. v = [i \in D |-> v[i]]
  <2>0. PICK W : W = S \cup {Seen(t)}
    OBVIOUS
  <2>1. v \in Seq(W)
    BY <1>4, <1>7, <2>0
  <2>2. v \in [1..Len(v) -> W]
    BY <2>1, LenProperties
  <2>3. 1..Len(v) = D
    BY <1>8, <1>9, <2>2
  <2>4. v \in [D -> W]
    BY <2>2, <2>3
  <2> QED
    BY <2>4
<1>11. ASSUME NEW i \in D PROVE v[i] = Seen(u[i])
  <2>1. CASE i = n + 1
    BY <1>1, <1>6, <1>8, <1>9, <2>1
  <2>2. CASE i # n + 1
    <3>1. i \in 1..n /\ u[i] = s[i] /\ v[i] = SeenAll(s)[i]
      BY <1>1, <1>6, <1>8, <1>9, <2>2
    <3>2. SeenAll(s)[i] = Seen(s[i])
      BY <1>1, <3>1 DEF SeenAll
    <3> QED
      BY <3>1, <3>2
  <2> QED
    BY <2>1, <2>2
<1>12. SeenAll(u) = [i \in D |-> Seen(u[i])]
  BY <1>6, <1>9 DEF SeenAll
<1>13. SeenAll(u) = [i \in D |-> v[i]]
  BY <1>11, <1>12
<1> QED
  BY <1>5, <1>7, <1>10, <1>13

LEMMA SeenRaised ==
    ASSUME m_vecThreads \in Seq(Trackers)
    PROVE  /\ SeenAll(Raised) = Scheduler!Raised
           /\ \A i \in DOMAIN m_vecThreads :
                 Scheduler!Raised[i].ulCurrentLevel = Raised[i].ulCurrentLevel
<1>1. ASSUME NEW i \in DOMAIN m_vecThreads
      PROVE  Seen(Raised[i]) = [Seen(m_vecThreads[i]) EXCEPT
                                  !.ulCurrentLevel = @ + Seen(m_vecThreads[i]).ulPriority]
  BY RaisedTyped DEF Seen, Trackers
<1>2. SeenAll(Raised) = [i \in DOMAIN m_vecThreads |-> Seen(Raised[i])]
  BY RaisedTyped DEF SeenAll
<1>3. Scheduler!Raised =
        [i \in DOMAIN m_vecThreads |->
           [Seen(m_vecThreads[i]) EXCEPT !.ulCurrentLevel = @ + Seen(m_vecThreads[i]).ulPriority]]
  BY SeenShape DEF Scheduler!Raised
<1>4. SeenAll(Raised) = Scheduler!Raised
  BY <1>1, <1>2, <1>3
<1>5. \A i \in DOMAIN m_vecThreads : Scheduler!Raised[i] = Seen(Raised[i])
  BY <1>2, <1>4
<1>6. \A thread : Seen(thread).ulCurrentLevel = thread.ulCurrentLevel
  BY DEF Seen
<1> QED
  BY <1>4, <1>5, <1>6, Zenon

LEMMA SeenBest ==
    ASSUME m_vecThreads \in Seq(Trackers), NEW b \in DOMAIN m_vecThreads, IsBest(b)
    PROVE  Scheduler!IsBest(b)
<1>1. DOMAIN Scheduler!Raised = DOMAIN m_vecThreads /\ DOMAIN Raised = DOMAIN m_vecThreads
  BY SeenShape DEF Scheduler!Raised, Raised
<1> QED
  BY <1>1, SeenRaised DEF IsBest, Scheduler!IsBest

LEMMA SeenActive ==
    ASSUME m_vecThreads \in Seq(Trackers)
    PROVE  GetActive <=> Scheduler!GetActive
BY SeenShape DEF GetActive, Scheduler!GetActive, Seen

LEMMA SeenSettled ==
    ASSUME m_vecThreads \in Seq(Trackers), NEW b \in DOMAIN m_vecThreads, NEW cpu \in Cpus
    PROVE  /\ SeenAll(Settled(b, cpu, m_vecThreads[b].ulPriority)) = Scheduler!Settled(b, Sort(cpu.ip))
           /\ SeenAll(Settled(b, cpu, 0)) =
                 [Scheduler!Settled(b, Sort(cpu.ip)) EXCEPT ![b] = [@ EXCEPT !.ulPriority = 0]]
<1>1. m_vecThreads[b] \in Trackers /\ m_vecThreads[b].ulPriority \in {0, 1, 2} /\ 0 \in {0, 1, 2}
  <2>1. m_vecThreads[b] \in Trackers
    OBVIOUS
  <2> QED
    BY <2>1 DEF Trackers
<1>2. PICK up : up = Scheduler!Raised
  OBVIOUS
<1>3. up = [i \in DOMAIN m_vecThreads |-> Seen(Raised[i])]
  BY <1>2, SeenRaised, RaisedTyped DEF SeenAll
<1>4. Seen(Raised[b]) = [ip |-> Sort(m_vecThreads[b].m_cpu.ip),
                         ulPriority |-> m_vecThreads[b].ulPriority,
                         ulCurrentLevel |-> Raised[b].ulCurrentLevel]
  BY <1>1, RaisedTyped DEF Seen, Trackers
<1>5. ASSUME NEW p \in {0, 1, 2}
      PROVE  SeenAll(Settled(b, cpu, p)) =
                [up EXCEPT ![b] = [ip |-> Sort(cpu.ip), ulPriority |-> p, ulCurrentLevel |-> 0]]
  <2>1. PICK T : T = Settled(b, cpu, p)
    OBVIOUS
  <2>2. T \in Seq(Trackers) /\ Len(T) = Len(m_vecThreads)
        /\ T[b] = [m_cpu |-> cpu, ulPriority |-> p, ulCurrentLevel |-> 0]
        /\ \A i \in DOMAIN m_vecThreads \ {b} : T[i] = Raised[i]
    BY <2>1, SettledTyped
  <2>3. DOMAIN T = DOMAIN m_vecThreads
    BY <2>2
  <2>4. Seen([m_cpu |-> cpu, ulPriority |-> p, ulCurrentLevel |-> 0]) =
          [ip |-> Sort(cpu.ip), ulPriority |-> p, ulCurrentLevel |-> 0]
    BY DEF Seen
  <2>5. \A i \in DOMAIN m_vecThreads :
           Seen(T[i]) = IF i = b THEN [ip |-> Sort(cpu.ip), ulPriority |-> p, ulCurrentLevel |-> 0]
                                 ELSE Seen(Raised[i])
    BY <2>2, <2>4
  <2> QED
    BY <1>3, <2>1, <2>3, <2>5 DEF SeenAll
<1>6. Scheduler!Settled(b, Sort(cpu.ip)) =
        [up EXCEPT ![b] = [ip |-> Sort(cpu.ip), ulPriority |-> m_vecThreads[b].ulPriority,
                          ulCurrentLevel |-> 0]]
  <2>1. up[b] = [ip |-> Sort(m_vecThreads[b].m_cpu.ip),
                ulPriority |-> m_vecThreads[b].ulPriority,
                ulCurrentLevel |-> Raised[b].ulCurrentLevel]
    BY <1>3, <1>4
  <2>2. [up[b] EXCEPT !.ip = Sort(cpu.ip), !.ulCurrentLevel = 0] =
          [ip |-> Sort(cpu.ip), ulPriority |-> m_vecThreads[b].ulPriority, ulCurrentLevel |-> 0]
    <3>1. PICK t, ip, p, level :
             /\ t = up[b] /\ ip = Sort(m_vecThreads[b].m_cpu.ip)
             /\ p = m_vecThreads[b].ulPriority /\ level = Raised[b].ulCurrentLevel
      OBVIOUS
    <3>2. t = [ip |-> ip, ulPriority |-> p, ulCurrentLevel |-> level]
      BY <2>1, <3>1
    <3>3. PICK new : new = Sort(cpu.ip)
      OBVIOUS
    <3>4. PICK q : q = [t EXCEPT !.ip = new]
      OBVIOUS
    <3>5. q = [ip |-> new, ulPriority |-> p, ulCurrentLevel |-> level]
      BY <3>2, <3>4
    <3>6. [q EXCEPT !.ulCurrentLevel = 0] = [ip |-> new, ulPriority |-> p, ulCurrentLevel |-> 0]
      BY <3>5
    <3>7. [t EXCEPT !.ip = new, !.ulCurrentLevel = 0] = [q EXCEPT !.ulCurrentLevel = 0]
      BY <3>4
    <3> QED
      BY <3>1, <3>3, <3>6, <3>7
  <2>3. Scheduler!Settled(b, Sort(cpu.ip)) =
          [up EXCEPT ![b] = [up[b] EXCEPT !.ip = Sort(cpu.ip), !.ulCurrentLevel = 0]]
    BY <1>2 DEF Scheduler!Settled
  <2> QED
    BY <2>2, <2>3
<1>7. [Scheduler!Settled(b, Sort(cpu.ip)) EXCEPT ![b] = [@ EXCEPT !.ulPriority = 0]] =
        [up EXCEPT ![b] = [ip |-> Sort(cpu.ip), ulPriority |-> 0, ulCurrentLevel |-> 0]]
  <2>1. PICK level, word : level = m_vecThreads[b].ulPriority /\ word = Sort(cpu.ip)
    OBVIOUS
  <2>2. PICK Q : Q = [up EXCEPT ![b] = [ip |-> word, ulPriority |-> level, ulCurrentLevel |-> 0]]
    OBVIOUS
  <2>3. /\ Q[b] = [ip |-> word, ulPriority |-> level, ulCurrentLevel |-> 0]
        /\ [Q[b] EXCEPT !.ulPriority = 0] = [ip |-> word, ulPriority |-> 0, ulCurrentLevel |-> 0]
    BY <1>3, <2>2
  <2>4. [Q EXCEPT ![b] = [Q[b] EXCEPT !.ulPriority = 0]] =
          [up EXCEPT ![b] = [ip |-> word, ulPriority |-> 0, ulCurrentLevel |-> 0]]
    BY <1>3, <2>2, <2>3
  <2>5. Q = Scheduler!Settled(b, Sort(cpu.ip))
    BY <1>6, <2>1, <2>2
  <2> QED
    BY <2>1, <2>4, <2>5
<1> QED
  BY <1>1, <1>5, <1>6, <1>7

\* One round of the machine's run loop is a Tick of the scheduler, unless the
\* process dies in it.
LEMMA TickIsSchedulerTick ==
    ASSUME MachineTypeOK, Tick
    PROVE  Scheduler!Tick \/ UNCHANGED Scheduler!vars
<1>1. /\ m_vecThreads \in Seq(Trackers) /\ ram \in Rams /\ phase = "run" /\ GetActive
  BY DEF MachineTypeOK, Tick
<1>2. PICK b \in DOMAIN m_vecThreads :
         IsBest(b) /\ ExecuteInstruction(b) /\ ran' = IF phase' = "faulted" THEN ran ELSE b
  BY DEF Tick
<1>3. PICK cpu : cpu = m_vecThreads[b].m_cpu
  OBVIOUS
<1>4. /\ cpu \in Cpus /\ cpu.ip \in Int /\ b \in DOMAIN SeenAll(m_vecThreads)
      /\ SeenAll(m_vecThreads)[b].ip = Sort(cpu.ip)
  <2>1. m_vecThreads[b] \in Trackers
    BY <1>1
  <2> QED
    BY <1>1, <1>3, <2>1, SeenShape DEF Trackers, Cpus, Seen
<1>5. ASSUME phase' = phase,
             Scheduler!ExecutePlain(b) \/ Scheduler!ExecuteCrth(b) \/ Scheduler!ExecuteReturned(b)
      PROVE  Scheduler!Tick
  <2>1. Scheduler!GetActive /\ Scheduler!IsBest(b)
    BY <1>1, <1>2, SeenActive, SeenBest
  <2>2. ran' = b /\ phase # "faulted"
    BY <1>1, <1>2, <1>5
  <2> QED
    BY <1>1, <1>4, <1>5, <2>1, <2>2 DEF Scheduler!Tick
<1>6. ASSUME Sort(cpu.ip) = 0, NEW new \in Cpus,
             m_vecThreads' = Settled(b, new, m_vecThreads[b].ulPriority), capacity' = capacity
      PROVE  Scheduler!ExecutePlain(b)
  <2>1. SeenAll(m_vecThreads') = Scheduler!Settled(b, Sort(new.ip))
    BY <1>1, <1>6, SeenSettled
  <2>2. Sort(new.ip) \in AnyIp
    BY SortFacts
  <2> QED
    BY <1>4, <1>6, <2>1, <2>2 DEF Scheduler!ExecutePlain
<1>7. CASE cpu.ip = -1 /\ ExecuteReturned(b)
  <2>1. m_vecThreads' = Settled(b, cpu, 0) /\ capacity' = capacity /\ phase' = phase
    BY <1>3, <1>7 DEF ExecuteReturned
  <2>2. Sort(cpu.ip) = -1
    BY <1>7, SortFacts
  <2>3. SeenAll(m_vecThreads') =
           [Scheduler!Settled(b, -1) EXCEPT ![b] = [@ EXCEPT !.ulPriority = 0]]
    BY <1>1, <1>4, <2>1, <2>2, SeenSettled
  <2>4. Scheduler!ExecuteReturned(b)
    BY <1>4, <2>1, <2>2, <2>3 DEF Scheduler!ExecuteReturned, Scheduler!Returned
  <2> QED
    BY <1>5, <2>1, <2>4
<1>8. CASE cpu.ip \notin DOMAIN Code \cup {-1} /\ ExecuteUnknown(b)
  <2>1. m_vecThreads' = Settled(b, cpu, m_vecThreads[b].ulPriority) /\ capacity' = capacity /\ phase' = phase
    BY <1>3, <1>8 DEF ExecuteUnknown
  <2>2. Sort(cpu.ip) = 0
    BY <1>4, <1>8, SortFacts
  <2> QED
    BY <1>4, <1>5, <1>6, <2>1, <2>2
<1>9. ASSUME cpu.ip \in DOMAIN Code, NEW out \in Outcomes(View(cpu, ram), Code[cpu.ip]),
             \/ ExecutePlain(b, out, Code[cpu.ip])
             \/ ExecuteCrth(b, out, Code[cpu.ip])
             \/ ExecuteFault(out)
      PROVE  Scheduler!Tick \/ UNCHANGED Scheduler!vars
  <2>1. PICK in, after : in = Code[cpu.ip] /\ after = AfterHandler(out, in)
    OBVIOUS
  <2>2. in \in Instruction
    BY <1>9, <2>1, CodeAssumption
  <2>3. /\ IsResult(out)
        /\ in.op # "crth" => out.spawn = {}
        /\ in.op = "crth" => out.fault \/ out.spawn # {}
    <3>1. View(cpu, ram) \in Machines
      BY <1>1, <1>4, ViewTypes
    <3> QED
      BY <1>9, <2>1, <2>2, <3>1, OutcomesTyped
  <2>4. CpuOf(after) \in Cpus
    BY <2>1, <2>2, <2>3, AfterHandlerTyped, ViewTypes
  <2>5. CASE ExecutePlain(b, out, in)
    <3>1. /\ m_vecThreads' = Settled(b, CpuOf(after), m_vecThreads[b].ulPriority)
          /\ capacity' = capacity /\ phase' = phase /\ ~out.fault /\ out.spawn = {}
      BY <2>1, <2>5 DEF ExecutePlain
    <3>2. Sort(cpu.ip) = 0
      BY <1>9, <2>1, <2>3, <3>1, SortFacts
    <3> QED
      BY <1>5, <1>6, <2>4, <3>1, <3>2
  <2>6. CASE ExecuteCrth(b, out, in)
    <3>1. /\ Len(m_vecThreads) < MaxThreads /\ phase' = phase /\ capacity' = CapacityAfterPush
      BY <2>6 DEF ExecuteCrth
    <3>2. PICK ip \in out.spawn :
             \E m0 \in InitThread(Len(m_vecThreads) + 1, ip, out.m.ram) :
                m_vecThreads' = Append(IF Reallocates THEN Raised
                                       ELSE Settled(b, CpuOf(after), m_vecThreads[b].ulPriority),
                                       Tracker(m0, 1))
      BY <2>1, <2>6 DEF ExecuteCrth
    <3>3. PICK m0 \in InitThread(Len(m_vecThreads) + 1, ip, out.m.ram) :
             m_vecThreads' = Append(IF Reallocates THEN Raised
                                    ELSE Settled(b, CpuOf(after), m_vecThreads[b].ulPriority),
                                    Tracker(m0, 1))
      BY <3>2
    <3>4. Sort(cpu.ip) = 1
      <4>1. in.op = "crth"
        BY <2>3, <3>2
      <4> QED
        BY <1>9, <2>1, <4>1, SortFacts
    <3>5. m0 \in Machines
      <4>1. ip \in Int /\ out.m.ram \in Rams /\ Len(m_vecThreads) + 1 \in Nat
        BY <1>1, <2>3, MachineFields DEF IsResult
      <4> QED
        BY <3>3, <4>1, InitThreadTyped
    <3>6. Tracker(m0, 1) \in Trackers /\ Seen(Tracker(m0, 1)) = Scheduler!InitThread(Sort(m0.ip), 1)
      BY <3>5, ViewTypes DEF Tracker, Seen, Scheduler!InitThread
    <3>7. PICK s : s = IF Reallocates THEN Raised
                       ELSE Settled(b, CpuOf(after), m_vecThreads[b].ulPriority)
      OBVIOUS
    <3>8. s \in Seq(Trackers)
          /\ SeenAll(s) = IF Reallocates THEN Scheduler!Raised
                          ELSE Scheduler!Settled(b, Sort(CpuOf(after).ip))
      <4>1. CASE Reallocates
        BY <1>1, <3>7, <4>1, RaisedTyped, SeenRaised
      <4>2. CASE ~Reallocates
        <5>1. m_vecThreads[b].ulPriority \in {0, 1, 2}
          <6>1. m_vecThreads[b] \in Trackers
            BY <1>1
          <6> QED
            BY <6>1 DEF Trackers
        <5> QED
          BY <1>1, <2>4, <3>7, <4>2, <5>1, SettledTyped, SeenSettled
      <4> QED
        BY <4>1, <4>2
    <3>9. SeenAll(m_vecThreads') = Append(SeenAll(s), Scheduler!InitThread(Sort(m0.ip), 1))
      BY <3>3, <3>6, <3>7, <3>8, SeenAppend
    <3>10. /\ Scheduler!Reallocates <=> Reallocates
           /\ Scheduler!CapacityAfterPush = CapacityAfterPush
           /\ Len(SeenAll(m_vecThreads)) < MaxThreads
      BY <1>1, <3>1, SeenShape
      DEF Scheduler!Reallocates, Reallocates, Scheduler!CapacityAfterPush, CapacityAfterPush,
          Scheduler!Grown, Grown
    <3>11. Sort(m0.ip) \in AnyIp /\ Sort(CpuOf(after).ip) \in AnyIp
      BY SortFacts
    <3>12. Scheduler!ExecuteCrth(b)
      BY <1>4, <3>1, <3>4, <3>8, <3>9, <3>10, <3>11 DEF Scheduler!ExecuteCrth
    <3> QED
      BY <1>5, <3>1, <3>12
  <2>7. CASE ExecuteFault(out)
    BY <1>1, <1>2, <2>7 DEF ExecuteFault, Scheduler!vars
  <2> QED
    BY <1>9, <2>1, <2>5, <2>6, <2>7
<1> QED
  BY <1>2, <1>3, <1>7, <1>8, <1>9 DEF ExecuteInstruction

LEMMA MachineStep ==
    ASSUME MachineTypeOK, [Next]_vars
    PROVE  [Scheduler!Next]_(Scheduler!vars)
<1>1. m_vecThreads \in Seq(Trackers)
  BY DEF MachineTypeOK
<1>2. CASE Start
  <2>1. PICK m0 \in Machines : m0.ip = Entry /\ m_vecThreads' = <<Tracker(m0, 2)>>
    BY <1>2, StartTyped
  <2>2. Seen(Tracker(m0, 2)) = Scheduler!InitThread(Sort(Entry), 2)
    BY <2>1, ViewTypes DEF Tracker, Seen, Scheduler!InitThread
  <2>3. SeenAll(m_vecThreads') = <<Scheduler!InitThread(Sort(Entry), 2)>>
    BY <2>1, <2>2 DEF SeenAll
  <2>4. Scheduler!CapacityAfterPush = CapacityAfterPush
    BY <1>1, SeenShape
    DEF Scheduler!Reallocates, Reallocates, Scheduler!CapacityAfterPush, CapacityAfterPush,
        Scheduler!Grown, Grown
  <2>5. Scheduler!Start
    BY <1>2, <2>3, <2>4 DEF Start, Begin, Scheduler!Start
  <2> QED
    BY <2>5 DEF Scheduler!Next
<1>3. CASE Tick
  BY <1>3, TickIsSchedulerTick DEF Scheduler!Next
<1>4. CASE JumpOut
  <2>1. ~Scheduler!GetActive
    BY <1>1, <1>4, SeenActive DEF JumpOut
  <2> QED
    BY <1>4, <2>1 DEF JumpOut, Scheduler!JumpOut, Scheduler!Next
<1>5. CASE Stopped \/ UNCHANGED vars
  BY <1>5 DEF Stopped, vars, Scheduler!vars
<1> QED
  BY <1>2, <1>3, <1>4, <1>5 DEF Next

\* The machine runs its threads as VxThreads says, whatever the program and the
\* instructions it lands on: also through faults, through bytes that are no
\* instruction and through jumps out of the program's flow.
THEOREM MachineIsScheduler == Spec => Scheduler!Safety
<1>1. Init => Scheduler!Init
  BY DEF Init, Scheduler!Init, SeenAll
<1> QED
  BY <1>1, MachineStep, MachineTyped, PTL DEF Spec, Scheduler!Safety

\* A step of the machine moves one thread that has not ended, or adds one.
THEOREM MachineKeepsPool == Spec => Scheduler!ImplementsPool
<1>1. Scheduler!Safety => Scheduler!ImplementsPool
  BY Scheduler!IsPool, Assumed
<1> QED
  BY <1>1, MachineIsScheduler, PTL

\* No program makes Tick dispatch a retired thread or change one.
THEOREM MachineRetiresForGood == Spec => Scheduler!RetiredNeverRuns
<1>1. Scheduler!Safety => Scheduler!RetiredNeverRuns
  BY Scheduler!NeverRun, Assumed
<1> QED
  BY <1>1, MachineIsScheduler, PTL

\* No program makes a thread wait longer: the levels stay within twice the
\* number of threads.
THEOREM MachineWaitBounded ==
    Spec => [](\A i \in DOMAIN m_vecThreads :
                  m_vecThreads[i].ulCurrentLevel <= 2 * Len(m_vecThreads))
<1>1. Scheduler!Safety => []Scheduler!WaitIsBounded
  BY Scheduler!Waits, Assumed
<1>2. MachineTypeOK /\ Scheduler!WaitIsBounded =>
         \A i \in DOMAIN m_vecThreads : m_vecThreads[i].ulCurrentLevel <= 2 * Len(m_vecThreads)
  <2>1. \A thread : Seen(thread).ulCurrentLevel = thread.ulCurrentLevel
    BY DEF Seen
  <2> QED
    BY <2>1, SeenShape DEF MachineTypeOK, Scheduler!WaitIsBounded
<1> QED
  BY <1>1, <1>2, MachineIsScheduler, MachineTyped, PTL

\* A thread that is retired has no level and has returned.
THEOREM MachineRetiredIdle ==
    Spec => [](\A i \in DOMAIN m_vecThreads :
                  m_vecThreads[i].ulPriority = 0 =>
                     m_vecThreads[i].ulCurrentLevel = 0 /\ m_vecThreads[i].m_cpu.ip = -1)
<1>1. Scheduler!Safety => []Scheduler!RetiredIsIdle
  BY Scheduler!Idle, Assumed
<1>2. MachineTypeOK /\ Scheduler!RetiredIsIdle =>
         \A i \in DOMAIN m_vecThreads :
            m_vecThreads[i].ulPriority = 0 =>
               m_vecThreads[i].ulCurrentLevel = 0 /\ m_vecThreads[i].m_cpu.ip = -1
  <2> SUFFICES ASSUME MachineTypeOK, Scheduler!RetiredIsIdle,
                      NEW i \in DOMAIN m_vecThreads, m_vecThreads[i].ulPriority = 0
               PROVE  m_vecThreads[i].ulCurrentLevel = 0 /\ m_vecThreads[i].m_cpu.ip = -1
    OBVIOUS
  <2>1. m_vecThreads \in Seq(Trackers) /\ m_vecThreads[i] \in Trackers
    BY DEF MachineTypeOK
  <2>2. SeenAll(m_vecThreads)[i] = Seen(m_vecThreads[i]) /\ i \in DOMAIN SeenAll(m_vecThreads)
    BY <2>1, SeenShape
  <2>3. Seen(m_vecThreads[i]).ulCurrentLevel = 0 /\ Seen(m_vecThreads[i]).ip = -1
    <3>1. Seen(m_vecThreads[i]).ulPriority = 0
      BY DEF Seen
    <3> QED
      BY <2>2, <3>1 DEF Scheduler!RetiredIsIdle, Scheduler!Returned
  <2>4. m_vecThreads[i].ulCurrentLevel = 0 /\ Sort(m_vecThreads[i].m_cpu.ip) = -1
    BY <2>3 DEF Seen
  <2> QED
    BY <2>4 DEF Sort
<1> QED
  BY <1>1, <1>2, MachineIsScheduler, MachineTyped, PTL
----------------------------------------------------------------------------
(* Division *)

LEMMA Euclid ==
    ASSUME NEW x \in Nat, NEW y \in Nat, y > 0
    PROVE  /\ x \div y \in Nat /\ x \div y <= x /\ (y > 1 => 2 * (x \div y) <= x)
           /\ x - (x \div y) * y \in 0..(y - 1)
<1>1. PICK q, r : q = x \div y /\ r = x % y
  OBVIOUS
<1>2. q \in Nat /\ r \in 0..(y - 1) /\ x = y * q + r
  BY <1>1
<1>3. q * y = y * q /\ y * q \in Nat
  BY <1>2
<1>4. y * q >= q /\ (y > 1 => y * q >= 2 * q)
  BY <1>2
<1> QED
  BY <1>1, <1>2, <1>3, <1>4

\* div: wherever it does not trap, the quotient is a word as it is, and what it
\* leaves of the dividend is smaller than the divisor and has the dividend's
\* sign.
THEOREM DivisionTruncates ==
    \A a, b \in Ints :
        b # 0 /\ ~(a = MinInt /\ b = -1) =>
            LET q == Wrap(Quotient(a, b))
                rest == a - q * b
            IN  /\ q = Quotient(a, b)
                /\ IF b > 0 THEN rest < b /\ -b < rest ELSE rest < -b /\ b < rest
                /\ IF a < 0 THEN rest <= 0 ELSE rest >= 0
<1> SUFFICES ASSUME NEW a \in Ints, NEW b \in Ints, b # 0, ~(a = MinInt /\ b = -1)
             PROVE  LET q == Wrap(Quotient(a, b))
                        rest == a - q * b
                    IN  /\ q = Quotient(a, b)
                        /\ IF b > 0 THEN rest < b /\ -b < rest ELSE rest < -b /\ b < rest
                        /\ IF a < 0 THEN rest <= 0 ELSE rest >= 0
  OBVIOUS
<1>1. PICK h : h = 2^(IntBits - 1)
  OBVIOUS
<1>2. h \in Nat /\ Ints = (0 - h)..(h - 1) /\ MinInt = 0 - h
  BY <1>1, Powers DEF Ints, MinInt
<1>3. PICK x, y : x = (IF a < 0 THEN -a ELSE a) /\ y = (IF b < 0 THEN -b ELSE b)
  OBVIOUS
<1>4. a \in Int /\ b \in Int /\ x \in Nat /\ y \in Nat /\ y > 0 /\ x <= h
  BY <1>2, <1>3
<1>5. PICK d, r : d = x \div y /\ r = x - d * y
  OBVIOUS
<1>6. d \in Nat /\ d <= x /\ (y > 1 => 2 * d <= x) /\ r \in 0..(y - 1)
  BY <1>4, <1>5, Euclid
<1>7. Quotient(a, b) = IF (a < 0) = (b < 0) THEN d ELSE 0 - d
  BY <1>3, <1>4, <1>5, <1>6 DEF Quotient
<1>8. PICK q : q = Quotient(a, b)
  OBVIOUS
<1>9. q \in Ints
  <2>1. CASE y > 1
    BY <1>2, <1>4, <1>6, <1>7, <1>8, <2>1
  <2>2. CASE y = 1
    BY <1>2, <1>3, <1>4, <1>6, <1>7, <1>8, <2>2
  <2> QED
    BY <1>4, <2>1, <2>2
<1>10. Wrap(q) = q
  BY <1>9, WrapsWord
<1>11. q * b = IF a < 0 THEN 0 - d * y ELSE d * y
  <2>1. \A j, k \in Int : (0 - j) * k = 0 - j * k /\ j * (0 - k) = 0 - j * k /\ (0 - j) * (0 - k) = j * k
    OBVIOUS
  <2> QED
    BY <1>3, <1>4, <1>6, <1>7, <1>8, <2>1
<1>12. a - q * b = IF a < 0 THEN 0 - r ELSE r
  BY <1>3, <1>4, <1>5, <1>6, <1>11
<1> QED
  BY <1>3, <1>4, <1>6, <1>8, <1>10, <1>12
=============================================================================
