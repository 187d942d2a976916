---------------------------- MODULE CoSimProofs ----------------------------
(***************************************************************************)
(* The core that executes a program implements the in-order machine        *)
(* (ImplementsInOrder), the co-simulation never reports an error           *)
(* (NoCosimError), and the testbench's copies follow the core              *)
(* (ShadowFollowsCore): for every program, every size of the core and      *)
(* every number of values, and for every prediction.                       *)
(*                                                                         *)
(* The uops in flight are numbered as in RenameMapProofs.  Live of them    *)
(* are left by the redirect on its way, and where fetch goes on after      *)
(* these is Front.  The invariant says of the uop at place q:              *)
(*   - it is what decode makes of the instruction at its place (UopsInv),  *)
(*     and it completes as that instruction can (FlagsInv);                *)
(*   - its operand is the tag the map gives at its place (OperandInv);     *)
(*   - the next live one comes from where it was predicted, or from where  *)
(*     its operand sends it; once it has executed it is the latter, so     *)
(*     the live uops are a path through the program (PathInv);             *)
(*   - its result is that of the instruction applied to its operand's      *)
(*     value (ValueInv).  Written registers keep their value as long as    *)
(*     somebody holds them, which is where TagPartition comes in.          *)
(* What commits in a cycle is therefore a piece of the path that starts at *)
(* the pc of the reference and computes on its registers (CommitInv), and  *)
(* stepping the reference along it gives the committed map's registers     *)
(* again (ArchInv).  The proof goes step by step through the commits of a  *)
(* cycle (RefAt, Logged), because each of them reads what those below it   *)
(* have left.                                                              *)
(***************************************************************************)
EXTENDS CoSim, RenameMapProofs

-----------------------------------------------------------------------------
(* The invariant. *)

\* The instruction of the uop at place q, the unit it goes to, and whether it is still
\* marked as a branch that may have been mispredicted.
Fetch(q)     == IF q < Pos(lastIndex) THEN slot[Slot(q)] ELSE rnInstr[RnPort(q)]
FuAt(q)      == IF q < Pos(lastIndex) THEN backend[Slot(q)].fu ELSE rnUOp[RnPort(q)].fu
MispredAt(q) == IF q < Pos(lastIndex) THEN backend[Slot(q)].mispred ELSE rnUOp[RnPort(q)].mispred

\* The uops that no trap and no redirect squashes, and where fetch goes on after them.
Live == IF trapUOp.valid THEN 0 ELSE IF branch.taken THEN Pos(branch.sqN) + 1 ELSE InFlight
Front == IF branch.taken THEN dstPC ELSE IF de[0].valid THEN de[0].pc ELSE fetchPC
NextAddr(q) == IF q + 1 < Live THEN Fetch(q + 1).pc ELSE Front

\* An instruction as fetch delivers it.
WellFetched(d) ==
  /\ d \in Fetched /\ d.valid /\ d.pc \in PCs(prog) /\ d.predPC \in PCs(prog)
  /\ ~d.irq /\ ~IsBranch(d) => d.predPC = Seq1(prog, d.pc)

\* Port i of x is not valid alone, and goes on where the port below is predicted to.
Follows(x, i) ==
  x[i].valid => \A j \in Port : j < i => x[j].valid /\ (j + 1 = i => x[i].pc = x[j].predPC)

\* What is decoded is a piece of the predicted path that ends where fetch goes on.
FrontInv ==
  /\ \A i \in Port : de[i].valid => WellFetched(de[i]) /\ Follows(de, i)
  /\ \A i \in Port : de[i].valid /\ (i + 1 < Width => ~de[i + 1].valid) => fetchPC = de[i].predPC

\* The uop of every instruction is the one decode makes of it.
UopOf(q) ==
  LET u == DecodedUOp(Fetch(q))
  IN  /\ WellFetched(Fetch(q))
      /\ Uops[q].rd = u.rd
      /\ FuAt(q) = u.fu \/ (u.fu = "SC" /\ FuAt(q) = "RN")
      /\ Uops[q].tag \in RFTag <=> u.rd # 0 /\ u.fu \in {"INT", "LOAD"}
      /\ Uops[q].tag \notin RFTag => Uops[q].tag = (IF FuAt(q) = "RN" THEN TAG_ONE ELSE TAG_ZERO)
      /\ MispredAt(q) => IsBranch(Fetch(q))
      /\ q < Pos(lastIndex) \/ u.mispred = MispredAt(q)
UopsInv == \A q \in 0 .. InFlight - 1 : UopOf(q)

\* How an instruction completes.
CompletesWith(d) ==
  IF d.irq THEN {"TRAP"}
  ELSE CASE InstrOf(d).op = "ECALL" -> {"TRAP"}
         [] InstrOf(d).op = "ILL"   -> {"ILLEGAL"}
         [] InstrOf(d).op = "CSRW"  -> {"ORDERING"}
         [] IsBranch(d)             -> {"NONE", "PRED"}
         [] OTHER                   -> {"NONE"}

FlagsInv ==
  \A q \in 0 .. Pos(lastIndex) - 1 :
    /\ flags[Slot(q)] \in CompletesWith(Fetch(q)) \/
         (flags[Slot(q)] = "NX" /\ FuAt(q) \notin {"RN", "TRAP"})
    /\ flags[Slot(q)] = "NX" /\ IsBranch(Fetch(q)) => MispredAt(q)
    /\ ~backend[Slot(q)].early

RaisedInTime == \A s \in intRes : Waiting(s) /\ Unit(s).avail /\ IsBranch(SlotOf(s))

\* Every operand is what the map says at the place of its uop.
OperandInv ==
  ~trapUOp.valid /\ ~branch.flush =>
    \A q \in 0 .. InFlight - 1 :
      LET r == DecodedUOp(Fetch(q)).rs
      IN  IF r = 0 THEN Uops[q].src = TAG_ZERO ELSE MapsTo(Uops, q, r, Base[r], Uops[q].src)

Value(q) == ReadTag(rf, Uops[q].src)

\* What follows a uop that has not been squashed is what was predicted, or what its
\* operand asks for; it is the latter once it has executed.
Path(q) ==
  LET d == Fetch(q)
  IN  IF IsBranch(d)
      THEN \/ /\ NextAddr(q) = d.predPC
              /\ ~Produced(q) /\ (q < Pos(lastIndex) => Plus(baseIndex, q) \notin intRes)
           \/ Avail(q) /\ NextAddr(q) = NextPC(prog, d.pc, Value(q))
      ELSE NextAddr(q) = d.predPC
PathInv == \A q \in 0 .. Live - 1 : Path(q)

\* The results of what has executed and has not been squashed.
Result(d, v) == ResultOf(InstrOf(d), d.pc, v, TRUE)
ValueInv ==
  \A q \in 0 .. Live - 1 :
    /\ q < Pos(lastIndex) /\ flags[Slot(q)] \in Flags \ (Exception \cup {"NX"})
    /\ Uops[q].tag \in RFTag
    => /\ Avail(q) /\ phyRF[Uops[q].tag] = rf[Uops[q].tag]
       /\ OpOf(Plus(baseIndex, q)) # "RDCSR" => rf[Uops[q].tag] = Result(Fetch(q), Value(q))

\* The testbench's copies of the instructions.
Copies(x, d) == x.valid /\ x.pc = d.pc /\ x.flags = "NONE"
ShadowInv ==
  /\ \A i \in Port : de[i].valid => Copies(tbPd[i], de[i])
  /\ \A i \in Port : rnUOp[i].valid /\ ~branch.taken =>
       Copies(tbDe[i], rnInstr[i]) /\ tbDe[i].rd = rnUOp[i].rd
  /\ \A q \in 0 .. Pos(lastIndex) - 1 :
       LET inst == insts[Plus(baseIndex, q)]
       IN  /\ inst.valid /\ inst.pc = Fetch(q).pc
           /\ inst.tag = Uops[q].tag /\ inst.rd = Uops[q].rd
           /\ q < Live => inst.flags = (IF flags[Slot(q)] \in {"NX", "TRAP"} THEN "NONE"
                                        ELSE flags[Slot(q)])

\* The uops that are being committed.  The tag of a register after the first k of them.
ComCount == Cardinality(Committing)
ComTag(k, r) == IF r = 0 THEN TAG_ZERO ELSE CHOOSE t \in Tag : MapsTo(comUOp, k, r, comTag[r], t)
ComFetch(k) == SlotOf(ComSqN(k))
ComValue(k) == ReadTag(rf, ComTag(k, DecodedUOp(ComFetch(k)).rs))
ComNext(k) == NextPC(prog, ComFetch(k).pc, ComValue(k))
Traps(k) == trapUOp.valid /\ k = ComCount - 1

ComUop(k) ==
  LET d    == ComFetch(k)
      inst == insts[ComSqN(k)]
      op   == InstrOf(d).op
  IN  /\ WellFetched(d)
      /\ d.pc = IF k = 0 THEN arch.pc ELSE ComNext(k - 1)
      /\ Traps(k) <=> (d.irq \/ op \in {"ILL", "ECALL", "CSRW"})
      /\ Traps(k) => trapUOp.flags \in CompletesWith(d) /\ trapUOp.sqN = ComSqN(k)
      /\ inst.pc = d.pc
      /\ d.irq \/ op \in {"ILL", "ECALL"} => comUOp[k].rd = 0
      /\ ~d.irq => (WritesGPR(inst) <=> comUOp[k].rd # 0)
      /\ ~d.irq /\ ~IsTrap(InstrOf(d)) =>
           comUOp[k].rd = InstrOf(d).rd /\ inst.rd = comUOp[k].rd /\ inst.tag = comUOp[k].tag
      /\ comUOp[k].rd # 0 =>
           LET v == ReadTag(rf, comUOp[k].tag)
           IN  /\ comUOp[k].tag \in RFTag => phyRF[comUOp[k].tag] = rf[comUOp[k].tag]
               /\ op \notin {"RDCSR", "SC"} => v = Result(d, ComValue(k))
               /\ op = "SC" => v \in {0, 1}

CommitInv ==
  /\ \A i \in Port : i \in Committing <=> i < ComCount
  /\ trapUOp.valid => ComCount > 0
  /\ \A k \in 0 .. ComCount - 1 : ComUop(k)
  /\ ~trapUOp.valid => NextAddr(-1) = IF ComCount = 0 THEN arch.pc ELSE ComNext(ComCount - 1)

\* The reference, and the reference as the last commit has left it.
ArchInv ==
  /\ arch.reg = [r \in Reg |-> ReadTag(rf, comTag[r])] /\ arch.minstret = minstret
  /\ IF doRestore THEN prog \in Backups /\ spike = FreshSpike(NoRegs) ELSE spike = arch
  /\ prog \in Backups => arch.res = FALSE
  /\ At(prog, arch.pc).op = "SC" => arch.res = TRUE

CoInv ==
  /\ MapInv /\ CoTypeOK
  /\ FrontInv /\ UopsInv /\ FlagsInv /\ RaisedInTime /\ OperandInv
  /\ PathInv /\ ValueInv /\ ShadowInv /\ CommitInv /\ ArchInv /\ err = 0

-----------------------------------------------------------------------------
(* Programs and machines. *)

\* Both modules count the same registers.
LEMMA RegsAgree == XReg = Reg /\ 0 \in Reg /\ NumVals \in Nat /\ NumVals > 1 /\ 0 \in Val /\ 1 \in Val
<1>1. XReg = Reg  BY CoSimAssumption DEF XReg, Reg
<1>2. NumVals \in Nat /\ NumVals > 1  BY ISAAssumption, SMT
<1>3. 0 \in Val /\ 1 \in Val  BY <1>2, SMT DEF Val
<1>4. QED  BY <1>1, <1>2, <1>3, TagType

\* What is at an address of a program, and where execution goes on from there.
LEMMA InstrType ==
  ASSUME NEW p \in Programs, NEW a \in PCs(p)
  PROVE  /\ Len(p) \in Nat /\ Len(p) > 0
         /\ At(p, a) \in Instr /\ At(p, a).target \in PCs(p)
         /\ At(p, a).op = "ECALL" => At(p, a).rd = 0
         /\ Seq1(p, a) \in PCs(p) /\ Handler \in PCs(p)
         /\ \A v \in Val : NextPC(p, a, v) \in PCs(p)
<1>1. /\ p \in Seq(Instr) /\ Len(p) > 0
      /\ \A k \in 1 .. Len(p) : p[k].target < Len(p) /\ (p[k].op = "ECALL" => p[k].rd = 0)
  BY ISAAssumption
<1>2. Len(p) \in Nat /\ a \in Nat /\ a + 1 \in 1 .. Len(p)  BY <1>1, SMT DEF PCs
<1>3. At(p, a) \in Instr /\ At(p, a).target < Len(p) /\ (At(p, a).op = "ECALL" => At(p, a).rd = 0)
  BY <1>1, <1>2 DEF At
<1>4. At(p, a).target \in Nat  BY <1>3 DEF Instr
<1>5. At(p, a).target \in PCs(p) /\ Handler \in PCs(p)
  BY <1>1, <1>2, <1>3, <1>4, SMT DEF PCs, Handler
<1>6. \A x \in Nat : x % Len(p) \in PCs(p)  BY <1>1, <1>2, SMT DEF PCs
<1>7. Seq1(p, a) \in PCs(p)  BY <1>2, <1>6, SMT DEF Seq1
<1>8. ASSUME NEW v \in Val  PROVE NextPC(p, a, v) \in PCs(p)
  <2>1. v \in Nat  BY RegsAgree, SMT DEF Val
  <2> QED  BY <2>1, <1>5, <1>6, <1>7 DEF NextPC
<1>9. QED  BY <1>1, <1>2, <1>3, <1>5, <1>7, <1>8

\* The states of a machine that executes p.
Machines(p) == [pc : PCs(p), reg : [Reg -> Val], minstret : 0 .. MinstretMod - 1, res : BOOLEAN]

\* Results are values.
LEMMA ResultType ==
  ASSUME NEW i, NEW a \in Nat, NEW v \in Val, NEW b
  PROVE  ResultOf(i, a, v, b) \in Val
<1>1. \A x \in Nat : x % NumVals \in Val  BY RegsAgree, SMT DEF Val
<1>2. v + 1 \in Nat /\ a + 1 \in Nat  BY RegsAgree, SMT DEF Val
<1>3. QED  BY <1>1, <1>2, RegsAgree DEF ResultOf

\* The remainder is what is left of a when multiples of m are taken away.
LEMMA Remainder ==
  ASSUME NEW m \in Nat, m > 0, NEW a \in Nat
  PROVE  /\ a % m \in 0 .. m - 1 /\ \E q \in Nat : a = m * q + (a % m)
         /\ \A q \in Nat, r \in 0 .. m - 1 : a = m * q + r => a % m = r
<1>1. a % m \in 0 .. m - 1  BY SMT
<1>2. a = m * (a \div m) + (a % m) /\ a \div m \in Nat  BY SMT
<1>3. ASSUME NEW q \in Nat, NEW r \in 0 .. m - 1, a = m * q + r
      PROVE  a % m = r
  <2>1. (m * q + r) % m = r  BY SMT
  <2> QED  BY <2>1, <1>3
<1>4. QED  BY <1>1, <1>2, <1>3

\* The counter wraps around.
LEMMA CountWraps ==
  ASSUME NEW a \in Nat, NEW b \in Nat
  PROVE  /\ a % MinstretMod \in 0 .. MinstretMod - 1
         /\ ((a % MinstretMod) + b) % MinstretMod = (a + b) % MinstretMod
         /\ a \in 0 .. MinstretMod - 1 => a % MinstretMod = a
<1> DEFINE m == MinstretMod
<1>1. m \in Nat /\ m > 0  BY ISAAssumption, SMT
<1> HIDE DEF m
<1>2. a % m \in 0 .. m - 1  BY <1>1, Remainder
<1>3. PICK q \in Nat : a = m * q + (a % m)  BY <1>1, Remainder
<1>4. (a % m) + b \in Nat /\ a + b \in Nat  BY <1>2, SMT
<1>5. ((a % m) + b) % m \in 0 .. m - 1  BY <1>1, <1>4, Remainder
<1>6. PICK x \in Nat : (a % m) + b = m * x + (((a % m) + b) % m)  BY <1>1, <1>4, Remainder
<1>7. q + x \in Nat /\ a + b = m * (q + x) + (((a % m) + b) % m)
  BY <1>1, <1>2, <1>3, <1>5, <1>6, SMT
<1>8. (a + b) % m = ((a % m) + b) % m
  <2>1. \A c, d \in Nat, e \in 0 .. m - 1 : c = m * d + e => c % m = e  BY <1>1, Remainder
  <2>2. PICK e \in 0 .. m - 1 : e = ((a % m) + b) % m  BY <1>5
  <2>3. a + b = m * (q + x) + e  BY <1>7, <2>2
  <2> QED  BY <1>4, <1>7, <2>1, <2>2, <2>3
<1>9. a \in 0 .. m - 1 => a % m = a
  <2>1. a = m * 0 + a /\ 0 \in Nat  BY <1>1, SMT
  <2> QED  BY <2>1, <1>1, Remainder
<1>10. QED  BY <1>2, <1>8, <1>9 DEF m

\* A machine stays one.
LEMMA SteppedType ==
  ASSUME NEW p \in Programs, NEW m \in Machines(p)
  PROVE  /\ Stepped(p, m) \in Machines(p) /\ Interrupted(m) \in Machines(p)
         /\ \A r \in Reg, v \in Val : SetReg(m.reg, r, v) \in [Reg -> Val]
<1>1. m.pc \in PCs(p) /\ m.reg \in [Reg -> Val] /\ m.minstret \in Nat /\ m.res \in BOOLEAN
  BY DEF Machines
<1>2. At(p, m.pc) \in Instr /\ Handler \in PCs(p)  BY <1>1, InstrType
<1>3. At(p, m.pc).rs \in Reg /\ At(p, m.pc).rd \in Reg  BY <1>2, RegsAgree DEF Instr
<1>4. m.reg[At(p, m.pc).rs] \in Val  BY <1>1, <1>3
<1>5. \A r \in Reg, v \in Val : SetReg(m.reg, r, v) \in [Reg -> Val]  BY <1>1 DEF SetReg
<1>6. NextPC(p, m.pc, m.reg[At(p, m.pc).rs]) \in PCs(p)  BY <1>1, <1>4, InstrType
<1>7. ResultOf(At(p, m.pc), m.pc, m.reg[At(p, m.pc).rs], m.res) \in Val
  BY <1>1, <1>4, ResultType DEF PCs
<1>8. Retired(At(p, m.pc)) \in Nat /\ m.minstret + Retired(At(p, m.pc)) \in Nat
  BY <1>1, SMT DEF Retired
<1>9. Stepped(p, m) \in Machines(p)
  BY <1>1, <1>3, <1>5, <1>6, <1>7, <1>8, CountWraps DEF Stepped, Machines
<1>10. Interrupted(m) \in Machines(p)  BY <1>2 DEF Interrupted, Machines
<1>11. QED  BY <1>5, <1>9, <1>10

-----------------------------------------------------------------------------
(* The core that executes a program is the core of RenameCommit. *)

\* What decode makes of a fetched instruction is a uop that rename knows.
LEMMA DecodedType ==
  ASSUME prog \in Programs, NEW d, WellFetched(d)
  PROVE  /\ DecodedUOp(d) \in DUOps /\ DecodedUOp(d) \in D_UOp /\ DecodedUOp(d) # NoDUOp
         /\ DecodedUOp(d).fu \in {"RN", "TRAP", "LOAD", "SC", "INT"}
         /\ DecodedUOp(d).rd \in Reg /\ DecodedUOp(d).rs \in Reg
         /\ DecodedUOp(d).mispred = IsBranch(d)
         /\ InstrOf(d) \in Instr
<1>1. InstrOf(d) \in Instr /\ (InstrOf(d).op = "ECALL" => InstrOf(d).rd = 0)
  BY InstrType DEF WellFetched, InstrOf
<1>2. InstrOf(d).rd \in Reg /\ InstrOf(d).rs \in Reg  BY <1>1, RegsAgree DEF Instr
<1>3. d.irq \in BOOLEAN  BY DEF WellFetched, Fetched
<1> DEFINE i == InstrOf(d)
           fu == CASE i.op = "LI" -> "RN" [] i.op = "ECALL" -> "TRAP"
                   [] i.op = "LR" -> "LOAD" [] i.op = "SC" -> "SC" [] OTHER -> "INT"
<1>4. CASE d.irq
  <2>1. DecodedUOp(d) = [fu |-> "TRAP", rd |-> 0, rs |-> 0, mispred |-> FALSE]
    BY <1>4 DEF DecodedUOp
  <2>2. IsBranch(d) = FALSE  BY <1>4 DEF IsBranch
  <2>3. DecodedUOp(d) \in D_UOp  BY <2>1, RegsAgree DEF D_UOp, FuncUnit
  <2>4. DecodedUOp(d).fu = "TRAP" /\ DecodedUOp(d).rd = 0 /\ DecodedUOp(d).mispred = FALSE
        /\ DecodedUOp(d).rs = 0
    BY <2>1
  <2>5. DecodedUOp(d) # NoDUOp  BY <2>4 DEF NoDUOp
  <2> QED  BY <1>1, <2>2, <2>3, <2>4, <2>5, CoSimAssumption, RegsAgree
<1>5. CASE ~d.irq
  <2>1. DecodedUOp(d) = [fu |-> fu, rd |-> i.rd, rs |-> i.rs, mispred |-> IsBranch(d)]
    BY <1>5 DEF DecodedUOp
  <2>2. IsBranch(d) \in BOOLEAN /\ (IsBranch(d) => i.op \in {"BEQZ", "JALR"})
    BY DEF IsBranch
  <2>3. fu \in {"RN", "TRAP", "LOAD", "SC", "INT"} /\ (fu = "TRAP" => i.op = "ECALL")
        /\ (i.op \in {"BEQZ", "JALR"} => fu = "INT")
    OBVIOUS
  <2> HIDE DEF fu
  <2>4. DecodedUOp(d).fu = fu /\ DecodedUOp(d).rd = i.rd /\ DecodedUOp(d).mispred = IsBranch(d)
        /\ DecodedUOp(d).rs = i.rs
    BY <2>1
  <2>5. fu \in FuncUnit  BY <2>3 DEF FuncUnit
  <2>6. DecodedUOp(d) \in D_UOp  BY <1>2, <2>1, <2>2, <2>5 DEF D_UOp
  <2>7. DecodedUOp(d) # NoDUOp  BY <2>3, <2>4 DEF NoDUOp
  <2> QED  BY <1>1, <1>2, <2>2, <2>3, <2>4, <2>6, <2>7, CoSimAssumption
<1>6. QED  BY <1>3, <1>4, <1>5

\* Decode fills the ports from 0 on.
LEMMA DecodedPorts ==
  ASSUME prog \in Programs, FrontInv
  PROVE  /\ deUOp \in DecodedUOps(DUOps)
         /\ \A i \in Port : Decoded(deUOp, i) <=> de[i].valid
         /\ \A i \in Port : de[i].valid => deUOp[i] = DecodedUOp(de[i])
<1>1. ASSUME NEW i \in Port, de[i].valid
      PROVE  /\ deUOp[i] = DecodedUOp(de[i]) /\ deUOp[i] \in DUOps /\ deUOp[i] # NoDUOp
             /\ \A j \in Port : j < i => de[j].valid
  <2>1. WellFetched(de[i]) /\ Follows(de, i)  BY <1>1 DEF FrontInv
  <2>2. deUOp[i] = DecodedUOp(de[i])  BY <1>1 DEF deUOp
  <2> QED  BY <1>1, <2>1, <2>2, DecodedType DEF Follows
<1>2. \A i \in Port : ~de[i].valid => deUOp[i] = NoDUOp  BY DEF deUOp
<1>3. deUOp \in [Port -> DUOps \cup {NoDUOp}]  BY <1>1, <1>2 DEF deUOp
<1>4. ASSUME NEW i \in Port, NEW j \in Port, i < j, deUOp[i] = NoDUOp
      PROVE  deUOp[j] = NoDUOp
  BY <1>1, <1>2, <1>4
<1>5. QED  BY <1>1, <1>2, <1>3, <1>4 DEF DecodedUOps, Decoded

\* A uop has one report per cycle.
LEMMA ExecReportsOnce ==
  ASSUME NEW s \in SqNs, NEW u \in ExecReports(s), NEW v \in ExecReports(s)
  PROVE  u = v
<1>1. CASE MayExecute(s) /\ Unit(s).mispred
  BY <1>1 DEF ExecReports
<1>2. CASE ~(MayExecute(s) /\ Unit(s).mispred)
  <2> DEFINE rep(fl, dnc) == [sqN |-> s, tagDst |-> Unit(s).tagDst, flags |-> fl,
                              doNotCommit |-> dnc]
  <2>1. u \in Reports(s) /\ v \in Reports(s) /\ u.flags = v.flags
    BY <1>2 DEF ExecReports
  <2>2. ASSUME NEW w \in Reports(s)
        PROVE  w = rep(w.flags, Unit(s).fu = "ATOMIC" /\ ~Unit(s).early /\ w.flags = "NONE")
    <3>1. CASE Unit(s).fu # "ATOMIC"
      <4>1. PICK fl \in Outcome[Unit(s).fu] : w = rep(fl, FALSE)  BY <3>1 DEF Reports
      <4> QED  BY <3>1, <4>1
    <3>2. CASE Unit(s).fu = "ATOMIC" /\ Unit(s).early
      <4>1. w = rep("NONE", FALSE)  BY <3>2 DEF Reports
      <4> QED  BY <3>2, <4>1
    <3>3. CASE Unit(s).fu = "ATOMIC" /\ ~Unit(s).early
      <4>1. PICK fl \in Outcome["ATOMIC"] : w = rep(fl, fl = "NONE")  BY <3>3 DEF Reports
      <4>2. w.flags = fl  BY <4>1
      <4> QED  BY <3>3, <4>1, <4>2
    <3> QED  BY <3>1, <3>2, <3>3
  <2> HIDE DEF rep
  <2> QED  BY <2>1, <2>2
<1>3. QED  BY <1>1, <1>2

\* The units report what the back end of RenameCommit may report.
LEMMA ExecCompletionsAreAny == ExecCompletions \subseteq AnyCompletions
<1> SUFFICES ASSUME NEW F \in ExecCompletions  PROVE F \in AnyCompletions
  OBVIOUS
<1>1. \A s \in SqNs : ExecReports(s) \subseteq Reports(s) \cup PredictedReports(s)
  BY DEF ExecReports, PredictedReports
<1>2. PICK G \in SUBSET UNION {ExecReports(s) : s \in SqNs} :
        F = {BranchReport(s) : s \in intRes} \cup G
  BY DEF ExecCompletions
<1>3. G \in SUBSET UNION {Reports(s) \cup PredictedReports(s) : s \in SqNs}  BY <1>1, <1>2
<1>4. ASSUME NEW u \in G, NEW v \in G, u.sqN = v.sqN
      PROVE  u = v
  <2>1. PICK s \in SqNs : u \in ExecReports(s)  BY <1>2
  <2>2. PICK t \in SqNs : v \in ExecReports(t)  BY <1>2
  <2>3. \A x \in SqNs : \A w \in ExecReports(x) : w.sqN = x
    BY DEF ExecReports, Reports, BranchReport
  <2>4. v \in ExecReports(s)  BY <1>4, <2>1, <2>2, <2>3
  <2> QED  BY <2>1, <2>4, ExecReportsOnce
<1>5. QED  BY <1>2, <1>3, <1>4 DEF AnyCompletions

\* One clock cycle of the core is a cycle of RenameCommit.
LEMMA ExecIsCycle ==
  ASSUME WindowInv, prog \in Programs, FrontInv,
         NEW F, NEW R, NEW pd, NEW keep, ExecCycle(F, R, pd, keep)
  PROVE  Cycle(F)
<1>1. RedirectStep(F)
  <2>1. PICK B \in {C \in SUBSET {s \in BranchCandidates : Mispredicts(s)} :
                      Cardinality(C) <= NumBranchPorts},
             M \in {{}} \cup {{s} : s \in MemCandidates(F)} :
          branch' = SelectBranch(B, M) /\ intRes' = B /\ memRes' = M
    BY DEF ExecCycle, ExecRedirect
  <2>2. B \in {C \in SUBSET BranchCandidates : Cardinality(C) <= NumBranchPorts}  BY <2>1
  <2> QED  BY <2>1, <2>2 DEF RedirectStep
<1>2. RenameOrIdle(F) => RenameStep(F)
  <2>1. RNTakes => FrontendEn /\ de[0].valid  BY DEF RNTakes, FrontReady
  <2>2. 0 \in Port  BY WidthType, SMT DEF Port
  <2>3. deUOp \in DecodedUOps(DUOps) /\ (de[0].valid => Decoded(deUOp, 0))
    BY <2>2, DecodedPorts
  <2> QED  BY <2>1, <2>3 DEF RenameOrIdle, RenameStep
<1>3. ROBReplay(branch, rnUOp, F) /\ ~branch.taken /\ RenameOrIdle(F) => ReplayCycle(F)
  <2>1. ROBReplay(branch, rnUOp, F) /\ ~branch.taken => misprReplay_r.valid
    BY DEF ROBReplay, Replaying
  <2>2. misprReplay_r.valid => mispredFlush  BY DEF WindowInv, RecoveryState
  <2>3. RNAccept(mispredFlush, deUOp, comUOp, F) => ~mispredFlush  BY DEF RNAccept
  <2> QED  BY <2>1, <2>2, <2>3 DEF RenameOrIdle, ReplayCycle
<1>4. /\ BackendStep(F)
      /\ \/ RedirectCycle(F)
         \/ /\ ~branch.taken /\ RenameOrIdle(F)
            /\ \/ ROBReplay(branch, rnUOp, F) \/ ROBStop(branch, rnUOp, F)
               \/ \E n \in 0 .. Width : ROBCommit(branch, rnUOp, F, n, FALSE)
  BY DEF ExecCycle
<1>5. QED  BY <1>1, <1>2, <1>3, <1>4 DEF Cycle, TrapCycle, CommitCycle

-----------------------------------------------------------------------------
(* Fetch delivers a piece of a predicted path. *)

\* What may be fetched from each address, given what may be fetched after it.
FetchedOn(g) ==
  [a \in PCs(prog) |->
     {<<>>} \cup UNION {{<<f>> \o rest : rest \in IF f.irq \/ f.predPC # Seq1(prog, a) THEN {<<>>}
                                                  ELSE g[f.predPC]} : f \in FetchAt(a)}]
FetchedNone == [a \in PCs(prog) |-> {<<>>}]

\* g[k] is what may be fetched in k instructions, for up to n.
FetchesUpTo(g, n) ==
  g = [k \in 0 .. n |-> [a \in PCs(prog) |->
         IF k = 0 THEN {<<>>}
         ELSE {<<>>} \cup
              UNION {{<<f>> \o rest : rest \in IF f.irq \/ f.predPC # Seq1(prog, a) THEN {<<>>}
                                               ELSE g[k - 1][f.predPC]} : f \in FetchAt(a)}]]

\* The recursion in terms of its step.
LEMMA FetchesBy ==
  ASSUME NEW n \in Nat, NEW g
  PROVE  FetchesUpTo(g, n) <=>
           g = [k \in 0 .. n |-> IF k = 0 THEN FetchedNone ELSE FetchedOn(g[k - 1])]
<1> DEFINE row(k) == [a \in PCs(prog) |->
         IF k = 0 THEN {<<>>}
         ELSE {<<>>} \cup
              UNION {{<<f>> \o rest : rest \in IF f.irq \/ f.predPC # Seq1(prog, a) THEN {<<>>}
                                               ELSE g[k - 1][f.predPC]} : f \in FetchAt(a)}]
           step(k) == IF k = 0 THEN FetchedNone ELSE FetchedOn(g[k - 1])
<1>1. ASSUME NEW k \in 0 .. n  PROVE row(k) = step(k)
  BY Zenon DEF FetchedOn, FetchedNone
<1>2. FetchesUpTo(g, n) <=> g = [k \in 0 .. n |-> row(k)]  BY Zenon DEF FetchesUpTo
<1> HIDE DEF row, step
<1>3. [k \in 0 .. n |-> row(k)] = [k \in 0 .. n |-> step(k)]  BY <1>1
<1>4. FetchesUpTo(g, n) <=> g = [k \in 0 .. n |-> step(k)]  BY <1>2, <1>3
<1>5. QED  BY <1>4 DEF step

\* There is such a function.
LEMMA FetchesExist == \A n \in Nat : \E g : FetchesUpTo(g, n)
<1> DEFINE T == {n \in Nat : ~ \E g : FetchesUpTo(g, n)}
<1> SUFFICES ASSUME T # {}  PROVE FALSE
  OBVIOUS
<1>1. PICK n \in T : \A m \in T : n <= m
  <2> HIDE DEF T
  <2>1. T \subseteq Nat  BY DEF T
  <2> QED  BY <2>1, LeastNat
<1>2. n \in Nat /\ ~ \E g : FetchesUpTo(g, n)  OBVIOUS
<1>3. CASE n = 0
  <2> DEFINE g == [k \in 0 .. 0 |-> FetchedNone]
  <2>1. g = [k \in 0 .. 0 |-> IF k = 0 THEN FetchedNone ELSE FetchedOn(g[k - 1])]  OBVIOUS
  <2> HIDE DEF g
  <2> QED  BY <1>2, <1>3, <2>1, FetchesBy
<1>4. CASE n # 0
  <2>1. n - 1 \in Nat /\ n - 1 \notin T  BY <1>1, <1>2, <1>4, SMT
  <2>2. PICK g : FetchesUpTo(g, n - 1)  BY <2>1
  <2>3. g = [k \in 0 .. n - 1 |-> IF k = 0 THEN FetchedNone ELSE FetchedOn(g[k - 1])]
    BY <2>1, <2>2, FetchesBy
  <2>4. \A k \in 0 .. n - 1 : g[k] = IF k = 0 THEN FetchedNone ELSE FetchedOn(g[k - 1])
    <3> DEFINE step(k) == IF k = 0 THEN FetchedNone ELSE FetchedOn(g[k - 1])
    <3>1. g = [k \in 0 .. n - 1 |-> step(k)]  BY <2>3
    <3> HIDE DEF step
    <3>2. \A k \in 0 .. n - 1 : g[k] = step(k)  BY <3>1
    <3> QED  BY <3>2 DEF step
  <2> DEFINE h == [k \in 0 .. n |-> IF k = n THEN FetchedOn(g[n - 1]) ELSE g[k]]
             step(k) == IF k = 0 THEN FetchedNone ELSE FetchedOn(h[k - 1])
  <2>5. ASSUME NEW k \in 0 .. n  PROVE h[k] = step(k)
    <3>1. CASE k = n
      <4>1. n - 1 \in 0 .. n /\ n - 1 # n  BY <2>1, SMT
      <4> QED  BY <1>4, <3>1, <4>1
    <3>2. CASE k # n
      <4>1. k \in 0 .. n - 1 /\ (k # 0 => k - 1 \in 0 .. n /\ k - 1 # n)  BY <1>2, <3>2, SMT
      <4> QED  BY <2>4, <3>2, <4>1
    <3> QED  BY <3>1, <3>2
  <2>6. h = [k \in 0 .. n |-> h[k]]  OBVIOUS
  <2> HIDE DEF h
  <2>7. h = [k \in 0 .. n |-> step(k)]
    <3> HIDE DEF step
    <3> QED  BY <2>5, <2>6
  <2> QED  BY <1>2, <2>7, FetchesBy
<1>5. QED  BY <1>3, <1>4
\* What is fetched from address a is well formed.
LEMMA FetchAtType ==
  ASSUME prog \in Programs, NEW a \in PCs(prog), NEW f \in FetchAt(a)
  PROVE  WellFetched(f) /\ f.pc = a
<1>1. /\ At(prog, a) \in Instr /\ At(prog, a).target \in PCs(prog) /\ Seq1(prog, a) \in PCs(prog)
      /\ a \in Nat /\ \A x \in PCs(prog) : x \in Nat
  BY InstrType DEF PCs
<1>2. CASE f = [valid |-> TRUE, irq |-> TRUE, pc |-> a, predPC |-> a]
  <2>1. f \in Fetched /\ f.valid /\ f.irq /\ f.pc = a /\ f.predPC = a
    BY <1>1, <1>2 DEF Fetched
  <2> QED  BY <2>1 DEF WellFetched
<1>3. CASE \E q \in CASE At(prog, a).op = "BEQZ" -> {Seq1(prog, a), At(prog, a).target}
                      [] At(prog, a).op = "JALR" -> PCs(prog)
                      [] OTHER -> {Seq1(prog, a)} :
             f = [valid |-> TRUE, irq |-> FALSE, pc |-> a, predPC |-> q]
  <2>1. PICK q \in CASE At(prog, a).op = "BEQZ" -> {Seq1(prog, a), At(prog, a).target}
                      [] At(prog, a).op = "JALR" -> PCs(prog)
                      [] OTHER -> {Seq1(prog, a)} :
             f = [valid |-> TRUE, irq |-> FALSE, pc |-> a, predPC |-> q]
    BY <1>3
  <2>2. q \in PCs(prog) /\ (At(prog, a).op \notin {"BEQZ", "JALR"} => q = Seq1(prog, a))
    BY <1>1, <2>1
  <2>3. f.valid /\ ~f.irq /\ f.pc = a /\ f.predPC = q  BY <2>1
  <2>4. f \in Fetched  BY <1>1, <2>1, <2>2 DEF Fetched
  <2> QED  BY <2>2, <2>3, <2>4 DEF WellFetched, IsBranch, InstrOf
<1>4. QED  BY <1>2, <1>3 DEF FetchAt

\* b goes on from a as predicted.
Chain(a, b) ==
  /\ b \in Seq(Fetched)
  /\ \A j \in 1 .. Len(b) : WellFetched(b[j]) /\ b[j].pc = IF j = 1 THEN a ELSE b[j - 1].predPC

Chained(g) == g \in [PCs(prog) -> SUBSET Seq(Fetched)]
              /\ \A a \in PCs(prog) : \A b \in g[a] : Chain(a, b)

\* An instruction before a chain.
LEMMA ChainGrows ==
  ASSUME NEW a, NEW f, WellFetched(f), f.pc = a, NEW rest, Chain(f.predPC, rest)
  PROVE  Chain(a, <<f>> \o rest)
<1>1. f \in Fetched /\ rest \in Seq(Fetched)  BY DEF WellFetched, Chain
<1>2. /\ <<f>> \o rest \in Seq(Fetched) /\ Len(<<f>> \o rest) = 1 + Len(rest) /\ Len(rest) \in Nat
      /\ (<<f>> \o rest)[1] = f
      /\ \A j \in 2 .. 1 + Len(rest) : (<<f>> \o rest)[j] = rest[j - 1]
  BY <1>1, SMT
<1> DEFINE b == <<f>> \o rest
<1> HIDE DEF b
<1>3. ASSUME NEW j \in 1 .. Len(b)
      PROVE  WellFetched(b[j]) /\ b[j].pc = IF j = 1 THEN a ELSE b[j - 1].predPC
  <2>1. CASE j = 1  BY <1>2, <2>1 DEF b
  <2>2. CASE j # 1
    <3>1. j \in 2 .. 1 + Len(rest) /\ j - 1 \in 1 .. Len(rest)  BY <1>2, <2>2 DEF b
    <3>2. b[j] = rest[j - 1]  BY <1>2, <3>1 DEF b
    <3>3. WellFetched(rest[j - 1])
          /\ rest[j - 1].pc = IF j - 1 = 1 THEN f.predPC ELSE rest[j - 1 - 1].predPC
      BY <3>1 DEF Chain
    <3>4. CASE j - 1 = 1
      <4>1. b[j - 1] = f  BY <1>2, <3>4 DEF b
      <4> QED  BY <2>2, <3>2, <3>3, <3>4, <4>1
    <3>5. CASE j - 1 # 1
      <4>1. j - 1 \in 2 .. 1 + Len(rest)  BY <3>1, <3>5, <1>2, SMT
      <4>2. b[j - 1] = rest[j - 1 - 1]  BY <1>2, <4>1 DEF b
      <4> QED  BY <2>2, <3>2, <3>3, <3>5, <4>2
    <3> QED  BY <3>4, <3>5
  <2> QED  BY <2>1, <2>2
<1>4. QED  BY <1>2, <1>3 DEF Chain, b

\* No instructions are a chain.
LEMMA EmptyChain == ASSUME NEW a PROVE Chain(a, <<>>)
<1>1. <<>> \in Seq(Fetched) /\ Len(<<>>) = 0  OBVIOUS
<1>2. 1 .. Len(<<>>) = {}  BY <1>1, SMT
<1>3. QED  BY <1>1, <1>2 DEF Chain

\* Fetching one more instruction keeps the chains.
LEMMA FetchedOnChained ==
  ASSUME prog \in Programs, NEW g, Chained(g)
  PROVE  Chained(FetchedOn(g))
<1> DEFINE h == FetchedOn(g)
<1>1. ASSUME NEW a \in PCs(prog), NEW b \in h[a]
      PROVE  Chain(a, b)
  <2>1. CASE b = <<>>  BY <2>1, EmptyChain
  <2>2. CASE b # <<>>
    <3>1. h[a] = {<<>>} \cup UNION {{<<f>> \o rest : rest \in
                    IF f.irq \/ f.predPC # Seq1(prog, a) THEN {<<>>} ELSE g[f.predPC]} : f \in FetchAt(a)}
      BY DEF FetchedOn
    <3>2. PICK f \in FetchAt(a) : \E rest \in IF f.irq \/ f.predPC # Seq1(prog, a) THEN {<<>>}
                                             ELSE g[f.predPC] : b = <<f>> \o rest
      BY <2>2, <3>1
    <3>3. PICK rest \in IF f.irq \/ f.predPC # Seq1(prog, a) THEN {<<>>} ELSE g[f.predPC] :
            b = <<f>> \o rest
      BY <3>2
    <3>4. WellFetched(f) /\ f.pc = a  BY FetchAtType
    <3>5. f.predPC \in PCs(prog)  BY <3>4 DEF WellFetched
    <3>6. Chain(f.predPC, rest)
      <4>1. rest = <<>> \/ rest \in g[f.predPC]  BY <3>3
      <4> QED  BY <3>5, <4>1, EmptyChain DEF Chained
    <3> QED  BY <3>3, <3>4, <3>6, ChainGrows
  <2> QED  BY <2>1, <2>2
<1>2. \A a \in PCs(prog) : h[a] \in SUBSET Seq(Fetched)  BY <1>1 DEF Chain
<1>3. DOMAIN h = PCs(prog) /\ h = [a \in PCs(prog) |-> h[a]]  BY DEF FetchedOn
<1> HIDE DEF h
<1>4. h \in [PCs(prog) -> SUBSET Seq(Fetched)]  BY <1>2, <1>3
<1>5. Chained(h)  BY <1>1, <1>4 DEF Chained
<1>6. QED  BY <1>5 DEF h

\* However many instructions are fetched, they are chains.
LEMMA FetchesChained ==
  ASSUME prog \in Programs, NEW n \in Nat, NEW g, FetchesUpTo(g, n)
  PROVE  \A k \in 0 .. n : Chained(g[k])
<1>1. \A k \in 0 .. n : g[k] = IF k = 0 THEN FetchedNone ELSE FetchedOn(g[k - 1])
  <2> DEFINE step(k) == IF k = 0 THEN FetchedNone ELSE FetchedOn(g[k - 1])
  <2>1. g = [k \in 0 .. n |-> step(k)]  BY FetchesBy
  <2> HIDE DEF step
  <2>2. \A k \in 0 .. n : g[k] = step(k)  BY <2>1
  <2> QED  BY <2>2 DEF step
<1> DEFINE T == {k \in 0 .. n : ~Chained(g[k])}
<1> SUFFICES ASSUME T # {}  PROVE FALSE
  OBVIOUS
<1>2. PICK k \in T : \A m \in T : k <= m
  <2>1. T \subseteq Nat  BY SMT
  <2> HIDE DEF T
  <2> QED  BY <2>1, LeastNat
<1>3. CASE k = 0
  <2>1. Chained(FetchedNone)
    <3>1. <<>> \in Seq(Fetched)  OBVIOUS
    <3>2. FetchedNone \in [PCs(prog) -> SUBSET Seq(Fetched)]  BY <3>1 DEF FetchedNone
    <3>3. \A a \in PCs(prog) : \A b \in FetchedNone[a] : b = <<>>  BY DEF FetchedNone
    <3> QED  BY <3>2, <3>3, EmptyChain DEF Chained
  <2> QED  BY <1>1, <1>2, <1>3, <2>1
<1>4. CASE k # 0
  <2>1. k - 1 \in 0 .. n /\ k - 1 \notin T  BY <1>2, <1>4, SMT
  <2>2. Chained(g[k - 1])  BY <2>1
  <2> QED  BY <1>1, <1>2, <1>4, <2>2, FetchedOnChained
<1>5. QED  BY <1>3, <1>4

\* What fetch delivers is a piece of the predicted path from fetchPC on.
LEMMA BundlesChain ==
  ASSUME prog \in Programs, fetchPC \in PCs(prog), NEW pd \in Bundles
  PROVE  /\ pd \in [Port -> Fetched]
         /\ \A i \in Port : pd[i].valid =>
              WellFetched(pd[i]) /\ Follows(pd, i) /\ (i = 0 => pd[i].pc = fetchPC)
<1>0. NoFetch \in Fetched /\ ~NoFetch.valid  BY DEF NoFetch, Fetched
<1>1. CASE issuedInterrupt
  <2>1. pd = [i \in Port |-> NoFetch]  BY <1>1 DEF Bundles
  <2> QED  BY <1>0, <2>1
<1>2. CASE ~issuedInterrupt
  <2> DEFINE from == CHOOSE g : FetchesUpTo(g, Width)
  <2>1. FetchesUpTo(from, Width)  BY FetchesExist, WidthType
  <2>2. Bundles = {[i \in Port |-> IF i < Len(b) THEN b[i + 1] ELSE NoFetch] :
                     b \in from[Width][fetchPC]}
    BY <1>2, Zenon DEF Bundles, FetchesUpTo
  <2> HIDE DEF from
  <2>3. Width \in 0 .. Width  BY WidthType, SMT
  <2>4. Chained(from[Width])  BY <2>1, <2>3, WidthType, FetchesChained
  <2>5. PICK b \in from[Width][fetchPC] :
          pd = [i \in Port |-> IF i < Len(b) THEN b[i + 1] ELSE NoFetch]
    BY <2>2
  <2>6. Chain(fetchPC, b) /\ Len(b) \in Nat  BY <2>4 DEF Chained, Chain
  <2>7. ASSUME NEW i \in Port
        PROVE  /\ pd[i] = IF i < Len(b) THEN b[i + 1] ELSE NoFetch
               /\ i < Len(b) => i + 1 \in 1 .. Len(b)
    <3>1. i \in Nat  BY SMT DEF Port
    <3> QED  BY <2>5, <2>6, <3>1, SMT
  <2>8. ASSUME NEW i \in Port  PROVE pd[i].valid <=> i < Len(b)
    <3>1. i < Len(b) => WellFetched(b[i + 1])  BY <2>6, <2>7 DEF Chain
    <3> QED  BY <1>0, <2>7, <3>1 DEF WellFetched
  <2>9. ASSUME NEW i \in Port, pd[i].valid
        PROVE  /\ WellFetched(pd[i]) /\ (i = 0 => pd[i].pc = fetchPC)
               /\ \A j \in Port : j < i => pd[j].valid /\ (j + 1 = i => pd[i].pc = pd[j].predPC)
    <3>1. i < Len(b) /\ pd[i] = b[i + 1]  BY <2>7, <2>8, <2>9
    <3>2. /\ WellFetched(b[i + 1])
          /\ b[i + 1].pc = IF i = 0 THEN fetchPC ELSE b[i].predPC
      <4>1. i + 1 \in 1 .. Len(b)  BY <2>7, <3>1
      <4>2. \A j \in 1 .. Len(b) :
              WellFetched(b[j]) /\ b[j].pc = IF j = 1 THEN fetchPC ELSE b[j - 1].predPC
        BY <2>6 DEF Chain
      <4>3. PICK k : k = i + 1  OBVIOUS
      <4>4. WellFetched(b[k]) /\ b[k].pc = IF k = 1 THEN fetchPC ELSE b[k - 1].predPC
        BY <4>1, <4>2, <4>3
      <4>5. k - 1 = i /\ (k = 1 <=> i = 0)  BY <4>3, SMT DEF Port
      <4>6. WellFetched(b[k]) /\ b[k].pc = IF i = 0 THEN fetchPC ELSE b[i].predPC  BY <4>4, <4>5
      <4> QED  BY <4>3, <4>6
    <3>3. i \in Nat  BY SMT DEF Port
    <3>4. ASSUME NEW j \in Port, j < i
          PROVE  pd[j].valid /\ pd[j] = b[j + 1] /\ i # 0
      <4>1. j < Len(b) /\ i # 0  BY <2>6, <3>1, <3>3, <3>4, SMT DEF Port
      <4>2. pd[j].valid  BY <2>8, <4>1
      <4>3. pd[j] = b[j + 1]  BY <2>7, <4>1
      <4> QED  BY <4>1, <4>2, <4>3
    <3> QED  BY <3>1, <3>2, <3>4
  <2>10. pd \in [Port -> Fetched]
    <3>1. \A i \in Port : pd[i] \in Fetched  BY <1>0, <2>7, <2>8, <2>9 DEF WellFetched
    <3> QED  BY <2>5, <3>1
  <2> QED  BY <2>9, <2>10 DEF Follows
<1>3. QED  BY <1>1, <1>2

-----------------------------------------------------------------------------
(* What one clock cycle does to the instructions in flight. *)

\* One clock cycle: F and R are reported, pd is fetched, n uops leave the buffer.
Tick(F, R, pd, keep, n) ==
  /\ F \in ExecCompletions /\ R \in Results(F)
  /\ pd \in IF FrontReady THEN Bundles ELSE {[i \in Port |-> NoFetch]}
  /\ keep \in IF trapUOp.valid /\ trapUOp.flags = "ORDERING" THEN BOOLEAN ELSE {FALSE}
  /\ ExecCycle(F, R, pd, keep) /\ LogInstructions(F, R, pd, keep)
  /\ CycleOf(F, n) /\ \E used \in SUBSET Port : RenameMoves(used)
  /\ MapInv'

\* What is known of the map and of the buffer.
LEMMA MapParts ==
  MapInv => /\ WindowInv /\ TypeOK /\ RedirectCovers /\ RedirectsRaised /\ FreeListInv
            /\ TagsAgree /\ EliminatedNeedsNone /\ TrapsWriteNothing /\ FlushRedirects
            /\ ReplayAlone /\ ZeroIsConstant /\ SpecMap /\ ReplayRange /\ PendingUnread
            /\ \A t \in RFTag : OwnedOnce(t)
  BY DEF MapInv, RaisedInv, ProducedInv, FreeListInv, WindowInv

LEMMA MapPartsAfter ==
  MapInv' => /\ WindowInv' /\ TypeOK' /\ RedirectCovers' /\ RedirectsRaised' /\ FreeListInv'
             /\ TagsAgree' /\ EliminatedNeedsNone' /\ TrapsWriteNothing' /\ FlushRedirects'
             /\ ReplayAlone' /\ ZeroIsConstant' /\ SpecMap'
             /\ (\A t \in RFTag : OwnedOnce(t))'
  BY MapParts, PTL

\* A clock cycle is a cycle of the buffer between two states of its invariant.
LEMMA TickIsCycle ==
  ASSUME CoInv, NEW F, NEW R, NEW pd, NEW keep, NEW n, Tick(F, R, pd, keep, n)
  PROVE  /\ MapInv /\ MapInv' /\ WindowInv /\ WindowInv' /\ TypeOK /\ RedirectCovers /\ RedirectsRaised
         /\ CycleOf(F, n) /\ F \in AnyCompletions
         /\ BackendStep(F) /\ EnqueueStep(rnUOp, F, branch) /\ prog' = prog /\ prog \in Programs
         /\ n \in Nat /\ n <= Width
<1>1. MapInv /\ MapInv' /\ CycleOf(F, n) /\ ExecCycle(F, R, pd, keep) /\ prog \in Programs
  BY DEF Tick, CoInv, CoTypeOK
<1>2. F \in AnyCompletions /\ BackendStep(F) /\ EnqueueStep(rnUOp, F, branch) /\ n \in 0 .. Width
  BY <1>1 DEF CycleOf
<1>3. prog' = prog  BY <1>1 DEF ExecCycle
<1>4. n \in Nat /\ n <= Width  BY <1>2, WidthType, SMT
<1>5. QED  BY <1>1, <1>2, <1>3, <1>4, MapParts, MapPartsAfter

\* A uop stays in the buffer or has just been handed over by rename.
LEMMA CameFrom ==
  ASSUME WindowInv, NEW q \in Nat, q < InFlight
  PROVE  \/ /\ q < Pos(lastIndex) /\ Plus(baseIndex, q) \in SqNs /\ InROB(Plus(baseIndex, q))
            /\ Pos(Plus(baseIndex, q)) = q /\ Slot(q) \in RobIdxs
            /\ Enqueued(Slot(q), rnUOp, branch) = {}
         \/ /\ ~(q < Pos(lastIndex)) /\ ~branch.taken
            /\ RnPort(q) \in Port /\ rnUOp[RnPort(q)].valid
            /\ rnUOp[RnPort(q)].sqN = Plus(baseIndex, q)
            /\ Slot(q) \in RobIdxs
            /\ Enqueued(Slot(q), rnUOp, branch) = {RnPort(q)}
<1>1. CASE q < Pos(lastIndex)
  <2>1. /\ Plus(baseIndex, q) \in SqNs /\ InROB(Plus(baseIndex, q))
        /\ Pos(Plus(baseIndex, q)) = q /\ Slot(q) \in RobIdxs
    BY <1>1, SlotAt
  <2>2. Enqueued(Slot(q), rnUOp, branch) = {}  BY <2>1, EntryNotOverwritten DEF Slot
  <2> QED  BY <1>1, <2>1, <2>2
<1>2. CASE ~(q < Pos(lastIndex))
  <2>1. ~branch.taken /\ q < Pos(counterSqN)  BY <1>2 DEF InFlight
  <2>2. RnPort(q) \in Port /\ rnUOp[RnPort(q)].valid /\ rnUOp[RnPort(q)].sqN = Plus(baseIndex, q)
    BY <1>2, <2>1, PortAt
  <2>3. Enqueued(Slot(q), rnUOp, branch) = {RnPort(q)}
    BY <2>1, <2>2, EnqueuedAlone DEF Slot
  <2>4. Plus(baseIndex, q) \in SqNs /\ Slot(q) \in RobIdxs
    BY <2>2, SqNState, RobIdxType DEF WindowInv, Slot
  <2> QED  BY <1>2, <2>1, <2>2, <2>3, <2>4
<1>3. QED  BY <1>1, <1>2

\* The instruction, the unit and the mark of a uop that stays do not change, except that
\* the mark goes when a redirect is sent for it.
LEMMA InstrMoves ==
  ASSUME CoInv, NEW F, NEW R, NEW pd, NEW keep, NEW n, Tick(F, R, pd, keep, n),
         NEW q \in Nat, q < Pos(lastIndex)'
  PROVE  /\ q + n \in Nat /\ q + n < InFlight /\ q + n \in 0 .. InFlight - 1
         /\ Slot(q)' = Slot(q + n)
         /\ Fetch(q)' = Fetch(q + n) /\ FuAt(q)' = FuAt(q + n)
         /\ MispredAt(q)' => MispredAt(q + n)
         /\ MispredAt(q + n) /\ ~MispredAt(q)' =>
              /\ q + n < Pos(lastIndex) /\ Plus(baseIndex, q + n) \in intRes
              /\ ~Squashed(Plus(baseIndex, q + n), branch)
<1>1. /\ WindowInv /\ WindowInv' /\ RedirectCovers /\ CycleOf(F, n) /\ TypeOK
      /\ F \in AnyCompletions /\ BackendStep(F) /\ EnqueueStep(rnUOp, F, branch)
  BY TickIsCycle
<1>2. q + n \in Nat /\ q + n < InFlight /\ Slot(q)' = Slot(q + n)  BY <1>1, SlotMoves
<1>3. q + n \in 0 .. InFlight - 1  BY <1>1, <1>2, FlightType, SMT
<1> DEFINE k == Slot(q + n)
           p == q + n
<1>4. Fetch(q)' = slot'[k] /\ FuAt(q)' = backend'[k].fu /\ MispredAt(q)' = backend'[k].mispred
  BY <1>2 DEF Fetch, FuAt, MispredAt
<1>5. SlotStep  BY DEF Tick, ExecCycle
<1>6. CASE q + n < Pos(lastIndex)
  <2>1. /\ Plus(baseIndex, p) \in SqNs /\ InROB(Plus(baseIndex, p)) /\ k \in RobIdxs
        /\ Enqueued(k, rnUOp, branch) = {} /\ RobIdx(Plus(baseIndex, p)) = k
    BY <1>1, <1>2, <1>6, CameFrom DEF Slot
  <2>2. slot'[k] = slot[k]  BY <1>5, <2>1 DEF SlotStep
  <2>3. Fetch(p) = slot[k] /\ FuAt(p) = backend[k].fu /\ MispredAt(p) = backend[k].mispred
    BY <1>6 DEF Fetch, FuAt, MispredAt
  <2>4. backend'[k].fu = backend[k].fu  BY <1>1, <2>1, SlotKept
  <2> DEFINE woken == backend[k].avail \/ backend[k].tag \in WrittenBack(F)
             first == backend[k].early \/ \E u \in F : RobIdx(u.sqN) = k /\ u.doNotCommit
             sent  == \E t \in intRes : RobIdx(t) = k /\ branch.taken /\ branch.sqN = t
                                        /\ ~branch.flush /\ ~branch.isSCFail
  <2>5. backend'[k].mispred = (backend[k].mispred /\ ~sent)
    <3>1. backend'[k] = [backend[k] EXCEPT !.avail = woken, !.early = first,
                                           !.mispred = @ /\ ~sent]
      BY <1>1, <2>1 DEF BackendStep
    <3>2. backend[k] \in BackendUOp  BY <1>1, <2>1 DEF TypeOK
    <3> HIDE DEF woken, first, sent
    <3> QED  BY <3>1, <3>2 DEF BackendUOp
  <2>6. sent => Plus(baseIndex, p) \in intRes /\ ~Squashed(Plus(baseIndex, p), branch)
    <3>1. SUFFICES ASSUME NEW t \in intRes, RobIdx(t) = k, branch.taken, branch.sqN = t
                   PROVE  t = Plus(baseIndex, p) /\ ~Squashed(t, branch)
      BY DEF sent
    <3>2. t \in SqNs /\ baseIndex \in SqNs  BY <1>1, <3>1, SqNState
    <3>3. Pos(t) < Pos(lastIndex) /\ -1 <= Pos(t)  BY TickIsCycle DEF RedirectsRaised
    <3>4. 0 <= Pos(t)
      <4>1. Waiting(t)  BY DEF CoInv, RaisedInTime
      <4> QED  BY <3>2, <4>1 DEF Waiting, InROB, Pos
    <3>5. 0 <= Diff(Plus(baseIndex, p), baseIndex)  BY <2>1 DEF InROB
    <3>6. t = Plus(baseIndex, p)
      BY <2>1, <3>1, <3>2, <3>4, <3>5, RobIdxInjective DEF Pos
    <3>7. Diff(t, t) = 0  BY <3>2, PlusMinusOne
    <3> QED  BY <3>1, <3>6, <3>7, SMT DEF Squashed
  <2> HIDE DEF sent, p, k
  <2> QED  BY <1>2, <1>3, <1>4, <1>6, <2>2, <2>3, <2>4, <2>5, <2>6 DEF p, k
<1>7. CASE ~(q + n < Pos(lastIndex))
  <2> DEFINE i == RnPort(p)
  <2>1. /\ ~branch.taken /\ i \in Port /\ rnUOp[i].valid /\ RobIdx(rnUOp[i].sqN) = k
        /\ Enqueued(k, rnUOp, branch) = {i} /\ k \in RobIdxs
    BY <1>1, <1>2, <1>7, CameFrom DEF Slot
  <2>2. slot'[k] = rnInstr[i]  BY <1>5, <2>1 DEF SlotStep
  <2>3. Fetch(p) = rnInstr[i] /\ FuAt(p) = rnUOp[i].fu /\ MispredAt(p) = rnUOp[i].mispred
    BY <1>7 DEF Fetch, FuAt, MispredAt
  <2> HIDE DEF i, k
  <2>4. backend'[k] = Entered(rnUOp[i], WrittenBack(F))  BY <1>1, <2>1, SlotEntered
  <2>5. backend'[k].fu = rnUOp[i].fu /\ backend'[k].mispred = rnUOp[i].mispred
    BY <2>4 DEF Entered
  <2> QED  BY <1>2, <1>3, <1>4, <2>2, <2>3, <2>5 DEF k
<1>8. QED  BY <1>6, <1>7

\* The instruction of a uop that waits.
LEMMA WaitingUop ==
  ASSUME CoInv, NEW s, Waiting(s)
  PROVE  LET q == Pos(s)
         IN  /\ s \in SqNs /\ InROB(s) /\ q \in Nat /\ q < Pos(lastIndex) /\ q \in 0 .. InFlight - 1
             /\ s = Plus(baseIndex, q) /\ Slot(q) = RobIdx(s)
             /\ Fetch(q) = SlotOf(s) /\ FuAt(q) = Unit(s).fu /\ MispredAt(q) = Unit(s).mispred
             /\ Uops[q].tag = Unit(s).tagDst /\ Uops[q].src = Unit(s).tag
             /\ Avail(q) = Unit(s).avail /\ Operand(s) = Value(q)
             /\ ~Unit(s).early /\ ~Produced(q) /\ flags[Slot(q)] = "NX"
             /\ UopOf(q) /\ WellFetched(Fetch(q))
             /\ FuAt(q) \in {"INT", "LOAD", "SC"} /\ FuAt(q) = DecodedUOp(Fetch(q)).fu
             /\ ~Fetch(q).irq /\ InstrOf(Fetch(q)).op # "ECALL"
             /\ IsBranch(Fetch(q)) <=> MispredAt(q)
<1> DEFINE q == Pos(s)
<1>1. MapInv /\ WindowInv /\ InROB(s) /\ s \in SqNs /\ flags[RobIdx(s)] = "NX" /\ prog \in Programs
  BY MapParts DEF CoInv, CoTypeOK, Waiting, InROB
<1>2. /\ q \in Nat /\ q < Pos(lastIndex) /\ q \in 0 .. InFlight - 1
      /\ s = Plus(baseIndex, q) /\ Slot(q) = RobIdx(s)
      /\ Uops[q].tag = Unit(s).tagDst /\ Uops[q].src = Unit(s).tag
      /\ Avail(q) = Unit(s).avail
  BY <1>1, UopInROB, PosOfSlot
<1>3. q \in 0 .. Pos(lastIndex) - 1  BY <1>1, <1>2, FlightType, SMT
<1> HIDE DEF q
<1>4. Fetch(q) = SlotOf(s) /\ FuAt(q) = Unit(s).fu /\ MispredAt(q) = Unit(s).mispred
  BY <1>2 DEF Fetch, FuAt, MispredAt, SlotOf, Unit
<1>5. Operand(s) = Value(q)  BY <1>2 DEF Operand, Value
<1>6. /\ flags[Slot(q)] = "NX" /\ ~backend[Slot(q)].early
      /\ FuAt(q) \notin {"RN", "TRAP"}
      /\ IsBranch(Fetch(q)) => MispredAt(q)
  <2>1. flags[Slot(q)] = "NX"  BY <1>1, <1>2
  <2>2. \A d : "NX" \notin CompletesWith(d)  BY DEF CompletesWith
  <2> QED  BY <1>3, <2>1, <2>2 DEF CoInv, FlagsInv
<1>7. UopOf(q)  BY <1>2 DEF CoInv, UopsInv
<1>8. WellFetched(Fetch(q)) /\ (MispredAt(q) => IsBranch(Fetch(q)))  BY <1>7 DEF UopOf
<1>9. FuAt(q) = DecodedUOp(Fetch(q)).fu  BY <1>6, <1>7 DEF UopOf
<1>10. FuAt(q) \in {"INT", "LOAD", "SC"}  BY <1>1, <1>6, <1>8, <1>9, DecodedType
<1>11. ~Fetch(q).irq /\ InstrOf(Fetch(q)).op # "ECALL"
  BY <1>6, <1>8, <1>9 DEF DecodedUOp, WellFetched, Fetched
<1>12. ~Produced(q) /\ ~Unit(s).early  BY <1>2, <1>6 DEF Produced, Unit
<1>13. QED  BY <1>1, <1>2, <1>4, <1>5, <1>6, <1>7, <1>8, <1>9, <1>10, <1>11, <1>12 DEF q

\* What is reported, and by which uops.
LEMMA Reported ==
  ASSUME CoInv, NEW F \in ExecCompletions, NEW u \in F
  PROVE  LET s == u.sqN
         IN  /\ Waiting(s) /\ Unit(s).avail
             /\ u.tagDst = Unit(s).tagDst /\ ~u.doNotCommit
             /\ u.flags \in CompletesWith(SlotOf(s))
             /\ IsBranch(SlotOf(s)) => s \in intRes \/ ~Mispredicts(s)
<1>1. CASE \E s \in intRes : u = BranchReport(s)
  <2>1. PICK s \in intRes : u = BranchReport(s)  BY <1>1
  <2>2. /\ u.sqN = s /\ u.tagDst = Unit(s).tagDst /\ u.flags \in {"NONE", "PRED"}
        /\ ~u.doNotCommit
    BY <2>1 DEF BranchReport
  <2>3. Waiting(s) /\ Unit(s).avail /\ IsBranch(SlotOf(s))  BY DEF CoInv, RaisedInTime
  <2>4. CompletesWith(SlotOf(s)) = {"NONE", "PRED"}
    BY <2>3 DEF CompletesWith, IsBranch
  <2> QED  BY <2>2, <2>3, <2>4
<1>2. CASE \E s \in SqNs : u \in ExecReports(s)
  <2>1. PICK s \in SqNs : u \in ExecReports(s)  BY <1>2
  <2>2. CASE MayExecute(s) /\ Unit(s).mispred
    <3>1. ~Mispredicts(s) /\ u = BranchReport(s)  BY <2>1, <2>2 DEF ExecReports
    <3>2. /\ u.sqN = s /\ u.tagDst = Unit(s).tagDst /\ u.flags \in {"NONE", "PRED"}
          /\ ~u.doNotCommit
      BY <3>1 DEF BranchReport
    <3>3. Waiting(s) /\ Unit(s).avail  BY <2>2 DEF MayExecute
    <3>4. IsBranch(SlotOf(s))  BY <2>2, <3>3, WaitingUop
    <3>5. CompletesWith(SlotOf(s)) = {"NONE", "PRED"}
      BY <3>4 DEF CompletesWith, IsBranch
    <3> QED  BY <3>1, <3>2, <3>3, <3>5
  <2>3. CASE ~(MayExecute(s) /\ Unit(s).mispred)
    <3>1. /\ u \in Reports(s)
          /\ u.flags = CASE OpOf(s) = "CSRW" -> "ORDERING" [] OpOf(s) = "ILL" -> "ILLEGAL"
                         [] OTHER -> "NONE"
      BY <2>1, <2>3 DEF ExecReports
    <3>2. MayExecute(s)  BY <3>1 DEF Reports
    <3>3. Waiting(s) /\ Unit(s).avail  BY <3>2 DEF MayExecute
    <3>4. /\ Unit(s).fu \in {"INT", "LOAD", "SC"}
          /\ ~SlotOf(s).irq /\ InstrOf(SlotOf(s)).op # "ECALL" /\ ~IsBranch(SlotOf(s))
      BY <2>3, <3>2, <3>3, WaitingUop
    <3>5. \E fl \in Outcome[Unit(s).fu] :
            u = [sqN |-> s, tagDst |-> Unit(s).tagDst, flags |-> fl, doNotCommit |-> FALSE]
      BY <3>1, <3>4 DEF Reports
    <3>6. u.sqN = s /\ u.tagDst = Unit(s).tagDst /\ ~u.doNotCommit  BY <3>5
    <3>7. u.flags \in CompletesWith(SlotOf(s))
      BY <3>1, <3>4 DEF CompletesWith, OpOf
    <3> QED  BY <3>3, <3>4, <3>6, <3>7
  <2> QED  BY <2>2, <2>3
<1>3. QED  BY <1>1, <1>2 DEF ExecCompletions

\* The reports that complete the uop with number s.
Answers(F, s) == {u \in F : u.sqN = s /\ ~u.doNotCommit}

\* The flags of a uop that stays.
LEMMA FlagsMove ==
  ASSUME CoInv, NEW F, NEW R, NEW pd, NEW keep, NEW n, Tick(F, R, pd, keep, n),
         NEW q \in Nat, q < Pos(lastIndex)'
  PROVE  LET p == q + n
             s == Plus(baseIndex, p)
         IN  /\ p < Pos(lastIndex) =>
                  /\ s \in SqNs /\ InROB(s) /\ Pos(s) = p /\ ~Squashed(s, branch)
                  /\ Answers(F, s) = {} => flags'[Slot(p)] = flags[Slot(p)]
                  /\ Answers(F, s) # {} =>
                       flags'[Slot(p)] = (CHOOSE u \in Answers(F, s) : TRUE).flags
             /\ ~(p < Pos(lastIndex)) => flags'[Slot(p)] = InitialFlags(FuAt(p))
             /\ ~backend'[Slot(p)].early
<1> DEFINE p == q + n
           s == Plus(baseIndex, p)
           k == Slot(p)
<1>1. /\ WindowInv /\ WindowInv' /\ RedirectCovers /\ CycleOf(F, n) /\ TypeOK
      /\ F \in AnyCompletions /\ BackendStep(F) /\ EnqueueStep(rnUOp, F, branch)
  BY TickIsCycle
<1>2. p \in Nat /\ p < InFlight /\ n \in Nat  BY InstrMoves, TickIsCycle
<1>3. \A u \in F : Waiting(u.sqN) /\ ~u.doNotCommit
  <2>1. F \in ExecCompletions  BY DEF Tick
  <2> QED  BY <2>1, Reported
<1>4. CASE p < Pos(lastIndex)
  <2>1. /\ s \in SqNs /\ InROB(s) /\ Pos(s) = p /\ k \in RobIdxs /\ RobIdx(s) = k
        /\ Enqueued(k, rnUOp, branch) = {}
    BY <1>1, <1>2, <1>4, CameFrom DEF Slot
  <2>2. ~Squashed(s, branch)
    <3> SUFFICES ASSUME branch.taken PROVE ~(Diff(s, branch.sqN) > 0)
      BY DEF Squashed
    <3>1. n = 0 /\ Pos(lastIndex)' = Pos(branch.sqN) + 1  BY <1>1, FlightAfter
    <3>2. Pos(branch.sqN) \in Int /\ -1 <= Pos(branch.sqN) /\ branch.sqN \in SqNs /\ baseIndex \in SqNs
          /\ Pos(branch.sqN) < Pos(lastIndex)
      BY <1>1, SqNState, PosType DEF WindowInv, BranchInWindow
    <3>3. Pos(s) <= Pos(branch.sqN) /\ 0 <= Pos(s)  BY <2>1, <3>1, <3>2, <1>2, SMT
    <3>4. 0 <= Pos(branch.sqN)  BY <3>2, <3>3, <2>1, <1>2, SMT
    <3>5. Diff(s, branch.sqN) = Diff(s, baseIndex) - Diff(branch.sqN, baseIndex)
      BY <2>1, <3>2, <3>3, <3>4, DiffByDistance DEF Pos
    <3>6. Pos(s) \in Int  BY <1>1, <2>1, PosType
    <3> QED  BY <3>2, <3>3, <3>5, <3>6, SMT DEF Pos
  <2>3. Completed(k, F, branch) = Answers(F, s)
    <3>1. ASSUME NEW u \in F, RobIdx(u.sqN) = k  PROVE u.sqN = s
      <4>1. Waiting(u.sqN)  BY <1>3
      <4>2. u.sqN \in SqNs /\ 0 <= Diff(u.sqN, baseIndex) /\ 0 <= Diff(s, baseIndex) /\ baseIndex \in SqNs
        BY <1>1, <2>1, <4>1, SqNState DEF Waiting, InROB
      <4> QED  BY <2>1, <3>1, <4>2, RobIdxInjective
    <3> HIDE DEF s, k, p
    <3> QED  BY <2>1, <2>2, <3>1 DEF Completed, Answers
  <2>4. /\ Answers(F, s) = {} => flags'[k] = flags[k]
        /\ Answers(F, s) # {} => flags'[k] = (CHOOSE u \in Answers(F, s) : TRUE).flags
    <3> HIDE DEF s, k, p
    <3> QED  BY <1>1, <2>1, <2>3 DEF EnqueueStep
  <2>5. ~backend'[k].early
    <3>1. backend'[k].early = (backend[k].early \/ \E u \in F : RobIdx(u.sqN) = k /\ u.doNotCommit)
      BY <1>1, <2>1, SlotKept
    <3>2. p \in 0 .. Pos(lastIndex) - 1  BY <1>1, <1>2, <1>4, FlightType, SMT
    <3>3. ~backend[k].early  BY <3>2 DEF CoInv, FlagsInv
    <3> QED  BY <1>3, <3>1, <3>3
  <2> QED  BY <1>4, <2>1, <2>2, <2>4, <2>5
<1>5. CASE ~(p < Pos(lastIndex))
  <2> DEFINE i == RnPort(p)
  <2>1. /\ ~branch.taken /\ i \in Port /\ rnUOp[i].valid /\ RobIdx(rnUOp[i].sqN) = k
    BY <1>1, <1>2, <1>5, CameFrom DEF Slot
  <2>2. FuAt(p) = rnUOp[i].fu  BY <1>5 DEF FuAt
  <2> HIDE DEF i, k
  <2>3. flags'[k] = InitialFlags(rnUOp[i].fu) /\ backend'[k] = Entered(rnUOp[i], WrittenBack(F))
    BY <1>1, <2>1, SlotEntered
  <2>4. ~backend'[k].early  BY <2>3 DEF Entered
  <2> QED  BY <1>5, <2>2, <2>3, <2>4 DEF k
<1>6. QED  BY <1>4, <1>5

\* A uop that is new in the next state is one that rename takes from decode.
LEMMA RenamedFrom ==
  ASSUME CoInv, NEW F, NEW R, NEW pd, NEW keep, NEW n, Tick(F, R, pd, keep, n),
         NEW i \in Port, rnUOp'[i].valid
  PROVE  /\ ~branch.taken /\ RNTakes /\ RNAccept(mispredFlush, deUOp, comUOp, F)
         /\ de[i].valid /\ WellFetched(de[i]) /\ deUOp[i] = DecodedUOp(de[i])
         /\ deUOp \in DecodedUOps(DUOps) /\ ~Stall(deUOp)
         /\ rnUOp'[i] = Renamed(deUOp, i, WrittenBack(F)) /\ rnInstr'[i] = de[i]
<1>1. ExecCycle(F, R, pd, keep) /\ prog \in Programs /\ FrontInv
  BY DEF Tick, CoInv, CoTypeOK
<1>2. ~(\A j \in Port : rnUOp'[j] = NoRUOp)  BY DEF NoRUOp
<1>3. ~RNIdle(mispredFlush, comUOp, F) /\ ~RNRedirect(branch, mispredFlush, comUOp, F)
  BY <1>2 DEF RNIdle, RNRedirect
<1>4. ~branch.taken /\ RenameOrIdle(F)  BY <1>1, <1>3 DEF ExecCycle, RedirectCycle
<1>5. RNTakes /\ RNAccept(mispredFlush, deUOp, comUOp, F)  BY <1>3, <1>4 DEF RenameOrIdle
<1>6. /\ deUOp \in DecodedUOps(DUOps) /\ (Decoded(deUOp, i) <=> de[i].valid)
      /\ (de[i].valid => deUOp[i] = DecodedUOp(de[i]))
  BY <1>1, DecodedPorts
<1>7. /\ rnUOp'[i] = IF Decoded(deUOp, i) THEN Renamed(deUOp, i, WrittenBack(F)) ELSE NoRUOp
      /\ ~Stall(deUOp)
  BY <1>5 DEF RNAccept
<1>8. Decoded(deUOp, i)  BY <1>7 DEF NoRUOp
<1>9. rnInstr'[i] = de[i]  BY <1>1, <1>5 DEF ExecCycle, FrontStep
<1>10. WellFetched(de[i])  BY <1>1, <1>6, <1>8 DEF FrontInv
<1>11. QED  BY <1>4, <1>5, <1>6, <1>7, <1>8, <1>9, <1>10

LEMMA InstrEnters ==
  ASSUME CoInv, NEW F, NEW R, NEW pd, NEW keep, NEW n, Tick(F, R, pd, keep, n),
         NEW q \in Nat, ~(q < Pos(lastIndex)'), q < InFlight'
  PROVE  LET i == q - Pos(lastIndex)'
         IN  /\ i \in Port /\ Pos(lastIndex)' + i = q /\ rnUOp'[i].valid /\ ~branch'.taken
             /\ Fetch(q)' = de[i] /\ FuAt(q)' = rnUOp'[i].fu /\ MispredAt(q)' = rnUOp'[i].mispred
             /\ Uops'[q].rd = rnUOp'[i].rd /\ Uops'[q].tag = rnUOp'[i].tagDst
             /\ Uops'[q].src = rnUOp'[i].tag /\ Avail(q)' = rnUOp'[i].avail /\ ~Produced(q)'
<1> DEFINE i == q - Pos(lastIndex)'
<1>1. MapInv' /\ WindowInv' /\ CycleOf(F, n) /\ WindowInv  BY TickIsCycle
<1>2. branch'.taken => InFlight' = Pos(lastIndex)'  BY DEF InFlight
<1>3. ~branch'.taken  BY <1>2
<1>4. InFlight' = Pos(counterSqN)' /\ Pos(lastIndex)' \in Nat
  BY <1>1, <1>3, FlightAfter DEF InFlight
<1>5. PICK l \in 0 .. Width :
        /\ \A j \in Port : rnUOp'[j].valid <=> j < l
        /\ Pos(counterSqN)' = Pos(lastIndex)' + l
  BY <1>1 DEF WindowInv, RenamedInOrder
<1>6. i \in Port /\ i < l /\ Pos(lastIndex)' + i = q
  BY <1>4, <1>5, WidthType, SMT DEF Port
<1>7. rnUOp'[i].valid  BY <1>5, <1>6
<1>8. RnPort(q)' = i  BY DEF RnPort
<1>9. /\ Fetch(q)' = rnInstr'[i] /\ FuAt(q)' = rnUOp'[i].fu /\ MispredAt(q)' = rnUOp'[i].mispred
      /\ Avail(q)' = rnUOp'[i].avail /\ ~Produced(q)'
  BY <1>8 DEF Fetch, FuAt, MispredAt, Avail, Produced
<1>10. Uops'[q] = [rd |-> rnUOp'[i].rd, tag |-> rnUOp'[i].tagDst, src |-> rnUOp'[i].tag]
  BY <1>8 DEF Uops
<1> HIDE DEF i
<1>11. Uops'[q].rd = rnUOp'[i].rd /\ Uops'[q].tag = rnUOp'[i].tagDst /\ Uops'[q].src = rnUOp'[i].tag
  BY <1>10
<1>12. rnInstr'[i] = de[i]  BY <1>6, <1>7, RenamedFrom
<1>13. QED  BY <1>3, <1>6, <1>7, <1>9, <1>11, <1>12 DEF i

\* No instruction is new if rename does not take any, and those of decode are if it does.
LEMMA RenameTakes ==
  ASSUME CoInv, NEW F, NEW R, NEW pd, NEW keep, NEW n, Tick(F, R, pd, keep, n)
  PROVE  /\ ~branch.taken /\ RNTakes => \A i \in Port : rnUOp'[i].valid <=> de[i].valid
         /\ branch.taken \/ ~RNTakes => \A i \in Port : ~rnUOp'[i].valid
<1>1. CASE ~branch.taken /\ RNTakes
  <2>1. ExecCycle(F, R, pd, keep) /\ prog \in Programs /\ FrontInv
    BY DEF Tick, CoInv, CoTypeOK
  <2>2. RNAccept(mispredFlush, deUOp, comUOp, F)
    BY <1>1, <2>1 DEF ExecCycle, RedirectCycle, RenameOrIdle
  <2>3. \A i \in Port : Decoded(deUOp, i) <=> de[i].valid  BY <2>1, DecodedPorts
  <2>4. ASSUME NEW i \in Port PROVE rnUOp'[i].valid <=> de[i].valid
    <3>1. rnUOp'[i] = IF Decoded(deUOp, i) THEN Renamed(deUOp, i, WrittenBack(F)) ELSE NoRUOp
      BY <2>2 DEF RNAccept
    <3>2. Renamed(deUOp, i, WrittenBack(F)).valid /\ ~NoRUOp.valid
      BY DEF Renamed, NoRUOp
    <3> QED  BY <2>3, <3>1, <3>2
  <2> QED  BY <1>1, <2>4
<1>2. CASE branch.taken \/ ~RNTakes
  <2>1. \A i \in Port : ~rnUOp'[i].valid  BY <1>2, RenamedFrom
  <2> QED  BY <1>2, <2>1
<1>3. QED  BY <1>1, <1>2

-----------------------------------------------------------------------------
(* Decode, the uops, and how they complete. *)

\* In a cycle without a redirect, what is decoded comes from fetchPC on.
LEMMA FetchedNext ==
  ASSUME CoInv, NEW F, NEW R, NEW pd, NEW keep, NEW n, Tick(F, R, pd, keep, n),
         ~branch.taken, FrontReady
  PROVE  /\ de' = pd /\ pd \in [Port -> Fetched]
         /\ \A i \in Port : pd[i].valid =>
              WellFetched(pd[i]) /\ Follows(pd, i) /\ (i = 0 => pd[i].pc = fetchPC)
         /\ \A i \in Port : pd[i].valid /\ (i + 1 < Width => ~pd[i + 1].valid) =>
              fetchPC' = pd[i].predPC
         /\ ~pd[0].valid => fetchPC' = fetchPC
<1>1. pd \in Bundles /\ prog \in Programs /\ fetchPC \in PCs(prog) /\ FrontStep(pd)
  BY DEF Tick, CoInv, CoTypeOK, ExecCycle
<1>2. /\ pd \in [Port -> Fetched]
      /\ \A i \in Port : pd[i].valid =>
           WellFetched(pd[i]) /\ Follows(pd, i) /\ (i = 0 => pd[i].pc = fetchPC)
  BY <1>1, BundlesChain
<1>3. de' = pd /\ fetchPC' = IF pd[0].valid THEN pd[Last(pd)].predPC ELSE fetchPC
  BY <1>1 DEF FrontStep
<1>4. ASSUME NEW i \in Port, pd[i].valid, i + 1 < Width => ~pd[i + 1].valid
      PROVE  fetchPC' = pd[i].predPC
  <2>1. \A k, j \in Port : pd[k].valid /\ j < k => pd[j].valid  BY <1>2 DEF Follows
  <2>2. ASSUME NEW j \in Port, j > i, pd[j].valid  PROVE FALSE
    <3>1. i + 1 \in Port /\ i + 1 < Width /\ (i + 1 = j \/ i + 1 < j)
      BY <2>2, WidthType, SMT DEF Port
    <3>2. PICK k \in Port : k = i + 1  BY <3>1
    <3>3. pd[k].valid  BY <2>1, <2>2, <3>1, <3>2
    <3> QED  BY <1>4, <3>1, <3>2, <3>3
  <2>3. 0 \in Port /\ (0 = i \/ 0 < i)  BY WidthType, SMT DEF Port
  <2>4. pd[0].valid  BY <1>4, <2>1, <2>3
  <2>5. \A j \in Port : pd[j].valid /\ (\A l \in Port : l > j => ~pd[l].valid) => j = i
    <3> SUFFICES ASSUME NEW j \in Port, pd[j].valid, \A l \in Port : l > j => ~pd[l].valid
                 PROVE  j = i
      OBVIOUS
    <3>1. ~(j > i) /\ ~(i > j)  BY <1>4, <2>2
    <3> QED  BY <3>1, SMT DEF Port
  <2>6. \A j \in Port : j > i => ~pd[j].valid  BY <2>2
  <2>7. Last(pd) = i  BY <1>4, <2>5, <2>6 DEF Last
  <2> QED  BY <1>3, <2>4, <2>7
<1>5. QED  BY <1>2, <1>3, <1>4

\* Programs do not change.
LEMMA InstrStays ==
  ASSUME prog' = prog
  PROVE  /\ \A d : WellFetched(d)' = WellFetched(d) /\ IsBranch(d)' = IsBranch(d)
                   /\ InstrOf(d)' = InstrOf(d) /\ DecodedUOp(d)' = DecodedUOp(d)
                   /\ CompletesWith(d)' = CompletesWith(d)
         /\ \A d, v : Result(d, v)' = Result(d, v)
<1>1. \A d : InstrOf(d)' = InstrOf(d)  BY DEF InstrOf
<1>2. \A d : IsBranch(d)' = IsBranch(d)  BY <1>1 DEF IsBranch
<1>3. \A d : WellFetched(d)' = WellFetched(d)  BY <1>2 DEF WellFetched
<1>4. \A d : DecodedUOp(d)' = DecodedUOp(d)  BY <1>1, <1>2 DEF DecodedUOp
<1>5. \A d : CompletesWith(d)' = CompletesWith(d)  BY <1>1, <1>2 DEF CompletesWith
<1>6. \A d, v : Result(d, v)' = Result(d, v)  BY <1>1 DEF Result
<1>7. QED  BY <1>1, <1>2, <1>3, <1>4, <1>5, <1>6

\* What is decoded stays a piece of the predicted path.
LEMMA FrontInvStep ==
  ASSUME CoInv, NEW F, NEW R, NEW pd, NEW keep, NEW n, Tick(F, R, pd, keep, n)
  PROVE  FrontInv'
<1>1. FrontStep(pd) /\ prog' = prog  BY TickIsCycle DEF Tick, ExecCycle
<1>2. CASE branch.taken
  <2>1. \A i \in Port : ~de'[i].valid  BY <1>1, <1>2 DEF FrontStep, NoFetch
  <2> QED  BY <2>1 DEF FrontInv
<1>3. CASE ~branch.taken /\ FrontReady
  <2>1. /\ de' = pd
        /\ \A i \in Port : pd[i].valid => WellFetched(pd[i]) /\ Follows(pd, i)
        /\ \A i \in Port : pd[i].valid /\ (i + 1 < Width => ~pd[i + 1].valid) =>
              fetchPC' = pd[i].predPC
    BY <1>3, FetchedNext
  <2>2. \A i \in Port : pd[i].valid => WellFetched(pd[i])'
    BY <1>1, <2>1, InstrStays
  <2>3. \A i \in Port : pd[i].valid => WellFetched(pd[i])' /\ Follows(pd, i)
    BY <2>1, <2>2
  <2>4. \A i \in Port : (de[i].valid => WellFetched(de[i]) /\ Follows(de, i))'
    <3> SUFFICES ASSUME NEW i \in Port, de'[i].valid
                 PROVE  WellFetched(de[i])' /\ Follows(de, i)'
      OBVIOUS
    <3>1. pd[i].valid /\ WellFetched(pd[i]) /\ Follows(pd, i)  BY <2>1
    <3>2. WellFetched(de[i])'  BY <1>1, <2>1, <3>1 DEF WellFetched, IsBranch, InstrOf
    <3>3. Follows(de, i)'  BY <2>1, <3>1 DEF Follows
    <3> QED  BY <3>2, <3>3
  <2> QED  BY <2>1, <2>4 DEF FrontInv
<1>4. CASE ~branch.taken /\ ~FrontReady
  <2>1. de' = de /\ fetchPC' = fetchPC  BY <1>1, <1>4 DEF FrontStep
  <2>2. FrontInv  BY DEF CoInv
  <2> QED  BY <1>1, <2>1, <2>2 DEF FrontInv, WellFetched, IsBranch, InstrOf, Follows
<1>5. QED  BY <1>2, <1>3, <1>4

\* The same of an instruction that is found at a place of the next state.
LEMMA FetchStays ==
  ASSUME prog' = prog, NEW q, NEW d, Fetch(q)' = d
  PROVE  /\ WellFetched(Fetch(q))' = WellFetched(d) /\ IsBranch(Fetch(q))' = IsBranch(d)
         /\ InstrOf(Fetch(q))' = InstrOf(d) /\ DecodedUOp(Fetch(q))' = DecodedUOp(d)
         /\ CompletesWith(Fetch(q))' = CompletesWith(d)
         /\ \A v : Result(Fetch(q), v)' = Result(d, v)
<1>1. InstrOf(Fetch(q))' = InstrOf(d)  BY DEF InstrOf
<1>2. IsBranch(Fetch(q))' = IsBranch(d)  BY <1>1 DEF IsBranch
<1>3. WellFetched(Fetch(q))' = WellFetched(d)  BY <1>2 DEF WellFetched
<1>4. DecodedUOp(Fetch(q))' = DecodedUOp(d)  BY <1>1, <1>2 DEF DecodedUOp
<1>5. CompletesWith(Fetch(q))' = CompletesWith(d)  BY <1>1, <1>2 DEF CompletesWith
<1>6. \A v : Result(Fetch(q), v)' = Result(d, v)  BY <1>1 DEF Result
<1>7. QED  BY <1>1, <1>2, <1>3, <1>4, <1>5, <1>6

\* What rename makes of a decoded instruction.
LEMMA RenamedUop ==
  ASSUME CoInv, NEW F, NEW R, NEW pd, NEW keep, NEW n, Tick(F, R, pd, keep, n),
         NEW i \in Port, rnUOp'[i].valid
  PROVE  LET u == DecodedUOp(de[i])
         IN  /\ rnUOp'[i].rd = u.rd /\ rnUOp'[i].mispred = u.mispred
             /\ rnUOp'[i].tag = LookupSpecTag(i, u.rs, Issue(deUOp))
             /\ rnUOp'[i].fu = u.fu \/ (u.fu = "SC" /\ rnUOp'[i].fu = "RN")
             /\ rnUOp'[i].tagDst \in RFTag <=> u.rd # 0 /\ u.fu \in {"INT", "LOAD"}
             /\ rnUOp'[i].tagDst \notin RFTag =>
                  rnUOp'[i].tagDst = (IF rnUOp'[i].fu = "RN" THEN TAG_ONE ELSE TAG_ZERO)
<1> DEFINE u == DecodedUOp(de[i])
<1>1. /\ rnUOp'[i] = Renamed(deUOp, i, WrittenBack(F)) /\ deUOp[i] = u
      /\ WellFetched(de[i]) /\ ~Stall(deUOp)
  BY RenamedFrom
<1>2. u.fu \in {"RN", "TRAP", "LOAD", "SC", "INT"}
  BY <1>1, DecodedType DEF CoInv, CoTypeOK
<1>3. issueTag[i] \in RFTag \cup {NoTag}
  BY TickIsCycle DEF TypeOK, TBTypeOK
<1> HIDE DEF u
<1>4. /\ rnUOp'[i].rd = u.rd /\ rnUOp'[i].mispred = u.mispred
      /\ rnUOp'[i].tag = LookupSpecTag(i, u.rs, Issue(deUOp))
      /\ rnUOp'[i].fu = (IF ScFails(deUOp, i) THEN "RN" ELSE u.fu)
      /\ rnUOp'[i].tagDst = NewTag(deUOp, i)
  BY <1>1 DEF Renamed
<1>5. ScFails(deUOp, i) => u.fu = "SC"  BY <1>1 DEF ScFails
<1>6. TagNeeded(deUOp[i]) <=> u.rd # 0 /\ u.fu \in {"INT", "LOAD"}
  BY <1>1, <1>2 DEF TagNeeded
<1>7. CASE TagNeeded(deUOp[i])
  <2>1. NewTag(deUOp, i) = issueTag[i]
    <3>1. deUOp[i].fu # "RN" /\ ~ScFails(deUOp, i)  BY <1>7 DEF TagNeeded, ScFails
    <3> QED  BY <1>7, <3>1 DEF NewTag
  <2>2. issueTag[i] # NoTag  BY <1>1, <1>7 DEF Stall
  <2> QED  BY <1>3, <1>4, <1>5, <1>6, <1>7, <2>1, <2>2 DEF u
<1>8. CASE ~TagNeeded(deUOp[i])
  <2>1. NewTag(deUOp, i) = IF rnUOp'[i].fu = "RN" THEN TAG_ONE ELSE TAG_ZERO
    BY <1>1, <1>4, <1>8 DEF NewTag
  <2>2. NewTag(deUOp, i) \notin RFTag  BY <2>1, ImmediatesAreNoRegisters
  <2> QED  BY <1>4, <1>5, <1>6, <1>8, <2>1, <2>2 DEF u
<1>9. QED  BY <1>7, <1>8

\* The uop of every instruction is still the one decode makes of it.
LEMMA UopsInvStep ==
  ASSUME CoInv, NEW F, NEW R, NEW pd, NEW keep, NEW n, Tick(F, R, pd, keep, n)
  PROVE  UopsInv'
<1>1. /\ WindowInv /\ WindowInv' /\ RedirectCovers /\ CycleOf(F, n) /\ prog' = prog /\ prog \in Programs
      /\ n \in Nat
  BY TickIsCycle
<1> SUFFICES ASSUME NEW q \in Nat, q < InFlight'
             PROVE  UopOf(q)'
  <2>1. PICK l \in Nat : l = InFlight'  BY <1>1, FlightAfter
  <2>2. \A q \in 0 .. l - 1 : q \in Nat /\ q < l  BY SMT
  <2> QED  BY <2>1, <2>2 DEF UopsInv
<1>2. CASE q < Pos(lastIndex)'
  <2> DEFINE p == q + n
  <2>1. /\ p \in Nat /\ p \in 0 .. InFlight - 1
        /\ Fetch(q)' = Fetch(p) /\ FuAt(q)' = FuAt(p) /\ (MispredAt(q)' => MispredAt(p))
    BY <1>2, InstrMoves
  <2>2. Uops'[q].rd = Uops[p].rd /\ Uops'[q].tag = Uops[p].tag
    BY <1>1, <1>2, UopsMove
  <2>3. UopOf(p)  BY <2>1 DEF CoInv, UopsInv
  <2> HIDE DEF p
  <2>4. PICK d : d = Fetch(p)  OBVIOUS
  <2>5. /\ WellFetched(Fetch(q))' = WellFetched(d) /\ IsBranch(Fetch(q))' = IsBranch(d)
        /\ DecodedUOp(Fetch(q))' = DecodedUOp(d)
    BY <1>1, <2>1, <2>4, FetchStays
  <2> QED  BY <1>2, <2>1, <2>2, <2>3, <2>4, <2>5 DEF UopOf
<1>3. CASE ~(q < Pos(lastIndex)')
  <2>1. PICK i \in Port :
          /\ rnUOp'[i].valid /\ Fetch(q)' = de[i]
          /\ FuAt(q)' = rnUOp'[i].fu /\ MispredAt(q)' = rnUOp'[i].mispred
          /\ Uops'[q].rd = rnUOp'[i].rd /\ Uops'[q].tag = rnUOp'[i].tagDst
    BY <1>3, InstrEnters
  <2>2. WellFetched(de[i])  BY <2>1, RenamedFrom
  <2>3. DecodedUOp(de[i]).mispred = IsBranch(de[i])  BY <1>1, <2>2, DecodedType
  <2>4. PICK d : d = de[i]  OBVIOUS
  <2>5. /\ WellFetched(Fetch(q))' = WellFetched(d) /\ IsBranch(Fetch(q))' = IsBranch(d)
        /\ DecodedUOp(Fetch(q))' = DecodedUOp(d)
    BY <1>1, <2>1, <2>4, FetchStays
  <2>6. /\ rnUOp'[i].rd = DecodedUOp(d).rd /\ rnUOp'[i].mispred = DecodedUOp(d).mispred
        /\ rnUOp'[i].fu = DecodedUOp(d).fu \/ (DecodedUOp(d).fu = "SC" /\ rnUOp'[i].fu = "RN")
        /\ rnUOp'[i].tagDst \in RFTag <=> DecodedUOp(d).rd # 0 /\ DecodedUOp(d).fu \in {"INT", "LOAD"}
        /\ rnUOp'[i].tagDst \notin RFTag =>
             rnUOp'[i].tagDst = (IF rnUOp'[i].fu = "RN" THEN TAG_ONE ELSE TAG_ZERO)
    BY <2>1, <2>4, RenamedUop
  <2> QED  BY <2>1, <2>2, <2>3, <2>4, <2>5, <2>6 DEF UopOf
<1>4. QED  BY <1>2, <1>3


\* The unit of an instruction tells what it is.
LEMMA DecodedUnit ==
  ASSUME prog \in Programs, NEW d, WellFetched(d)
  PROVE  LET u == DecodedUOp(d)
         IN  /\ u.fu = "RN" <=> ~d.irq /\ InstrOf(d).op = "LI"
             /\ u.fu = "TRAP" <=> d.irq \/ InstrOf(d).op = "ECALL"
             /\ u.fu = "SC" <=> ~d.irq /\ InstrOf(d).op = "SC"
             /\ u.fu = "LOAD" <=> ~d.irq /\ InstrOf(d).op = "LR"
             /\ d.irq \in BOOLEAN /\ InstrOf(d).op \in Op
             /\ ~d.irq => u.rd = InstrOf(d).rd /\ u.rs = InstrOf(d).rs
             /\ d.irq => u.rd = 0 /\ u.rs = 0
             /\ InstrOf(d).op = "ECALL" => u.rd = 0
<1>1. InstrOf(d) \in Instr /\ d.irq \in BOOLEAN /\ (InstrOf(d).op = "ECALL" => InstrOf(d).rd = 0)
  BY InstrType DEF WellFetched, InstrOf, Fetched
<1>2. InstrOf(d).op \in Op  BY <1>1 DEF Instr
<1> DEFINE op == InstrOf(d).op
           fu == CASE op = "LI" -> "RN" [] op = "ECALL" -> "TRAP"
                   [] op = "LR" -> "LOAD" [] op = "SC" -> "SC" [] OTHER -> "INT"
<1>3. CASE d.irq
  <2>1. DecodedUOp(d) = [fu |-> "TRAP", rd |-> 0, rs |-> 0, mispred |-> FALSE]
    BY <1>3 DEF DecodedUOp
  <2>2. DecodedUOp(d).fu = "TRAP" /\ DecodedUOp(d).rd = 0 /\ DecodedUOp(d).rs = 0  BY <2>1
  <2> QED  BY <1>1, <1>2, <1>3, <2>2
<1>4. CASE ~d.irq
  <2>1. DecodedUOp(d) = [fu |-> fu, rd |-> InstrOf(d).rd, rs |-> InstrOf(d).rs,
                         mispred |-> IsBranch(d)]
    BY <1>4 DEF DecodedUOp
  <2>2. /\ fu = "RN" <=> op = "LI"
        /\ fu = "TRAP" <=> op = "ECALL"
        /\ fu = "SC" <=> op = "SC"
        /\ fu = "LOAD" <=> op = "LR"
    OBVIOUS
  <2> HIDE DEF fu, op
  <2>3. DecodedUOp(d).fu = fu /\ DecodedUOp(d).rd = InstrOf(d).rd /\ DecodedUOp(d).rs = InstrOf(d).rs
    BY <2>1
  <2> QED  BY <1>1, <1>2, <1>4, <2>2, <2>3 DEF op
<1>5. QED  BY <1>1, <1>3, <1>4

\* Every instruction completes, or has completed, as it may.
LEMMA FlagsInvStep ==
  ASSUME CoInv, NEW F, NEW R, NEW pd, NEW keep, NEW n, Tick(F, R, pd, keep, n)
  PROVE  FlagsInv'
<1>1. /\ WindowInv /\ WindowInv' /\ RedirectCovers /\ CycleOf(F, n) /\ prog' = prog /\ prog \in Programs
      /\ n \in Nat /\ F \in ExecCompletions
  BY TickIsCycle DEF Tick
<1>2. \A d : "NX" \notin CompletesWith(d)  BY DEF CompletesWith
<1> SUFFICES ASSUME NEW q \in Nat, q < Pos(lastIndex)', NEW k, k = Slot(q)'
             PROVE  /\ flags'[k] \in CompletesWith(Fetch(q))' \/
                         (flags'[k] = "NX" /\ FuAt(q)' \notin {"RN", "TRAP"})
                    /\ flags'[k] = "NX" /\ IsBranch(Fetch(q))' => MispredAt(q)'
                    /\ ~backend'[k].early
  <2>1. PICK l \in Nat : l = Pos(lastIndex)'  BY <1>1, FlightAfter
  <2>2. \A q \in 0 .. l - 1 : q \in Nat /\ q < l  BY SMT
  <2> QED  BY <2>1, <2>2 DEF FlagsInv
<1> DEFINE p == q + n
           s == Plus(baseIndex, p)
<1>3. /\ p \in Nat /\ p \in 0 .. InFlight - 1 /\ k = Slot(p)
      /\ Fetch(q)' = Fetch(p) /\ FuAt(q)' = FuAt(p)
      /\ MispredAt(p) /\ ~MispredAt(q)' =>
           p < Pos(lastIndex) /\ s \in intRes /\ ~Squashed(s, branch)
  BY InstrMoves
<1>4. /\ p < Pos(lastIndex) =>
           /\ s \in SqNs /\ InROB(s) /\ Pos(s) = p /\ ~Squashed(s, branch)
           /\ Answers(F, s) = {} => flags'[k] = flags[k]
           /\ Answers(F, s) # {} => flags'[k] = (CHOOSE u \in Answers(F, s) : TRUE).flags
      /\ ~(p < Pos(lastIndex)) => flags'[k] = InitialFlags(FuAt(p))
      /\ ~backend'[k].early
  BY <1>3, FlagsMove
<1> HIDE DEF p, s
<1>5. PICK d : d = Fetch(p)  OBVIOUS
<1>6. CompletesWith(Fetch(q))' = CompletesWith(d) /\ IsBranch(Fetch(q))' = IsBranch(d)
  BY <1>1, <1>3, <1>5, FetchStays
<1>7. CASE p < Pos(lastIndex) /\ Answers(F, s) = {}
  <2>1. p \in 0 .. Pos(lastIndex) - 1  BY <1>1, <1>3, <1>7, FlightType, SMT
  <2>2. /\ flags[k] \in CompletesWith(d) \/ (flags[k] = "NX" /\ FuAt(p) \notin {"RN", "TRAP"})
        /\ flags[k] = "NX" /\ IsBranch(d) => MispredAt(p)
    BY <1>3, <1>5, <2>1 DEF CoInv, FlagsInv
  <2>3. s \notin intRes
    <3> SUFFICES ASSUME s \in intRes  PROVE FALSE
      OBVIOUS
    <3>1. BranchReport(s) \in F  BY <1>1 DEF ExecCompletions
    <3>2. BranchReport(s) \in Answers(F, s)  BY <3>1 DEF Answers, BranchReport
    <3> QED  BY <1>7, <3>2
  <2> QED  BY <1>3, <1>4, <1>6, <1>7, <2>2, <2>3
<1>8. CASE p < Pos(lastIndex) /\ Answers(F, s) # {}
  <2>1. PICK u : u = CHOOSE v \in Answers(F, s) : TRUE  OBVIOUS
  <2>2. u \in Answers(F, s)  BY <1>8, <2>1
  <2>3. u \in F /\ u.sqN = s  BY <2>2 DEF Answers
  <2>4. Waiting(s) /\ u.flags \in CompletesWith(SlotOf(s))  BY <1>1, <2>3, Reported
  <2>5. SlotOf(s) = d  BY <1>4, <1>5, <1>8, <2>4, WaitingUop
  <2>6. flags'[k] = u.flags  BY <1>4, <1>8, <2>1
  <2> QED  BY <1>2, <1>4, <1>6, <2>4, <2>5, <2>6
<1>9. CASE ~(p < Pos(lastIndex))
  <2>1. UopOf(p)  BY <1>3 DEF CoInv, UopsInv
  <2>2. /\ WellFetched(d) /\ DecodedUOp(d).mispred = MispredAt(p)
        /\ FuAt(p) = DecodedUOp(d).fu \/ (DecodedUOp(d).fu = "SC" /\ FuAt(p) = "RN")
    BY <1>5, <1>9, <2>1 DEF UopOf
  <2>3. DecodedUOp(d).mispred = IsBranch(d)  BY <1>1, <2>2, DecodedType
  <2>4. IsBranch(d) => MispredAt(q)'  BY <1>3, <1>9, <2>2, <2>3
  <2>5. flags'[k] = InitialFlags(FuAt(p))  BY <1>4, <1>9
  <2>6. /\ FuAt(p) = "RN" => ~d.irq /\ InstrOf(d).op \in {"LI", "SC"}
        /\ FuAt(p) = "TRAP" => d.irq \/ InstrOf(d).op = "ECALL"
    BY <1>1, <2>2, DecodedUnit
  <2>7. /\ FuAt(p) = "RN" => CompletesWith(d) = {"NONE"}
        /\ FuAt(p) = "TRAP" => CompletesWith(d) = {"TRAP"}
    BY <2>6 DEF CompletesWith, IsBranch
  <2> QED  BY <1>3, <1>4, <1>6, <2>4, <2>5, <2>7 DEF InitialFlags
<1>10. QED  BY <1>7, <1>8, <1>9


LEMMA Places ==
  WindowInv => \A s : InROB(s) =>
    Pos(s) < Pos(lastIndex) /\ s = Plus(baseIndex, Pos(s)) /\ Slot(Pos(s)) = RobIdx(s)
  BY PosOfSlot
LEMMA PlacesAfter ==
  WindowInv' => (\A s : InROB(s) =>
    Pos(s) < Pos(lastIndex) /\ s = Plus(baseIndex, Pos(s)) /\ Slot(Pos(s)) = RobIdx(s))'
  BY Places, PTL

\* A uop that waits and is not squashed stays where it is.
LEMMA WaitingMoves ==
  ASSUME CoInv, NEW F, NEW R, NEW pd, NEW keep, NEW n, Tick(F, R, pd, keep, n),
         NEW s, Waiting(s), ~Squashed(s, branch), NEW q, q = Pos(s) - n
  PROVE  /\ q \in Nat /\ q + n = Pos(s) /\ q < Pos(lastIndex)' /\ InROB(s)' /\ Pos(s)' = q
         /\ s = Plus(baseIndex', q) /\ Slot(q)' = RobIdx(s) /\ Slot(Pos(s)) = RobIdx(s)
         /\ s = Plus(baseIndex, Pos(s))
         /\ SlotOf(s)' = SlotOf(s)
<1>1. /\ WindowInv /\ WindowInv' /\ RedirectCovers /\ CycleOf(F, n) /\ TypeOK
  BY TickIsCycle
<1>2. /\ s \in SqNs /\ Pos(s) \in Nat /\ Pos(s) < Pos(lastIndex) /\ s = Plus(baseIndex, Pos(s))
      /\ Slot(Pos(s)) = RobIdx(s) /\ Fetch(Pos(s)) = SlotOf(s)
  BY WaitingUop
<1>3. n \in 0 .. Width /\ Advances(n) /\ LastIs(lastIndex')  BY <1>1 DEF CycleOf, RobMoves
<1>4. n <= Pos(s) /\ Pos(s) < Pos(lastIndex')
  BY <1>1, <1>2, <1>3, WaitingStays, CoSimAssumption
<1>5. n \in Nat /\ q \in Nat /\ q + n = Pos(s)  BY <1>2, <1>3, <1>4, SMT
<1>6. InROB(s)'  BY <1>1, <1>2, <1>3, <1>4, InROBAfter
<1>7. Diff(s, baseIndex') = Pos(s) - n
  <2>1. n - 1 <= Pos(s)  BY <1>2, <1>4, <1>5, SMT
  <2> QED  BY <1>1, <1>2, <1>3, <2>1, PosShift
<1>8. Pos(s)' = q  BY <1>7 DEF Pos
<1>9. /\ Pos(s)' < Pos(lastIndex)' /\ s = Plus(baseIndex', Pos(s)') /\ Slot(Pos(s))' = RobIdx(s)
  BY <1>1, <1>6, PlacesAfter
<1>10. Slot(q)' = RobIdx(s) /\ Fetch(q)' = SlotOf(s)
  <2>1. q < Pos(lastIndex)'  BY <1>8, <1>9
  <2>2. Slot(q)' = Slot(q + n) /\ Fetch(q)' = Fetch(q + n)  BY <1>5, <2>1, InstrMoves
  <2> QED  BY <1>2, <1>5, <2>2
<1>11. SlotOf(s)' = SlotOf(s)
  <2>1. Fetch(q)' = slot'[Slot(q)']  BY <1>8, <1>9 DEF Fetch
  <2> QED  BY <1>10, <2>1 DEF SlotOf
<1>12. QED  BY <1>2, <1>5, <1>6, <1>8, <1>9, <1>10, <1>11

\* A redirect is raised by a branch that waits and has not been resolved.
LEMMA RaisedBy ==
  ASSUME CoInv, NEW F, NEW R, NEW pd, NEW keep, NEW n, Tick(F, R, pd, keep, n), NEW s \in intRes'
  PROVE  /\ Waiting(s) /\ MayExecute(s) /\ Unit(s).avail /\ Unit(s).mispred /\ s \notin intRes
         /\ ~Squashed(s, branch) /\ Mispredicts(s) /\ IsBranch(SlotOf(s))
         /\ Answers(F, s) = {}
<1>1. F \in ExecCompletions /\ ExecRedirect(F, keep)  BY DEF Tick, ExecCycle
<1>2. s \in BranchCandidates /\ Mispredicts(s)  BY <1>1 DEF ExecRedirect
<1>3. MayExecute(s) /\ Unit(s).mispred /\ s \notin intRes /\ ~Squashed(s, branch)
  BY <1>2 DEF BranchCandidates
<1>4. Waiting(s) /\ Unit(s).avail  BY <1>3 DEF MayExecute
<1>5. IsBranch(SlotOf(s))  BY <1>3, <1>4, WaitingUop
<1>6. Answers(F, s) = {}
  <2> SUFFICES ASSUME NEW u \in Answers(F, s)  PROVE FALSE
    OBVIOUS
  <2>1. u \in F /\ u.sqN = s  BY DEF Answers
  <2> QED  BY <1>1, <1>2, <1>3, <1>5, <2>1, Reported
<1>7. QED  BY <1>2, <1>3, <1>4, <1>5, <1>6

LEMMA RaisedInTimeStep ==
  ASSUME CoInv, NEW F, NEW R, NEW pd, NEW keep, NEW n, Tick(F, R, pd, keep, n)
  PROVE  RaisedInTime'
<1> SUFFICES ASSUME NEW s \in intRes'
             PROVE  Waiting(s)' /\ Unit(s)'.avail /\ IsBranch(SlotOf(s))'
  BY DEF RaisedInTime
<1>0. PICK q : q = Pos(s) - n  OBVIOUS
<1>1. /\ WindowInv /\ F \in AnyCompletions /\ BackendStep(F) /\ EnqueueStep(rnUOp, F, branch)
      /\ prog' = prog
  BY TickIsCycle
<1>2. /\ Waiting(s) /\ Unit(s).avail /\ ~Squashed(s, branch) /\ IsBranch(SlotOf(s))
      /\ Answers(F, s) = {}
  BY RaisedBy
<1>3. /\ q \in Nat /\ q + n = Pos(s) /\ q < Pos(lastIndex)' /\ InROB(s)'
      /\ s = Plus(baseIndex, Pos(s)) /\ Slot(Pos(s)) = RobIdx(s) /\ SlotOf(s)' = SlotOf(s)
  BY <1>0, <1>2, WaitingMoves
<1>4. s \in SqNs /\ InROB(s) /\ flags[RobIdx(s)] = "NX" /\ Pos(s) < Pos(lastIndex)
  BY <1>2, WaitingUop DEF Waiting
<1>5. flags'[RobIdx(s)] = "NX"
  <2>1. LET p == q + n
        IN  p < Pos(lastIndex) /\ Answers(F, Plus(baseIndex, p)) = {} =>
              flags'[Slot(p)] = flags[Slot(p)]
    BY <1>3, FlagsMove
  <2> QED  BY <1>2, <1>3, <1>4, <2>1
<1>6. Waiting(s)'  BY <1>3, <1>5 DEF Waiting
<1>7. Unit(s)'.avail  BY <1>1, <1>2, <1>4, SlotKept DEF Unit
<1>8. IsBranch(SlotOf(s))' = IsBranch(SlotOf(s))
  BY <1>1, <1>3 DEF IsBranch, InstrOf
<1>9. QED  BY <1>2, <1>6, <1>7, <1>8

-----------------------------------------------------------------------------
(* Operands. *)

\* A cycle replays or does not, and a trap is redirected.
LEMMA TickReplays ==
  ASSUME CoInv, NEW F, NEW R, NEW pd, NEW keep, NEW n, Tick(F, R, pd, keep, n)
  PROVE  /\ NoReplayIn \/ ReplayIn(Replaying(branch))
         /\ trapUOp.valid => branch'.flush
         /\ branch.flush => InFlight' = 0
         /\ Pos(lastIndex)' \in Nat /\ Pos(lastIndex)' <= InFlight' /\ InFlight' \in Nat
<1>1. /\ MapInv /\ WindowInv /\ WindowInv' /\ CycleOf(F, n) /\ F \in AnyCompletions /\ TypeOK
  BY TickIsCycle
<1>2. /\ RedirectCycle(F) \/ ReplayCycle(F) \/ TrapCycle(F) \/ CommitCycle(F)
      /\ RedirectStep(F)
  BY <1>1 DEF CycleOf
<1>3. F \in SUBSET FlagsUOp  BY <1>1, CompletionsType
<1>4. ReplayRange /\ FlushRedirects  BY <1>1, MapParts
<1>5. NoReplayIn \/ ReplayIn(Replaying(branch))  BY <1>1, <1>2, <1>3, <1>4, CycleReplays
<1>6. trapUOp.valid => branch'.flush  BY <1>2, FlushStep
<1>7. branch.flush => InFlight' = 0  BY <1>1, <1>4, FlushEmpties
<1>8. Pos(lastIndex)' \in Nat /\ Pos(lastIndex)' <= InFlight' /\ InFlight' \in Nat
  BY <1>1, FlightAfter
<1>9. QED  BY <1>5, <1>6, <1>7, <1>8

\* Every operand is still what the map says at the place of its uop.
LEMMA OperandStep ==
  ASSUME CoInv, NEW F, NEW R, NEW pd, NEW keep, NEW n, Tick(F, R, pd, keep, n),
         ~trapUOp'.valid, ~branch'.flush,
         NEW q \in Nat, q < InFlight', NEW r, r = DecodedUOp(Fetch(q))'.rs
  PROVE  IF r = 0 THEN Uops'[q].src = TAG_ZERO ELSE MapsTo(Uops', q, r, Base'[r], Uops'[q].src)
<1>1. /\ MapInv /\ WindowInv /\ WindowInv' /\ RedirectCovers /\ CycleOf(F, n) /\ TypeOK
      /\ prog' = prog /\ prog \in Programs /\ n \in Nat
  BY TickIsCycle
<1>2. ~trapUOp.valid /\ ~branch.flush
  BY TickReplays, SMT
<1>3. PICK used \in SUBSET Port : RenameMoves(used)  BY DEF Tick
<1>4. ReplayAlone /\ SpecMap /\ ZeroIsConstant  BY <1>1, MapParts
<1>5. CASE q < Pos(lastIndex)'
  <2>1. /\ Uops'[q].src = Uops[q + n].src /\ q + n \in 0 .. InFlight - 1 /\ Fetch(q)' = Fetch(q + n)
    BY <1>1, <1>5, UopsMove, InstrMoves
  <2>2. PICK d : d = Fetch(q + n)  OBVIOUS
  <2>3. DecodedUOp(Fetch(q))' = DecodedUOp(d)  BY <1>1, <2>1, <2>2, FetchStays
  <2>4. r = DecodedUOp(d).rs  BY <2>3
  <2>5. IF r = 0 THEN Uops[q + n].src = TAG_ZERO
        ELSE MapsTo(Uops, q + n, r, Base[r], Uops[q + n].src)
    BY <1>2, <2>1, <2>2, <2>4 DEF CoInv, OperandInv
  <2>6. r # 0 => r \in Reg \ {0}
    <3>1. UopOf(q + n)  BY <2>1 DEF CoInv, UopsInv
    <3>2. WellFetched(d)  BY <2>2, <3>1 DEF UopOf
    <3> QED  BY <1>1, <2>4, <3>2, DecodedType
  <2>7. q <= Pos(lastIndex)'  BY <1>5, TickReplays, SMT
  <2>8. CASE r = 0  BY <2>1, <2>5, <2>8
  <2>9. CASE r # 0
    <3>1. MapsTo(Uops, q + n, r, Base[r], Uops[q + n].src) /\ r \in Reg \ {0}  BY <2>5, <2>6, <2>9
    <3>2. MapsTo(Uops', q, r, Base'[r], Uops[q + n].src)
      BY <1>1, <1>2, <1>3, <2>7, <3>1, MapMoves
    <3> QED  BY <2>1, <2>9, <3>2
  <2> QED  BY <2>8, <2>9
<1>6. CASE ~(q < Pos(lastIndex)')
  <2> DEFINE p == Pos(lastIndex)'
             i == q - p
             u == Uops'
             w == Issue(deUOp)
  <2>1. /\ i \in Port /\ p + i = q /\ rnUOp'[i].valid /\ ~branch'.taken
        /\ Fetch(q)' = de[i] /\ u[q].src = rnUOp'[i].tag
    BY <1>6, InstrEnters
  <2>2. rnUOp'[i].tag = LookupSpecTag(i, DecodedUOp(de[i]).rs, w)
    BY <2>1, RenamedUop
  <2>3. PICK d : d = de[i]  OBVIOUS
  <2>4. DecodedUOp(Fetch(q))' = DecodedUOp(d)  BY <1>1, <2>1, <2>3, FetchStays
  <2>5. /\ WellFetched(d) /\ ~branch.taken /\ RNAccept(mispredFlush, deUOp, comUOp, F)
        /\ deUOp \in DecodedUOps(DUOps)
    BY <2>1, <2>3, RenamedFrom
  <2>6. r = DecodedUOp(d).rs /\ r \in Reg  BY <1>1, <2>4, <2>5, DecodedType
  <2>7. u[q].src = LookupSpecTag(i, r, w)  BY <2>1, <2>2, <2>3, <2>6
  <2>8. CASE r = 0
    <3>1. ~ \E j \in Port : OlderIssue(i, j, r, w)  BY <2>8 DEF OlderIssue
    <3>2. LookupSpecTag(i, r, w) = specTag[r]  BY <3>1 DEF LookupSpecTag
    <3> QED  BY <1>4, <2>7, <2>8, <3>2 DEF ZeroIsConstant
  <2>9. CASE r # 0
    <3> DEFINE below == Base'[r]
    <3>1. PICK m \in 0 .. Width : RenamesAs(F, w, m)  BY <1>1, <2>5, AcceptedAs
    <3>2. i < m /\ \A j \in Port : w[j].valid <=> j < m  BY <2>1, <3>1 DEF RenamesAs
    <3>3. NoReplayIn /\ ~mispredFlush
      <4>1. NoReplayIn \/ ReplayIn(Replaying(branch))  BY TickReplays
      <4> QED  BY <1>1, <2>1, <3>1, <3>2, <4>1, NewMeansRename
    <3>4. MapsTo(u, p, r, below, specTag[r])
      <4>1. r \in Reg \ {0}  BY <2>6, <2>9
      <4> QED  BY <1>1, <1>2, <1>3, <1>4, <3>1, <3>3, <4>1, SpecMapRename
    <3>5. \A j \in Port : j < m => u[p + j].rd = w[j].rd /\ u[p + j].tag = w[j].tag
      BY <1>1, <2>1, <3>1, NewPorts
    <3>6. p \in Nat /\ r \in Reg \ {0}  BY <2>6, <2>9, TickReplays
    <3> HIDE DEF p, i, u, below, w
    <3>7. MapsTo(u, p + i, r, below, LookupSpecTag(i, r, w))
      BY <2>1, <3>2, <3>4, <3>5, <3>6, MapsToLookup
    <3>8. MapsTo(u, q, r, below, u[q].src)  BY <2>1, <2>7, <3>7
    <3> QED  BY <2>9, <3>8 DEF u, below
  <2> QED  BY <2>8, <2>9
<1>7. QED  BY <1>5, <1>6

LEMMA OperandInvStep ==
  ASSUME CoInv, NEW F, NEW R, NEW pd, NEW keep, NEW n, Tick(F, R, pd, keep, n)
  PROVE  OperandInv'
<1> SUFFICES ASSUME ~trapUOp'.valid, ~branch'.flush, NEW q \in Nat, q < InFlight',
                    NEW r, r = DecodedUOp(Fetch(q))'.rs
             PROVE  IF r = 0 THEN Uops'[q].src = TAG_ZERO
                    ELSE MapsTo(Uops', q, r, Base'[r], Uops'[q].src)
  <2>1. PICK l \in Nat : l = InFlight'  BY TickReplays
  <2>2. \A q \in 0 .. l - 1 : q \in Nat /\ q < l  BY SMT
  <2> QED  BY <2>1, <2>2 DEF OperandInv
<1> QED  BY OperandStep

-----------------------------------------------------------------------------
(* Register writes. *)

\* What is reported in a cycle, written to both copies of the registers.
LEMMA TickWrites ==
  ASSUME CoInv, NEW F, NEW R, NEW pd, NEW keep, NEW n, Tick(F, R, pd, keep, n)
  PROVE  /\ F \in ExecCompletions /\ R \in Results(F)
         /\ DOMAIN R = {u \in F : u.tagDst \in RFTag}
         /\ \A u \in DOMAIN R : R[u] \in Val
         /\ rf' = WithResults(rf, R) /\ phyRF' = WithResults(phyRF, R)
         /\ rf \in [RFTag -> Val] /\ phyRF \in [RFTag -> Val]
<1>1. F \in ExecCompletions /\ R \in Results(F)  BY DEF Tick
<1>2. R \in [{u \in F : u.tagDst \in RFTag} -> Val]  BY <1>1 DEF Results
<1>3. rf' = WithResults(rf, R)  BY DEF Tick, ExecCycle
<1>4. phyRF' = WithResults(phyRF, R)  BY DEF Tick, LogInstructions, LogResults
<1>5. rf \in [RFTag -> Val] /\ phyRF \in [RFTag -> Val]  BY DEF CoInv, CoTypeOK
<1>6. QED  BY <1>1, <1>2, <1>3, <1>4, <1>5

\* Only registers of uops that have not executed are written.
LEMMA WriterUop ==
  ASSUME CoInv, NEW F, NEW R, NEW pd, NEW keep, NEW n, Tick(F, R, pd, keep, n),
         NEW u \in F, u.tagDst \in RFTag, NEW p, p = Pos(u.sqN)
  PROVE  /\ Waiting(u.sqN) /\ p \in Nat /\ p < Pos(lastIndex) /\ p \in 0 .. InFlight - 1
         /\ p < InFlight /\ u.sqN = Plus(baseIndex, p)
         /\ ~Produced(p) /\ Uops[p].tag = u.tagDst /\ Avail(p)
         /\ Fetch(p) = SlotOf(u.sqN) /\ Operand(u.sqN) = Value(p)
<1>1. F \in ExecCompletions  BY TickWrites
<1>2. Waiting(u.sqN) /\ Unit(u.sqN).avail /\ u.tagDst = Unit(u.sqN).tagDst
  BY <1>1, Reported
<1>3. p < InFlight
  <2>1. p \in 0 .. InFlight - 1  BY <1>2, WaitingUop
  <2>2. WindowInv  BY TickIsCycle
  <2> QED  BY <2>1, <2>2, FlightType, SMT
<1>4. QED  BY <1>2, <1>3, WaitingUop

\* A register that no such uop has keeps its value.
LEMMA NotWritten ==
  ASSUME CoInv, NEW F, NEW R, NEW pd, NEW keep, NEW n, Tick(F, R, pd, keep, n), NEW t,
         t \in RFTag => \A p \in 0 .. InFlight - 1 :
           p < Pos(lastIndex) /\ ~Produced(p) /\ Avail(p) => Uops[p].tag # t
  PROVE  /\ t \in RFTag => rf'[t] = rf[t] /\ phyRF'[t] = phyRF[t]
         /\ ReadTag(rf', t) = ReadTag(rf, t) /\ ReadTag(phyRF', t) = ReadTag(phyRF, t)
<1>1. ASSUME t \in RFTag  PROVE rf'[t] = rf[t] /\ phyRF'[t] = phyRF[t]
  <2>1. \A u \in DOMAIN R : u.tagDst # t
    <3> SUFFICES ASSUME NEW u \in DOMAIN R, u.tagDst = t  PROVE FALSE
      OBVIOUS
    <3>1. u \in F
      <4>1. DOMAIN R = {v \in F : v.tagDst \in RFTag}  BY TickWrites
      <4>2. u \in {v \in F : v.tagDst \in RFTag}  BY <4>1
      <4> QED  BY <4>2
    <3>2. PICK p : p = Pos(u.sqN)  OBVIOUS
    <3>3. /\ p \in 0 .. InFlight - 1 /\ p < Pos(lastIndex) /\ ~Produced(p) /\ Avail(p)
          /\ Uops[p].tag = t
      BY <1>1, <3>1, <3>2, WriterUop
    <3> QED  BY <1>1, <3>3
  <2>2. rf' = WithResults(rf, R) /\ phyRF' = WithResults(phyRF, R)  BY TickWrites
  <2> QED  BY <1>1, <2>1, <2>2 DEF WithResults
<1>2. QED  BY <1>1 DEF ReadTag

\* A register that is written holds the result of its uop.
LEMMA IsWritten ==
  ASSUME CoInv, NEW F, NEW R, NEW pd, NEW keep, NEW n, Tick(F, R, pd, keep, n),
         NEW u \in F, u.tagDst \in RFTag, NEW p, p = Pos(u.sqN)
  PROVE  LET t == u.tagDst
         IN  /\ rf'[t] = phyRF'[t] /\ rf'[t] \in Val
             /\ OpOf(u.sqN) # "RDCSR" => rf'[t] = Result(Fetch(p), Value(p))
<1> DEFINE t == u.tagDst
           W == {v \in DOMAIN R : v.tagDst = t}
<1>1. /\ R \in Results(F) /\ DOMAIN R = {v \in F : v.tagDst \in RFTag}
      /\ \A v \in DOMAIN R : R[v] \in Val
      /\ rf' = WithResults(rf, R) /\ phyRF' = WithResults(phyRF, R)
  BY TickWrites
<1>2. u \in W  BY <1>1
<1>3. PICK w : w = CHOOSE v \in DOMAIN R : v.tagDst = t  OBVIOUS
<1>4. w \in F /\ w \in DOMAIN R /\ w.tagDst = t  BY <1>1, <1>2, <1>3
<1>5. rf'[t] = R[w] /\ phyRF'[t] = R[w]  BY <1>1, <1>2, <1>3 DEF WithResults
<1>6. w.sqN = u.sqN
  <2>1. PICK q : q = Pos(w.sqN)  OBVIOUS
  <2>2. q \in Nat /\ q < InFlight /\ w.sqN = Plus(baseIndex, q) /\ Uops[q].tag = t
    BY <1>4, <2>1, WriterUop
  <2>3. p \in Nat /\ p < InFlight /\ u.sqN = Plus(baseIndex, p) /\ Uops[p].tag = t
    BY WriterUop
  <2>4. WindowInv /\ OwnedOnce(t)  BY TickIsCycle, MapParts
  <2>5. p = q  BY <2>2, <2>3, <2>4, UopOwnsAlone
  <2> QED  BY <2>2, <2>3, <2>5
<1>7. Fetch(p) = SlotOf(u.sqN) /\ Operand(u.sqN) = Value(p)  BY WriterUop
<1>8. ASSUME OpOf(u.sqN) # "RDCSR"  PROVE R[w] = Result(Fetch(p), Value(p))
  <2>1. OpOf(w.sqN) # "RDCSR"  BY <1>6, <1>8
  <2>2. R[w] = ResultOf(InstrOf(SlotOf(w.sqN)), SlotOf(w.sqN).pc, Operand(w.sqN), TRUE)
    BY <1>1, <1>4, <2>1 DEF Results
  <2>3. R[w] = ResultOf(InstrOf(SlotOf(u.sqN)), SlotOf(u.sqN).pc, Operand(u.sqN), TRUE)
    BY <1>6, <2>2
  <2> QED  BY <1>7, <2>3 DEF Result
<1>9. QED  BY <1>1, <1>4, <1>5, <1>8

\* An operand that is available does not change.
LEMMA ValueStays ==
  ASSUME CoInv, NEW F, NEW R, NEW pd, NEW keep, NEW n, Tick(F, R, pd, keep, n),
         NEW q \in 0 .. InFlight - 1, Avail(q)
  PROVE  LET t == Uops[q].src IN ReadTag(rf', t) = ReadTag(rf, t)
<1> DEFINE t == Uops[q].src
<1>1. PendingUnread  BY TickIsCycle, MapParts
<1>2. t \in RFTag => \A p \in 0 .. InFlight - 1 :
         p < Pos(lastIndex) /\ ~Produced(p) /\ Avail(p) => Uops[p].tag # t
  BY <1>1 DEF PendingUnread, Returned
<1> HIDE DEF t
<1>3. ReadTag(rf', t) = ReadTag(rf, t)  BY <1>2, NotWritten
<1>4. QED  BY <1>3 DEF t

\* Nor does what has been produced, or committed.
LEMMA ProducedStaysValue ==
  ASSUME CoInv, NEW F, NEW R, NEW pd, NEW keep, NEW n, Tick(F, R, pd, keep, n),
         NEW q \in 0 .. InFlight - 1, Produced(q), NEW t, t = Uops[q].tag
  PROVE  /\ t \in RFTag => rf'[t] = rf[t] /\ phyRF'[t] = phyRF[t]
         /\ ReadTag(rf', t) = ReadTag(rf, t)
<1>1. WindowInv /\ (t \in RFTag => OwnedOnce(t))  BY TickIsCycle, MapParts
<1>2. ASSUME t \in RFTag, NEW p \in 0 .. InFlight - 1, ~Produced(p), Uops[p].tag = t
      PROVE  FALSE
  <2>1. p \in Nat /\ p < InFlight /\ q \in Nat /\ q < InFlight
    BY <1>1, FlightType, SMT
  <2>2. p = q  BY <1>1, <1>2, <2>1, UopOwnsAlone
  <2> QED  BY <1>2, <2>2
<1>3. QED  BY <1>2, NotWritten

LEMMA OwnedStaysValue ==
  ASSUME CoInv, NEW F, NEW R, NEW pd, NEW keep, NEW n, Tick(F, R, pd, keep, n),
         NEW t, (\E r : ArchOwns(r, t)) \/ (\E i : CommitOwns(i, t))
  PROVE  /\ t \in RFTag => rf'[t] = rf[t] /\ phyRF'[t] = phyRF[t]
         /\ ReadTag(rf', t) = ReadTag(rf, t)
<1>1. WindowInv /\ (t \in RFTag => OwnedOnce(t))  BY TickIsCycle, MapParts
<1>2. ASSUME t \in RFTag, NEW p \in 0 .. InFlight - 1, p < Pos(lastIndex), Uops[p].tag = t
      PROVE  FALSE
  <2>1. p \in Nat /\ p < InFlight  BY <1>1, FlightType, SMT
  <2>2. Owns(OwnerKind(p), OwnerAt(p), t) /\ OwnerKind(p) \in Kind /\ OwnerAt(p) \in Nat
    BY <1>1, <1>2, <2>1, UopOwner
  <2>3. OwnerKind(p) = "rob"  BY <1>2 DEF OwnerKind
  <2>4. PICK k, x : k \in {"arch", "commit"} /\ Owns(k, x, t)  BY DEF Owns
  <2>5. k \in Kind /\ x \in Nat  BY <2>4, OwnerType
  <2>6. k = "rob"  BY <1>1, <1>2, <2>2, <2>3, <2>4, <2>5 DEF OwnedOnce
  <2> QED  BY <2>4, <2>6
<1>3. QED  BY <1>2, NotWritten

-----------------------------------------------------------------------------
(* What leaves the buffer. *)

\* A cycle without a replay commits n uops; no unit is given up.
LEMMA CommitsTick ==
  ASSUME CoInv, NEW F, NEW R, NEW pd, NEW keep, NEW n, Tick(F, R, pd, keep, n)
  PROVE  \/ n = 0 /\ ~trapUOp'.valid /\ Committing' = {}
         \/ ~mispredFlush' /\ Commits(n, FALSE) /\ CommitStep(n, FALSE)
<1>1. WindowInv /\ CycleOf(F, n)  BY TickIsCycle
<1>2. n \in 0 .. Width /\ baseIndex' = Plus(baseIndex, n)  BY <1>1 DEF CycleOf, RobMoves, Advances
<1>3. baseIndex \in SqNs /\ 0 \in 0 .. Width  BY <1>1, SqNState, WidthType, SMT DEF WindowInv
<1>4. CASE RedirectCycle(F) \/ ReplayCycle(F)
  <2> DEFINE r == Replaying(branch)
  <2>1. ReplayStep(r)  BY <1>4 DEF RedirectCycle, ReplayCycle, ROBReplay
  <2> HIDE DEF r
  <2>2. baseIndex' = baseIndex /\ trapUOp' = NoTrapUOp  BY <2>1 DEF ReplayStep
  <2>3. Plus(baseIndex, n) = Plus(baseIndex, 0)  BY <1>2, <1>3, <2>2, PlusZero
  <2>4. n = 0  BY <1>2, <1>3, <2>3, PlusInjective
  <2>5. Committing' = {}
    <3>1. CASE mispredFlush'  BY <3>1 DEF Committing
    <3>2. CASE ~mispredFlush'
      <4>1. \A i \in Port : ~Survives(r, i)  BY <2>1, <3>2 DEF ReplayStep
      <4>2. \A i \in Port : ~comUOp'[i].valid
        BY <2>1, <4>1 DEF ReplayStep, ReplayedUOp, NoRATWrite
      <4> QED  BY <4>2 DEF Committing
    <3> QED  BY <3>1, <3>2
  <2> QED  BY <2>2, <2>4, <2>5 DEF NoTrapUOp
<1>5. CASE TrapCycle(F)
  <2>1. CommitStep(0, FALSE)  BY <1>5 DEF TrapCycle, ROBStop
  <2>2. baseIndex' = Plus(baseIndex, 0) /\ trapUOp' = NoTrapUOp /\ ~mispredFlush'
        /\ comUOp' = [i \in Port |-> IF i < 0 THEN CommittedUOp(i, FALSE) ELSE NoRATWrite]
    <3>1. ~(0 > 0)  BY SMT
    <3> QED  BY <2>1, <3>1 DEF CommitStep
  <2>3. n = 0  BY <1>2, <1>3, <2>2, PlusInjective
  <2>4. \A i \in Port : ~(i < 0)  BY WidthType, SMT DEF Port
  <2>5. \A i \in Port : ~comUOp'[i].valid  BY <2>2, <2>4 DEF NoRATWrite
  <2> QED  BY <2>2, <2>3, <2>5 DEF NoTrapUOp, Committing
<1>6. CASE CommitCycle(F)
  <2>1. PICK m \in 0 .. Width, hang \in {FALSE, AllowTimeout} :
          Commits(m, hang) /\ CommitStep(m, hang)
    BY <1>6 DEF CommitCycle, ROBCommit
  <2>2. hang = FALSE  BY <2>1, CoSimAssumption, RenameCommitAssumption
  <2>3. baseIndex' = Plus(baseIndex, m)  BY <2>1 DEF CommitStep
  <2>4. m = n  BY <1>2, <1>3, <2>3, PlusInjective
  <2>5. ~mispredFlush'  BY <2>1 DEF CommitStep
  <2> QED  BY <2>1, <2>2, <2>4, <2>5
<1>7. QED  BY <1>1, <1>4, <1>5, <1>6 DEF CycleOf

\* Whether the uop at place k of the buffer sends a trap, and whether it takes effect.
Asks(k) == flags[Slot(k)] \in Exception \cup {"ORDERING"}
Effect(k) == IF flags[Slot(k)] \in Exception
             THEN [valid |-> TRUE, rd |-> 0, tag |-> TAG_ZERO]
             ELSE [valid |-> TRUE, rd |-> Uops[k].rd, tag |-> Uops[k].tag]

\* The n uops that leave the buffer are those that commit next.
LEMMA ComMoves ==
  ASSUME CoInv, NEW F, NEW R, NEW pd, NEW keep, NEW n, Tick(F, R, pd, keep, n)
  PROVE  /\ n \in Nat /\ n <= Width /\ n \in 0 .. Width /\ ComCount' = n
         /\ \A i \in Port : i \in Committing' <=> i < n
         /\ \A k \in Nat : k < n =>
              /\ k \in Port /\ k < Pos(lastIndex) /\ k < InFlight
              /\ k \in 0 .. InFlight - 1 /\ k \in 0 .. Pos(lastIndex) - 1
              /\ Produced(k) /\ flags[Slot(k)] # "NX"
              /\ comUOp'[k] = Effect(k)
              /\ ComSqN(k)' = Plus(baseIndex, k)
              /\ k + 1 < n => ~Asks(k)
              /\ k + 1 = n => (trapUOp'.valid <=> Asks(k))
              /\ k + 1 = n /\ Asks(k) =>
                   trapUOp'.flags = flags[Slot(k)] /\ trapUOp'.sqN = Plus(baseIndex, k)
         /\ n > 0 => ~branch.taken /\ ~trapUOp.valid /\ ~mispredFlush'
         /\ trapUOp'.valid => n > 0
<1>1. WindowInv /\ WindowInv' /\ CycleOf(F, n) /\ TypeOK  BY TickIsCycle
<1>2. n \in 0 .. Width /\ Advances(n)  BY <1>1 DEF CycleOf, RobMoves
<1>3. /\ n \in Nat /\ n <= Width /\ n <= Pos(lastIndex) /\ baseIndex' = Plus(baseIndex, n)
      /\ branch.taken \/ trapUOp.valid => n = 0
  BY <1>2, WidthType, SMT DEF Advances
<1>4. baseIndex \in SqNs  BY <1>1, SqNState
<1>5. ASSUME NEW k \in Nat, k < n
      PROVE  /\ k \in Port /\ k < Pos(lastIndex) /\ k < InFlight
             /\ k \in 0 .. InFlight - 1 /\ k \in 0 .. Pos(lastIndex) - 1
             /\ Deq(k) = Slot(k)
             /\ Uops[k].rd = entries[Slot(k)].rd /\ Uops[k].tag = entries[Slot(k)].tag
  <2>1. k < Pos(lastIndex) /\ k < InFlight /\ k \in 0 .. InFlight - 1 /\ k \in 0 .. Pos(lastIndex) - 1
    BY <1>1, <1>3, <1>5, FlightType, SMT
  <2>2. k \in Port  BY <1>3, <1>5, WidthType, SMT DEF Port
  <2>3. Uops[k].rd = entries[Slot(k)].rd /\ Uops[k].tag = entries[Slot(k)].tag
    BY <1>1, <2>1, SlotAt
  <2> QED  BY <2>1, <2>2, <2>3 DEF Deq, Slot
<1>6. CASE n = 0 /\ ~trapUOp'.valid /\ Committing' = {}
  <2>1. ComCount' = 0
    <3>1. ComCount' = Cardinality({})  BY <1>6 DEF ComCount
    <3> QED  BY <3>1, FS_EmptySet
  <2>2. \A i \in Port : ~(i < 0)  BY WidthType, SMT DEF Port
  <2>3. \A k \in Nat : ~(k < 0)  BY SMT
  <2>4. ~(n > 0)  BY <1>6, SMT
  <2> QED  BY <1>2, <1>3, <1>6, <2>1, <2>2, <2>3, <2>4
<1>7. CASE ~mispredFlush' /\ Commits(n, FALSE) /\ CommitStep(n, FALSE)
  <2>1. \A i \in Port : comUOp'[i] = IF i < n THEN CommittedUOp(i, FALSE) ELSE NoRATWrite
    BY <1>7 DEF CommitStep
  <2>2. \A i \in Port : CommittedUOp(i, FALSE).valid /\ ~NoRATWrite.valid
    BY DEF CommittedUOp, NoRATWrite
  <2>3. \A i \in Port : i \in Committing' <=> i < n  BY <1>7, <2>1, <2>2 DEF Committing
  <2>4. ComCount' = n
    <3> DEFINE C == Committing'
    <3>1. C = 0 .. n - 1
      <4>1. C \subseteq Port  BY DEF Committing
      <4>2. \A i : i \in 0 .. n - 1 <=> i \in Port /\ i < n
        BY <1>3, WidthType, SMT DEF Port
      <4> QED  BY <2>3, <4>1, <4>2
    <3>2. Cardinality(0 .. n - 1) = IF 0 > n - 1 THEN 0 ELSE n - 1 - 0 + 1
      BY <1>3, FS_Interval
    <3>3. Cardinality(0 .. n - 1) = n  BY <1>3, <3>2, SMT
    <3> QED  BY <3>1, <3>3 DEF ComCount
  <2>5. ASSUME NEW k \in Nat, k < n
        PROVE  /\ Produced(k) /\ flags[Slot(k)] # "NX" /\ comUOp'[k] = Effect(k)
               /\ ComSqN(k)' = Plus(baseIndex, k)
               /\ k + 1 < n => ~Asks(k)
               /\ k + 1 = n => (trapUOp'.valid <=> Asks(k))
               /\ k + 1 = n /\ Asks(k) =>
                    trapUOp'.flags = flags[Slot(k)] /\ trapUOp'.sqN = Plus(baseIndex, k)
    <3>1. MayCommit(k, FALSE)  BY <1>5, <1>7, <2>5 DEF Commits
    <3>2. flags[Slot(k)] # "NX"  BY <1>5, <2>5, <3>1 DEF MayCommit, TimedOut
    <3>3. Produced(k)  BY <1>5, <2>5, <3>2 DEF Produced
    <3>4. SendsTrap(k, FALSE) <=> Asks(k)  BY <1>5, <2>5 DEF SendsTrap, TimedOut, Asks
    <3>5. comUOp'[k] = Effect(k)
      <4>1. IsException(k, FALSE) <=> flags[Slot(k)] \in Exception
        BY <1>5, <2>5 DEF IsException, TimedOut
      <4> QED  BY <1>5, <2>1, <2>5, <4>1 DEF CommittedUOp, Effect
    <3>6. ComSqN(k)' = Plus(baseIndex, k)
      <4>1. Cardinality(Committing') = n  BY <2>4 DEF ComCount
      <4>2. ComSqN(k)' = Minus(Plus(baseIndex, n), n - k)  BY <1>3, <4>1 DEF ComSqN
      <4>3. Minus(Plus(baseIndex, n), n - k) = Plus(baseIndex, k)
        BY <1>3, <1>4, <2>5, RingType, WidthType, SMT DEF Minus, Plus, SqNs
      <4> QED  BY <4>2, <4>3
    <3>7. k + 1 < n => ~Asks(k)  BY <1>5, <1>7, <2>5, <3>4 DEF Commits
    <3>8. k + 1 = n => (trapUOp'.valid <=> Asks(k))
          /\ (Asks(k) => trapUOp'.flags = flags[Slot(k)] /\ trapUOp'.sqN = Plus(baseIndex, k))
      <4> SUFFICES ASSUME k + 1 = n
                   PROVE  /\ trapUOp'.valid <=> Asks(k)
                          /\ Asks(k) => trapUOp'.flags = flags[Slot(k)]
                                        /\ trapUOp'.sqN = Plus(baseIndex, k)
        OBVIOUS
      <4>1. n > 0 /\ n - 1 = k  BY <1>3, <2>5, SMT
      <4>2. trapUOp' = IF SendsTrap(k, FALSE) THEN TrapOf(k, FALSE) ELSE NoTrapUOp
        BY <1>7, <4>1 DEF CommitStep
      <4>3. CASE Asks(k)
        <5>1. trapUOp' = TrapOf(k, FALSE)  BY <3>4, <4>2, <4>3
        <5>2. /\ trapUOp'.valid /\ trapUOp'.flags = flags[Deq(k)]
              /\ trapUOp'.sqN = Plus(baseIndex, k)
          BY <5>1 DEF TrapOf
        <5> QED  BY <1>5, <2>5, <4>3, <5>2
      <4>4. CASE ~Asks(k)  BY <3>4, <4>2, <4>4 DEF NoTrapUOp
      <4> QED  BY <4>3, <4>4
    <3> QED  BY <3>2, <3>3, <3>5, <3>6, <3>7, <3>8
  <2>6. trapUOp'.valid => n > 0
    <3>1. ~(n > 0) => trapUOp' = NoTrapUOp  BY <1>7 DEF CommitStep
    <3> QED  BY <3>1 DEF NoTrapUOp
  <2>7. n > 0 => n # 0  BY SMT
  <2> QED  BY <1>2, <1>3, <1>5, <1>7, <2>3, <2>4, <2>5, <2>6, <2>7
<1>8. QED  BY <1>6, <1>7, CommitsTick

-----------------------------------------------------------------------------
(* Where fetch goes on. *)

\* A trap is redirected in the cycle after it.
LEMMA TrapKind ==
  ASSUME CoInv, NEW F, NEW R, NEW pd, NEW keep, NEW n, Tick(F, R, pd, keep, n), trapUOp.valid
  PROVE  /\ branch'.taken /\ Pos(branch.sqN)' = -1 /\ n = 0 /\ ~trapUOp'.valid
         /\ dstPC' = TrapDst(keep) /\ Live' = 0
<1>1. WindowInv /\ CycleOf(F, n) /\ ExecRedirect(F, keep)
  BY TickIsCycle DEF Tick, ExecCycle
<1>2. branch' = TrapBranch /\ dstPC' = TrapDst(keep)
  <2>1. PICK B \in {C \in SUBSET {s \in BranchCandidates : Mispredicts(s)} :
                      Cardinality(C) <= NumBranchPorts},
             M \in {{}} \cup {{s} : s \in MemCandidates(F)} :
          /\ branch' = SelectBranch(B, M)
          /\ dstPC' = CASE trapUOp.valid -> TrapDst(keep)
                        [] B # {} /\ branch' = IntBranch(Oldest(B)) ->
                             NextPC(prog, SlotOf(Oldest(B)).pc, Operand(Oldest(B)))
                        [] branch'.isSCFail -> SlotOf(Plus(branch'.sqN, 1)).pc
                        [] OTHER -> 0
    BY <1>1 DEF ExecRedirect
  <2>2. branch' = TrapBranch  BY <2>1 DEF SelectBranch
  <2>3. branch'.flush /\ ~branch'.isSCFail  BY <2>2 DEF TrapBranch
  <2>4. \A s : ~IntBranch(s).flush  BY DEF IntBranch
  <2>5. branch' # IntBranch(Oldest(B))  BY <2>3, <2>4
  <2> QED  BY <2>1, <2>2, <2>3, <2>5
<1>3. n = 0 /\ baseIndex = Plus(trapUOp.sqN, 1) /\ baseIndex' = Plus(baseIndex, n)
  BY <1>1 DEF CycleOf, RobMoves, Advances, WindowInv, RecoveryState
<1>4. baseIndex \in SqNs /\ trapUOp.sqN \in SqNs  BY <1>1, SqNState DEF WindowInv
<1>5. baseIndex' = baseIndex  BY <1>3, <1>4, PlusZero
<1>6. branch'.sqN = trapUOp.sqN /\ branch'.taken  BY <1>2 DEF TrapBranch
<1>7. Pos(branch.sqN)' = -1
  <2>1. Diff(trapUOp.sqN, baseIndex) = -1  BY <1>3, <1>4, PlusMinusOne
  <2> QED  BY <1>5, <1>6, <2>1 DEF Pos
<1>8. ~trapUOp'.valid  BY <1>3, ComMoves, SMT
<1>9. Live' = 0  BY <1>6, <1>7, <1>8, SMT DEF Live
<1>10. QED  BY <1>2, <1>3, <1>6, <1>7, <1>8, <1>9

\* Otherwise a redirect comes from the oldest branch that asks for one, or from a
\* store-conditional at the front of the buffer that failed.
LEMMA RedirectKinds ==
  ASSUME CoInv, NEW F, NEW R, NEW pd, NEW keep, NEW n, Tick(F, R, pd, keep, n),
         ~trapUOp.valid, branch'.taken
  PROVE  \/ \E s \in intRes' : /\ branch'.sqN = s /\ \A t \in intRes' : Diff(s, t) <= 0
                                /\ dstPC' = NextPC(prog, SlotOf(s).pc, Operand(s))
         \/ /\ n = 0 /\ Pos(branch.sqN)' = -1 /\ 0 < Pos(lastIndex) /\ 0 < Live
            /\ dstPC' = Fetch(0).pc
<1>1. WindowInv /\ CycleOf(F, n) /\ F \in AnyCompletions /\ F \in ExecCompletions
      /\ ExecRedirect(F, keep) /\ TypeOK
  BY TickIsCycle DEF Tick, ExecCycle
<1>2. PICK B \in {C \in SUBSET {s \in BranchCandidates : Mispredicts(s)} :
                    Cardinality(C) <= NumBranchPorts},
           M \in {{}} \cup {{s} : s \in MemCandidates(F)} :
        /\ branch' = SelectBranch(B, M) /\ intRes' = B
        /\ dstPC' = CASE trapUOp.valid -> TrapDst(keep)
                      [] B # {} /\ branch' = IntBranch(Oldest(B)) ->
                           NextPC(prog, SlotOf(Oldest(B)).pc, Operand(Oldest(B)))
                      [] branch'.isSCFail -> SlotOf(Plus(branch'.sqN, 1)).pc
                      [] OTHER -> 0
  BY <1>1 DEF ExecRedirect
<1>3. CASE B # {} /\ branch' = IntBranch(Oldest(B))
  <2>1. Oldest(B) \in B /\ \A t \in B : Diff(Oldest(B), t) <= 0
    <3>1. B \in SUBSET BranchCandidates  BY <1>2
    <3> QED  BY <1>1, <1>3, <3>1, OldestExists DEF Oldest
  <2>2. branch'.sqN = Oldest(B) /\ ~branch'.isSCFail  BY <1>3 DEF IntBranch
  <2>3. dstPC' = NextPC(prog, SlotOf(Oldest(B)).pc, Operand(Oldest(B)))
    BY <1>2, <1>3, <2>2
  <2> QED  BY <1>2, <2>1, <2>2, <2>3
<1>4. CASE ~(B # {} /\ branch' = IntBranch(Oldest(B)))
  <2>1. \E s \in MemCandidates(F) : M = {s} /\ branch' = MemBranch(s)
    <3>1. M # {} /\ branch' = CHOOSE b \in {MemBranch(s) : s \in M} : TRUE
      BY <1>2, <1>4 DEF SelectBranch, NoBranch
    <3>2. PICK s \in MemCandidates(F) : M = {s}  BY <1>2, <3>1
    <3>3. branch' = MemBranch(s)  BY <3>1, <3>2
    <3> QED  BY <3>2, <3>3
  <2>2. PICK s \in MemCandidates(F) : branch' = MemBranch(s)  BY <2>1
  <2>3. /\ s \in SqNs /\ Waiting(s) /\ ~Squashed(s, branch)
        /\ Unit(s).fu \in {"SC", "STORE", "ATOMIC"}
        /\ Unit(s).fu = "SC" => s = baseIndex
    BY <1>1, <2>2, MemCandidateKind
  <2>4. FuAt(Pos(s)) = Unit(s).fu /\ FuAt(Pos(s)) \in {"INT", "LOAD", "SC"}
        /\ Fetch(Pos(s)) = SlotOf(s) /\ Pos(s) < Pos(lastIndex)
    BY <2>3, WaitingUop
  <2>5. Unit(s).fu = "SC" /\ s = baseIndex  BY <2>3, <2>4
  <2>6. branch'.sqN = Minus(s, 1) /\ branch'.isSCFail  BY <2>2, <2>5 DEF MemBranch
  <2>7. Pos(s) = 0 /\ Plus(Minus(s, 1), 1) = s /\ Diff(Minus(s, 1), s) = -1
    <3>1. Pos(s) = 0  BY <2>3, <2>5, PlusMinusOne DEF Pos
    <3>2. Plus(Minus(s, 1), 1) = s /\ Minus(s, 1) \in SqNs
      BY <2>3, RingType, SMT DEF Plus, Minus, SqNs
    <3>3. Diff(Minus(s, 1), Plus(Minus(s, 1), 1)) = -1  BY <3>2, PlusMinusOne
    <3> QED  BY <3>1, <3>2, <3>3
  <2>8. dstPC' = SlotOf(s).pc  BY <1>2, <1>4, <2>6, <2>7
  <2>9. n = 0 /\ baseIndex' = baseIndex
    <3>1. n \in 0 .. Width /\ Advances(n)  BY <1>1 DEF CycleOf, RobMoves
    <3>2. ~(Pos(s) < n)  BY <2>3, <3>1, CoSimAssumption DEF Advances
    <3>3. n = 0  BY <2>7, <3>1, <3>2, WidthType, SMT
    <3>4. baseIndex' = Plus(baseIndex, 0)  BY <3>1, <3>3 DEF Advances
    <3> QED  BY <2>3, <2>5, <3>3, <3>4, PlusZero
  <2>10. Pos(branch.sqN)' = -1  BY <2>5, <2>6, <2>7, <2>9 DEF Pos
  <2>11. 0 < Live
    <3>1. CASE branch.taken
      <4>1. branch.sqN \in SqNs /\ Pos(branch.sqN) \in Int /\ -1 <= Pos(branch.sqN)
        BY <1>1, <3>1, SqNState, PosType DEF WindowInv, BranchInWindow
      <4>2. ~(Diff(s, branch.sqN) > 0)  BY <2>3, <3>1 DEF Squashed
      <4>3. Pos(branch.sqN) # -1
        <5> SUFFICES ASSUME Pos(branch.sqN) = -1  PROVE FALSE
          OBVIOUS
        <5>1. Diff(s, branch.sqN) = 1
          BY <2>3, <2>5, <4>1, RingType, SMT DEF Diff, Pos, SqNs
        <5> QED  BY <4>2, <5>1, SMT
      <4> QED  BY <3>1, <4>1, <4>3, SMT DEF Live
    <3>2. CASE ~branch.taken
      <4>1. Live = InFlight  BY <3>2 DEF Live
      <4> QED  BY <1>1, <2>4, <2>7, <4>1, FlightType, SMT
    <3> QED  BY <3>1, <3>2
  <2> QED  BY <2>4, <2>7, <2>8, <2>9, <2>10, <2>11
<1>5. QED  BY <1>3, <1>4

\* A branch that asks for a redirect gets one unless it is squashed by another's.
LEMMA RaisedTaken ==
  ASSUME CoInv, NEW F, NEW R, NEW pd, NEW keep, NEW n, Tick(F, R, pd, keep, n),
         ~trapUOp.valid, intRes' # {}
  PROVE  branch'.taken
<1>1. PICK B, M : branch' = SelectBranch(B, M) /\ intRes' = B
  BY DEF Tick, ExecCycle, ExecRedirect
<1>2. CASE M = {}
  <2>1. branch' = IntBranch(Oldest(B))  BY <1>1, <1>2 DEF SelectBranch
  <2> QED  BY <2>1 DEF IntBranch
<1>3. CASE M # {}
  <2>1. branch' = IntBranch(Oldest(B)) \/ branch' \in {MemBranch(s) : s \in M}
    BY <1>1, <1>3 DEF SelectBranch
  <2> QED  BY <2>1 DEF IntBranch, MemBranch
<1>4. QED  BY <1>2, <1>3

\* Fetch goes on behind what is renamed.
LEMMA FrontMoves ==
  ASSUME CoInv, NEW F, NEW R, NEW pd, NEW keep, NEW n, Tick(F, R, pd, keep, n),
         ~branch'.taken
  PROVE  /\ branch.taken \/ ~RNTakes => Front' = Front
         /\ ~branch.taken /\ RNTakes => Front' = fetchPC /\ Front = de[0].pc
<1>1. FrontStep(pd)  BY DEF Tick, ExecCycle
<1>2. Front' = IF de'[0].valid THEN de'[0].pc ELSE fetchPC'  BY DEF Front
<1>3. CASE branch.taken
  <2>1. ~de'[0].valid /\ fetchPC' = dstPC
    <3>1. 0 \in Port  BY WidthType, SMT DEF Port
    <3> QED  BY <1>1, <1>3, <3>1 DEF FrontStep, NoFetch
  <2> QED  BY <1>2, <1>3, <2>1 DEF Front
<1>4. CASE ~branch.taken /\ FrontReady
  <2>1. 0 \in Port  BY WidthType, SMT DEF Port
  <2>2. de' = pd /\ (pd[0].valid => pd[0].pc = fetchPC) /\ (~pd[0].valid => fetchPC' = fetchPC)
    BY <1>4, <2>1, FetchedNext
  <2>3. Front' = fetchPC  BY <1>2, <2>2
  <2> QED  BY <1>4, <2>3 DEF Front, RNTakes
<1>5. CASE ~branch.taken /\ ~FrontReady
  <2>1. de' = de /\ fetchPC' = fetchPC  BY <1>1, <1>5 DEF FrontStep
  <2> QED  BY <1>2, <1>5, <2>1 DEF Front, RNTakes
<1>6. QED  BY <1>3, <1>4, <1>5

-----------------------------------------------------------------------------
(* What follows a uop, and the path. *)

\* What a redirect squashes is gone in the next cycle; the new ones end at the next redirect.
LEMMA LiveMoves ==
  ASSUME CoInv, NEW F, NEW R, NEW pd, NEW keep, NEW n, Tick(F, R, pd, keep, n),
         ~trapUOp.valid, ~trapUOp'.valid, NEW l, l = Pos(lastIndex)'
  PROVE  /\ l \in Nat /\ n \in Nat /\ Live = l + n /\ Live' \in Nat
         /\ ~branch'.taken => Live' = InFlight' /\ l <= Live'
         /\ branch'.taken =>
              \/ \E s \in intRes', q \in Nat :
                   /\ q < l /\ Live' = q + 1 /\ Pos(s) = q + n
                   /\ dstPC' = NextPC(prog, SlotOf(s).pc, Operand(s))
                   /\ \A t \in intRes' : Diff(s, t) <= 0
              \/ n = 0 /\ Live' = 0 /\ 0 < l /\ dstPC' = Fetch(0).pc
<1>1. WindowInv /\ WindowInv' /\ CycleOf(F, n) /\ RedirectsRaised' /\ n \in Nat
  BY TickIsCycle, MapPartsAfter
<1>2. /\ l \in Nat /\ InFlight' \in Nat /\ l <= InFlight'
      /\ branch.taken => n = 0 /\ l = Pos(branch.sqN) + 1
      /\ ~branch.taken => l + n = InFlight
  BY <1>1, FlightAfter
<1>3. Live = l + n
  <2>1. CASE branch.taken
    <3>1. Live = l  BY <1>2, <2>1 DEF Live
    <3> QED  BY <1>2, <2>1, <3>1, SMT
  <2>2. CASE ~branch.taken  BY <1>2, <2>2 DEF Live
  <2> QED  BY <2>1, <2>2
<1>4. CASE ~branch'.taken
  <2>1. Live' = InFlight'  BY <1>4 DEF Live
  <2> QED  BY <1>1, <1>2, <1>3, <1>4, <2>1
<1>5. CASE branch'.taken
  <2>1. Live' = Pos(branch.sqN)' + 1  BY <1>5 DEF Live
  <2>2. CASE \E s \in intRes' : /\ branch'.sqN = s /\ \A t \in intRes' : Diff(s, t) <= 0
                               /\ dstPC' = NextPC(prog, SlotOf(s).pc, Operand(s))
    <3>1. PICK s \in intRes' : /\ branch'.sqN = s /\ \A t \in intRes' : Diff(s, t) <= 0
                               /\ dstPC' = NextPC(prog, SlotOf(s).pc, Operand(s))
      BY <2>2
    <3>2. Waiting(s) /\ ~Squashed(s, branch)  BY RaisedBy
    <3>3. PICK q : q = Pos(s) - n  OBVIOUS
    <3>4. q \in Nat /\ q + n = Pos(s) /\ q < l /\ Pos(s)' = q
      BY <3>2, <3>3, WaitingMoves
    <3>5. Pos(branch.sqN)' = q  BY <3>1, <3>4 DEF Pos
    <3>6. Live' = q + 1 /\ Live' \in Nat  BY <2>1, <3>4, <3>5, SMT
    <3> QED  BY <1>1, <1>2, <1>3, <1>5, <3>1, <3>4, <3>6
  <2>3. CASE n = 0 /\ Pos(branch.sqN)' = -1 /\ 0 < Pos(lastIndex) /\ 0 < Live
             /\ dstPC' = Fetch(0).pc
    <3>1. Live' = 0 /\ 0 < l  BY <1>2, <1>3, <2>1, <2>3, SMT
    <3> QED  BY <1>1, <1>2, <1>3, <1>5, <2>3, <3>1
  <2> QED  BY <1>5, <2>2, <2>3, RedirectKinds
<1>6. QED  BY <1>4, <1>5

\* How many uops are new.
LEMMA NewCount ==
  ASSUME CoInv, NEW F, NEW R, NEW pd, NEW keep, NEW n, Tick(F, R, pd, keep, n),
         ~branch'.taken, NEW l, l = Pos(lastIndex)'
  PROVE  \E m \in 0 .. Width : InFlight' = l + m /\ \A j \in Port : rnUOp'[j].valid <=> j < m
<1>1. WindowInv' /\ WindowInv /\ CycleOf(F, n)  BY TickIsCycle
<1>2. InFlight' = Pos(counterSqN)'  BY DEF InFlight
<1>3. PICK m \in 0 .. Width : /\ \A j \in Port : rnUOp'[j].valid <=> j < m
                              /\ Pos(counterSqN)' = Pos(lastIndex)' + m
  BY <1>1 DEF WindowInv, RenamedInOrder
<1>4. QED  BY <1>2, <1>3

\* Where execution goes on after a uop that stays.
LEMMA NextAddrMoves ==
  ASSUME CoInv, NEW F, NEW R, NEW pd, NEW keep, NEW n, Tick(F, R, pd, keep, n),
         ~trapUOp.valid, ~trapUOp'.valid, NEW q \in Int, -1 <= q, q < Pos(lastIndex)',
         q = -1 \/ q < Live'
  PROVE  /\ 0 <= q => q + n \in 0 .. Live - 1
         /\ \/ NextAddr(q)' = NextAddr(q + n)
            \/ \E s \in intRes' : /\ 0 <= q /\ Pos(s) = q + n
                                  /\ NextAddr(q)' = NextPC(prog, SlotOf(s).pc, Operand(s))
<1>1. PICK l : l = Pos(lastIndex)'  OBVIOUS
<1>2. /\ l \in Nat /\ n \in Nat /\ Live = l + n /\ Live' \in Nat
      /\ ~branch'.taken => Live' = InFlight' /\ l <= Live'
      /\ branch'.taken =>
           \/ \E s \in intRes', p \in Nat :
                /\ p < l /\ Live' = p + 1 /\ Pos(s) = p + n
                /\ dstPC' = NextPC(prog, SlotOf(s).pc, Operand(s))
                /\ \A t \in intRes' : Diff(s, t) <= 0
           \/ n = 0 /\ Live' = 0 /\ 0 < l /\ dstPC' = Fetch(0).pc
  BY <1>1, LiveMoves
<1>3. q < l /\ (0 <= q => q + n \in 0 .. Live - 1)  BY <1>1, <1>2, SMT
<1>4. PICK x \in Nat, z \in Int : x = q + 1 /\ z = q + n /\ z + 1 = x + n /\ x <= l
  <2>1. q + 1 \in Nat /\ q + n \in Int /\ (q + n) + 1 = (q + 1) + n /\ q + 1 <= l
    BY <1>2, <1>3, SMT
  <2> QED  BY <2>1
<1>5. CASE x < Live' /\ x < l
  <2>1. NextAddr(q)' = Fetch(x)'.pc  BY <1>4, <1>5 DEF NextAddr
  <2>2. Fetch(x)' = Fetch(x + n)  BY <1>1, <1>5, InstrMoves
  <2>3. z + 1 < Live  BY <1>2, <1>4, <1>5, SMT
  <2>4. NextAddr(z) = Fetch(x + n).pc  BY <1>4, <2>3 DEF NextAddr
  <2> QED  BY <1>3, <1>4, <2>1, <2>2, <2>4
<1>6. CASE ~branch'.taken /\ x = l
  <2>1. ~(z + 1 < Live)  BY <1>2, <1>4, <1>6, SMT
  <2>2. NextAddr(z) = Front  BY <2>1 DEF NextAddr
  <2>3. PICK m \in 0 .. Width : InFlight' = l + m /\ \A j \in Port : rnUOp'[j].valid <=> j < m
    BY <1>1, <1>6, NewCount
  <2>4. 0 \in Port /\ m \in Nat  BY <2>3, WidthType, SMT DEF Port
  <2>5. CASE x < Live'
    <3>1. 0 < m  BY <1>2, <1>6, <2>3, <2>4, <2>5, SMT
    <3>2. rnUOp'[0].valid  BY <2>3, <2>4, <3>1
    <3>3. ~branch.taken /\ RNTakes  BY <2>4, <3>2, RenameTakes
    <3>4. Front = de[0].pc  BY <1>6, <3>3, FrontMoves
    <3>5. ~(x < Pos(lastIndex)') /\ x < InFlight' /\ x - Pos(lastIndex)' = 0
      BY <1>1, <1>2, <1>6, <2>5, SMT
    <3>6. Fetch(x)' = de[x - Pos(lastIndex)']  BY <3>5, InstrEnters
    <3>7. Fetch(x)' = de[0]  BY <3>5, <3>6
    <3>8. NextAddr(q)' = Fetch(x)'.pc  BY <1>4, <2>5 DEF NextAddr
    <3> QED  BY <1>3, <1>4, <2>2, <3>4, <3>7, <3>8
  <2>6. CASE ~(x < Live')
    <3>1. m = 0  BY <1>2, <1>6, <2>3, <2>4, <2>6, SMT
    <3>2. ~rnUOp'[0].valid  BY <2>3, <2>4, <3>1, SMT
    <3>3. branch.taken \/ ~RNTakes  BY <2>4, <3>2, RenameTakes DEF RNTakes
    <3>4. Front' = Front  BY <1>6, <3>3, FrontMoves
    <3>5. NextAddr(q)' = Front'  BY <1>4, <2>6 DEF NextAddr
    <3> QED  BY <1>3, <1>4, <2>2, <3>4, <3>5
  <2> QED  BY <2>5, <2>6
<1>7. CASE branch'.taken /\ ~(x < Live')
  <2>1. NextAddr(q)' = dstPC'  BY <1>4, <1>7 DEF NextAddr, Front
  <2>2. CASE n = 0 /\ Live' = 0 /\ 0 < l /\ dstPC' = Fetch(0).pc
    <3>1. q = -1 /\ z = -1 /\ 0 < Live  BY <1>2, <1>4, <2>2, SMT
    <3>2. NextAddr(z) = Fetch(0).pc
      <4>1. z + 1 = 0  BY <3>1, SMT
      <4> QED  BY <3>1, <4>1 DEF NextAddr
    <3> QED  BY <1>3, <1>4, <2>1, <2>2, <3>2
  <2>3. CASE \E s \in intRes', p \in Nat :
                /\ p < l /\ Live' = p + 1 /\ Pos(s) = p + n
                /\ dstPC' = NextPC(prog, SlotOf(s).pc, Operand(s))
                /\ \A t \in intRes' : Diff(s, t) <= 0
    <3>1. PICK s \in intRes', p \in Nat :
                /\ p < l /\ Live' = p + 1 /\ Pos(s) = p + n
                /\ dstPC' = NextPC(prog, SlotOf(s).pc, Operand(s))
                /\ \A t \in intRes' : Diff(s, t) <= 0
      BY <2>3
    <3>2. q = p
      <4>1. q + 1 >= p + 1  BY <1>4, <1>7, <3>1, SMT
      <4>2. q = -1 \/ q < p + 1  BY <3>1
      <4> QED  BY <4>1, <4>2, SMT
    <3>3. 0 <= q /\ Pos(s) = q + n  BY <3>1, <3>2, SMT
    <3> QED  BY <1>3, <2>1, <3>1, <3>3
  <2> QED  BY <1>2, <1>7, <2>2, <2>3
<1>8. x < l \/ x = l  BY <1>2, <1>4, SMT
<1>9. CASE branch'.taken /\ x < Live'
  <2>1. Live' <= l
    <3>1. \A p \in Nat : p < l /\ Live' = p + 1 => Live' <= l  BY <1>2, SMT
    <3>2. 0 < l /\ Live' = 0 => Live' <= l  BY <1>2, SMT
    <3> QED  BY <1>2, <1>9, <3>1, <3>2
  <2>2. x < l  BY <1>2, <1>9, <2>1, SMT
  <2> QED  BY <1>5, <1>9, <2>2
<1>10. CASE ~branch'.taken /\ x < l
  <2>1. x < Live'  BY <1>2, <1>10, SMT
  <2> QED  BY <1>5, <1>10, <2>1
<1>11. QED  BY <1>6, <1>7, <1>8, <1>9, <1>10

\* Where it goes on after a new one.
LEMMA NewAddr ==
  ASSUME CoInv, NEW F, NEW R, NEW pd, NEW keep, NEW n, Tick(F, R, pd, keep, n),
         NEW q \in Nat, ~(q < Pos(lastIndex)'), q < InFlight', ~trapUOp'.valid
  PROVE  NextAddr(q)' = Fetch(q)'.predPC
<1>1. PICK l : l = Pos(lastIndex)'  OBVIOUS
<1>2. PICK i : i = q - l  OBVIOUS
<1>3. /\ i \in Port /\ l + i = q /\ rnUOp'[i].valid /\ ~branch'.taken /\ Fetch(q)' = de[i]
  BY <1>1, <1>2, InstrEnters
<1>4. ~branch.taken /\ RNTakes /\ de[i].valid  BY <1>3, RenamedFrom
<1>5. PICK m \in 0 .. Width : InFlight' = l + m /\ \A j \in Port : rnUOp'[j].valid <=> j < m
  BY <1>1, <1>3, NewCount
<1>6. Live' = InFlight'  BY <1>3 DEF Live
<1>7. l \in Nat /\ i \in Nat /\ m \in Nat
  <2>1. Pos(lastIndex)' \in Nat  BY TickReplays
  <2> QED  BY <1>1, <1>3, <1>5, <2>1, WidthType, SMT DEF Port
<1>8. \A j \in Port : rnUOp'[j].valid <=> de[j].valid  BY <1>4, RenameTakes
<1>9. CASE q + 1 < InFlight'
  <2>1. PICK x \in Nat, j \in Port : x = q + 1 /\ j = i + 1 /\ x - l = j /\ j < m
    <3>1. q + 1 \in Nat /\ i + 1 \in Port /\ (q + 1) - l = i + 1 /\ i + 1 < m
      BY <1>3, <1>5, <1>7, <1>9, WidthType, SMT DEF Port
    <3> QED  BY <3>1
  <2>2. ~(x < Pos(lastIndex)') /\ x < InFlight'  BY <1>1, <1>3, <1>7, <1>9, <2>1, SMT
  <2>3. Fetch(x)' = de[j]  BY <1>1, <2>1, <2>2, InstrEnters
  <2>4. de[j].valid  BY <1>5, <1>8, <2>1
  <2>5. i < j  BY <1>7, <2>1, SMT
  <2>6. de[j].pc = de[i].predPC
    BY <1>3, <2>1, <2>4, <2>5 DEF CoInv, FrontInv, Follows
  <2>7. NextAddr(q)' = Fetch(x)'.pc  BY <1>6, <1>9, <2>1 DEF NextAddr
  <2> QED  BY <1>3, <2>3, <2>6, <2>7
<1>10. CASE ~(q + 1 < InFlight')
  <2>1. i + 1 < Width => i + 1 \in Port /\ ~(i + 1 < m)
    BY <1>3, <1>5, <1>7, <1>10, WidthType, SMT DEF Port
  <2>2. i + 1 < Width => ~de[i + 1].valid  BY <1>5, <1>8, <2>1
  <2>3. fetchPC = de[i].predPC  BY <1>3, <1>4, <2>2 DEF CoInv, FrontInv
  <2>4. Front' = fetchPC  BY <1>3, <1>4, FrontMoves
  <2>5. NextAddr(q)' = Front'  BY <1>6, <1>10 DEF NextAddr
  <2> QED  BY <1>3, <2>3, <2>4, <2>5
<1>11. QED  BY <1>9, <1>10

\* Places in the buffer.
LEMMA SlotsAt ==
  WindowInv => \A x \in Nat : x < Pos(lastIndex) => Pos(Plus(baseIndex, x)) = x
  BY SlotAt

\* A branch that asks for a redirect and is not squashed gets its redirect.
LEMMA RaisedWins ==
  ASSUME CoInv, NEW F, NEW R, NEW pd, NEW keep, NEW n, Tick(F, R, pd, keep, n),
         ~trapUOp.valid, ~trapUOp'.valid, NEW t \in intRes', NEW q, q = Pos(t) - n, q < Live'
  PROVE  NextAddr(q)' = NextPC(prog, SlotOf(t).pc, Operand(t))
<1>1. branch'.taken  BY RaisedTaken
<1>2. PICK l : l = Pos(lastIndex)'  OBVIOUS
<1>3. Waiting(t) /\ ~Squashed(t, branch)  BY RaisedBy
<1>4. q \in Nat /\ q + n = Pos(t) /\ n \in Nat /\ Live' \in Nat
  BY <1>2, <1>3, WaitingMoves, LiveMoves
<1>5. PICK s \in intRes', p \in Nat :
        /\ p < l /\ Live' = p + 1 /\ Pos(s) = p + n
        /\ dstPC' = NextPC(prog, SlotOf(s).pc, Operand(s))
        /\ \A u \in intRes' : Diff(s, u) <= 0
  BY <1>1, <1>2, <1>4, LiveMoves, SMT
<1>6. Waiting(s)  BY RaisedBy
<1>7. /\ s \in SqNs /\ t \in SqNs /\ baseIndex \in SqNs /\ InROB(s) /\ InROB(t)
      /\ s = Plus(baseIndex, Pos(s)) /\ t = Plus(baseIndex, Pos(t))
  BY <1>3, <1>6, WaitingUop, TickIsCycle, SqNState
<1>8. 0 <= Diff(s, baseIndex) /\ 0 <= Diff(t, baseIndex)  BY <1>7 DEF InROB
<1>9. Diff(s, t) <= 0 <=> Diff(s, baseIndex) <= Diff(t, baseIndex)
  BY <1>7, <1>8, DiffByDistance
<1>10. Pos(s) <= Pos(t)  BY <1>5, <1>9 DEF Pos
<1>11. p = q
  <2>1. q \in Nat /\ n \in Nat /\ p + n <= q + n /\ q < p + 1  BY <1>4, <1>5, <1>10
  <2> QED  BY <2>1, SMT
<1>12. s = t  BY <1>4, <1>5, <1>7, <1>11
<1>13. NextAddr(q)' = dstPC'
  <2>1. ~(q + 1 < Live')  BY <1>4, <1>5, <1>11, SMT
  <2> QED  BY <1>1, <2>1 DEF NextAddr, Front
<1>14. QED  BY <1>5, <1>12, <1>13

\* The uop that a number of intRes' names keeps it.
LEMMA RaisedPlace ==
  ASSUME CoInv, NEW F, NEW R, NEW pd, NEW keep, NEW n, Tick(F, R, pd, keep, n),
         NEW q \in Nat, q < Pos(lastIndex)', Plus(baseIndex', q) \in intRes'
  PROVE  Pos(Plus(baseIndex', q)) = q + n
<1>1. PICK t \in intRes' : t = Plus(baseIndex', q)  OBVIOUS
<1>2. Waiting(t) /\ ~Squashed(t, branch)  BY RaisedBy
<1>3. PICK p : p = Pos(t) - n  OBVIOUS
<1>4. Pos(t)' = p /\ p + n = Pos(t) /\ p \in Nat  BY <1>2, <1>3, WaitingMoves
<1>5. Pos(Plus(baseIndex, q))' = q
  <2>1. WindowInv'  BY TickIsCycle
  <2>2. (WindowInv => \A x \in Nat : x < Pos(lastIndex) => Pos(Plus(baseIndex, x)) = x)'
    BY SlotsAt, PTL
  <2> QED  BY <2>1, <2>2
<1>6. p = q  BY <1>1, <1>4, <1>5 DEF Pos
<1>7. QED  BY <1>1, <1>4, <1>6


\* The path of a uop that stays.
LEMMA PathMoves ==
  ASSUME CoInv, NEW F, NEW R, NEW pd, NEW keep, NEW n, Tick(F, R, pd, keep, n),
         ~trapUOp.valid, ~trapUOp'.valid, NEW q \in Nat, q < Pos(lastIndex)', q < Live'
  PROVE  Path(q)'
<1>0. \A m \in 0 .. InFlight - 1 : Avail(m) => ReadTag(rf', Uops[m].src) = ReadTag(rf, Uops[m].src)
  <2> SUFFICES ASSUME NEW m \in 0 .. InFlight - 1, Avail(m)
               PROVE  ReadTag(rf', Uops[m].src) = ReadTag(rf, Uops[m].src)
    OBVIOUS
  <2> QED  BY ValueStays
<1>1. WindowInv /\ WindowInv' /\ RedirectCovers /\ CycleOf(F, n) /\ prog' = prog /\ n \in Nat
  BY TickIsCycle
<1>2. PICK p, d :
        /\ p \in 0 .. InFlight - 1 /\ p = q + n /\ d = Fetch(p) /\ Fetch(q)' = d
        /\ Fetch(q + n) = d /\ p \in 0 .. Live - 1
  <2>1. q + n \in 0 .. InFlight - 1 /\ Fetch(q)' = Fetch(q + n)  BY InstrMoves
  <2>2. q \in Int /\ -1 <= q /\ 0 <= q  BY SMT
  <2>3. q + n \in 0 .. Live - 1  BY <2>2, NextAddrMoves
  <2> QED  BY <2>1, <2>3
<1>3. \/ NextAddr(q)' = NextAddr(p)
      \/ \E s \in intRes' : Pos(s) = p /\ NextAddr(q)' = NextPC(prog, SlotOf(s).pc, Operand(s))
  <2>1. q \in Int /\ -1 <= q  BY SMT
  <2> QED  BY <1>2, <2>1, NextAddrMoves
<1>4. UopOf(p) /\ WellFetched(d) /\ Path(p)
  BY <1>2 DEF CoInv, UopsInv, UopOf, PathInv
<1>5. IsBranch(Fetch(q))' = IsBranch(d)  BY <1>1, <1>2, FetchStays
<1>6. ASSUME NEW s \in SqNs, Waiting(s), Pos(s) = p
      PROVE  SlotOf(s) = d /\ Operand(s) = Value(p) /\ p < Pos(lastIndex) /\ s = Plus(baseIndex, p)
             /\ Unit(s).avail = Avail(p) /\ Slot(p) = RobIdx(s)
  <2>1. LET x == Pos(s)
        IN  /\ x < Pos(lastIndex) /\ s = Plus(baseIndex, x) /\ Fetch(x) = SlotOf(s)
            /\ Operand(s) = Value(x) /\ Avail(x) = Unit(s).avail /\ Slot(x) = RobIdx(s)
    BY <1>6, WaitingUop
  <2> QED  BY <1>2, <1>6, <2>1
<1>7. ASSUME NEW s \in intRes', Pos(s) = p
      PROVE  s \in SqNs /\ Waiting(s) /\ Unit(s).avail /\ IsBranch(SlotOf(s))
  <2>1. Waiting(s) /\ Unit(s).avail /\ IsBranch(SlotOf(s))  BY RaisedBy
  <2> QED  BY <2>1 DEF Waiting, InROB
<1>8. CASE ~IsBranch(d)
  <2>1. NextAddr(p) = d.predPC  BY <1>2, <1>4, <1>8 DEF Path
  <2>2. NextAddr(q)' = NextAddr(p)
    <3> SUFFICES ASSUME NEW s \in intRes', Pos(s) = p  PROVE FALSE
      BY <1>3
    <3>1. s \in SqNs /\ Waiting(s) /\ IsBranch(SlotOf(s))  BY <1>7
    <3>2. SlotOf(s) = d  BY <1>6, <3>1
    <3> QED  BY <1>8, <3>1, <3>2
  <2> QED  BY <1>2, <1>5, <1>8, <2>1, <2>2 DEF Path
<1>9. CASE IsBranch(d)
  <2>1. ASSUME Avail(p), NextAddr(q)' = NextPC(prog, d.pc, Value(p))
        PROVE  Path(q)'
    <3>1. Uops'[q].src = Uops[p].src /\ Avail(q)' = (Avail(p) \/ Uops[p].src \in WrittenBack(F))
      BY <1>1, <1>2, UopsMove
    <3>2. Avail(q)'  BY <2>1, <3>1
    <3>3. ReadTag(rf', Uops[p].src) = ReadTag(rf, Uops[p].src)  BY <1>0, <1>2, <2>1
    <3>4. Value(q)' = Value(p)  BY <3>1, <3>3 DEF Value
    <3>5. NextPC(prog, Fetch(q).pc, Value(q))' = NextPC(prog, d.pc, Value(p))
      BY <1>1, <1>2, <3>4
    <3> QED  BY <1>2, <1>5, <1>9, <2>1, <3>2, <3>5 DEF Path
  <2>2. CASE \E s \in intRes' : Pos(s) = p
    <3>1. PICK s \in intRes' : Pos(s) = p  BY <2>2
    <3>2. Unit(s).avail /\ SlotOf(s) = d /\ Operand(s) = Value(p) /\ Avail(p)
      BY <1>6, <1>7, <3>1
    <3>3. q = Pos(s) - n  BY <1>1, <1>2, <3>1, SMT
    <3>4. NextAddr(q)' = NextPC(prog, d.pc, Value(p))  BY <3>2, <3>3, RaisedWins
    <3> QED  BY <2>1, <3>2, <3>4
  <2>3. CASE ~(\E s \in intRes' : Pos(s) = p)
    <3>1. NextAddr(q)' = NextAddr(p)  BY <1>3, <2>3
    <3>2. CASE Avail(p) /\ NextAddr(p) = NextPC(prog, d.pc, Value(p))
      BY <2>1, <3>1, <3>2
    <3>3. CASE /\ NextAddr(p) = d.predPC
               /\ ~Produced(p) /\ (p < Pos(lastIndex) => Plus(baseIndex, p) \notin intRes)
      <4>1. Plus(baseIndex', q) \notin intRes'  BY <1>2, <2>3, RaisedPlace
      <4>2. CASE ~Produced(q)'
        <5>1. NextAddr(q)' = Fetch(q)'.predPC  BY <1>2, <3>1, <3>3
        <5> QED  BY <1>5, <1>9, <4>1, <4>2, <5>1 DEF Path
      <4>3. CASE Produced(q)'
        <5> DEFINE s == Plus(baseIndex, p)
        <5>1. /\ p < Pos(lastIndex) =>
                   /\ s \in SqNs /\ InROB(s) /\ Pos(s) = p
                   /\ Answers(F, s) = {} => flags'[Slot(p)] = flags[Slot(p)]
              /\ ~(p < Pos(lastIndex)) => flags'[Slot(p)] = InitialFlags(FuAt(p))
              /\ ~backend'[Slot(p)].early
          BY <1>2, FlagsMove
        <5>2. flags'[Slot(p)] # "NX"
          <6>1. Slot(q)' = Slot(p)  BY <1>2, InstrMoves
          <6> QED  BY <4>3, <5>1, <6>1 DEF Produced
        <5>3. p < Pos(lastIndex)
          <6> SUFFICES ASSUME ~(p < Pos(lastIndex))  PROVE FALSE
            OBVIOUS
          <6>1. prog \in Programs  BY DEF CoInv, CoTypeOK
          <6>2. DecodedUOp(d).fu \notin {"RN", "TRAP", "SC"}
            <7>1. ~d.irq /\ InstrOf(d).op \in {"BEQZ", "JALR"}  BY <1>9 DEF IsBranch
            <7> QED  BY <1>4, <6>1, <7>1, DecodedUnit
          <6>3. FuAt(p) \notin {"RN", "TRAP"}  BY <1>2, <1>4, <6>2 DEF UopOf
          <6> QED  BY <5>1, <5>2, <6>3 DEF InitialFlags
        <5>4. flags[Slot(p)] = "NX"  BY <3>3, <5>3 DEF Produced
        <5>5. PICK u \in F : u.sqN = s
          <6>1. Answers(F, s) # {}  BY <5>1, <5>2, <5>3, <5>4
          <6> QED  BY <6>1 DEF Answers
        <5>6. F \in ExecCompletions  BY DEF Tick
        <5> HIDE DEF s
        <5>7. /\ Waiting(s) /\ Unit(s).avail /\ (IsBranch(SlotOf(s)) => s \in intRes \/ ~Mispredicts(s))
          BY <5>5, <5>6, Reported
        <5>8. s \in SqNs /\ Pos(s) = p  BY <5>1, <5>3 DEF s
        <5>9. SlotOf(s) = d /\ Operand(s) = Value(p) /\ Avail(p)
          BY <1>6, <5>7, <5>8
        <5>10. s \notin intRes  BY <3>3, <5>3 DEF s
        <5>11. NextPC(prog, d.pc, Value(p)) = d.predPC
          BY <1>9, <5>7, <5>9, <5>10 DEF Mispredicts
        <5> QED  BY <2>1, <3>1, <3>3, <5>9, <5>11
      <4> QED  BY <4>2, <4>3
    <3> QED  BY <1>2, <1>4, <1>9, <3>2, <3>3 DEF Path
  <2> QED  BY <2>2, <2>3
<1>10. QED  BY <1>8, <1>9

LEMMA PathInvStep ==
  ASSUME CoInv, NEW F, NEW R, NEW pd, NEW keep, NEW n, Tick(F, R, pd, keep, n)
  PROVE  PathInv'
<1>1. CASE trapUOp.valid
  <2>1. Live' = 0  BY <1>1, TrapKind
  <2>2. 0 .. Live' - 1 = {}  BY <2>1, SMT
  <2> QED  BY <2>2 DEF PathInv
<1>2. CASE trapUOp'.valid
  <2>1. Live' = 0  BY <1>2 DEF Live
  <2>2. 0 .. Live' - 1 = {}  BY <2>1, SMT
  <2> QED  BY <2>2 DEF PathInv
<1>3. CASE ~trapUOp.valid /\ ~trapUOp'.valid
  <2>1. SUFFICES ASSUME NEW q \in 0 .. Live' - 1  PROVE Path(q)'
    BY DEF PathInv
  <2>2. PICK l : l = Pos(lastIndex)'  OBVIOUS
  <2>3. l \in Nat /\ Live' \in Nat /\ (~branch'.taken => Live' = InFlight')
        /\ (branch'.taken => Live' <= l)
    <3>1. /\ l \in Nat /\ Live' \in Nat /\ (~branch'.taken => Live' = InFlight')
          /\ branch'.taken => \/ \E x \in Nat : x < l /\ Live' = x + 1
                              \/ Live' = 0 /\ 0 < l
      BY <1>3, <2>2, LiveMoves
    <3>2. \A x \in Nat : x < l /\ Live' = x + 1 => Live' <= l  BY <3>1, SMT
    <3>3. 0 < l /\ Live' = 0 => Live' <= l  BY <3>1, SMT
    <3> QED  BY <3>1, <3>2, <3>3
  <2>4. q \in Nat /\ q < Live'
    <3>1. PICK x \in Nat : x = Live'  BY <2>3
    <3>2. q \in 0 .. x - 1  BY <3>1
    <3>3. q \in Nat /\ q < x  BY <3>2, SMT
    <3> QED  BY <3>1, <3>3
  <2>5. CASE q < l  BY <1>3, <2>2, <2>4, <2>5, PathMoves
  <2>6. CASE ~(q < l)
    <3>1. ~branch'.taken  BY <2>3, <2>4, <2>6, SMT
    <3>2. q < InFlight'  BY <2>3, <2>4, <3>1
    <3>3. NextAddr(q)' = Fetch(q)'.predPC  BY <1>3, <2>2, <2>4, <2>6, <3>2, NewAddr
    <3>4. ~Produced(q)'  BY <2>2, <2>4, <2>6, <3>2, InstrEnters
    <3>5. ~(q < Pos(lastIndex)')  BY <2>2, <2>6
    <3> QED  BY <3>3, <3>4, <3>5 DEF Path
  <2> QED  BY <2>5, <2>6
<1>4. QED  BY <1>1, <1>2, <1>3

-----------------------------------------------------------------------------
(* The results. *)

\* A uop that is not squashed keeps its place among those.
LEMMA LivesOn ==
  ASSUME CoInv, NEW F, NEW R, NEW pd, NEW keep, NEW n, Tick(F, R, pd, keep, n),
         NEW q \in Nat, q < Pos(lastIndex)', q < Live'
  PROVE  ~trapUOp.valid /\ ~trapUOp'.valid /\ q + n \in 0 .. Live - 1
<1>1. Live' # 0  BY SMT
<1>2. ~trapUOp.valid  BY <1>1, TrapKind
<1>3. ~trapUOp'.valid  BY <1>1 DEF Live
<1>4. q \in Int /\ -1 <= q /\ 0 <= q  BY SMT
<1>5. q + n \in 0 .. Live - 1  BY <1>2, <1>3, <1>4, NextAddrMoves
<1>6. QED  BY <1>2, <1>3, <1>5

LEMMA ValueInvStep ==
  ASSUME CoInv, NEW F, NEW R, NEW pd, NEW keep, NEW n, Tick(F, R, pd, keep, n)
  PROVE  ValueInv'
<1>0. \A m \in 0 .. InFlight - 1 : Avail(m) => ReadTag(rf', Uops[m].src) = ReadTag(rf, Uops[m].src)
  <2> SUFFICES ASSUME NEW m \in 0 .. InFlight - 1, Avail(m)
               PROVE  ReadTag(rf', Uops[m].src) = ReadTag(rf, Uops[m].src)
    OBVIOUS
  <2> QED  BY ValueStays
<1>1. SUFFICES ASSUME NEW q \in 0 .. Live' - 1, q < Pos(lastIndex)',
                      flags'[Slot(q)'] \in Flags \ (Exception \cup {"NX"}),
                      Uops'[q].tag \in RFTag
               PROVE  /\ Avail(q)' /\ phyRF'[Uops'[q].tag] = rf'[Uops'[q].tag]
                      /\ OpOf(Plus(baseIndex, q))' # "RDCSR" =>
                           rf'[Uops'[q].tag] = Result(Fetch(q), Value(q))'
  BY DEF ValueInv
<1>2. q \in Nat /\ q < Live'
  <2>1. Live' \in Int
    <3>1. CASE trapUOp'.valid
      <4>1. Live' = 0  BY <3>1 DEF Live
      <4> QED  BY <4>1, SMT
    <3>2. CASE trapUOp.valid
      <4>1. Live' = 0  BY <3>2, TrapKind
      <4> QED  BY <4>1, SMT
    <3>3. CASE ~trapUOp.valid /\ ~trapUOp'.valid
      <4>1. PICK l : l = Pos(lastIndex)'  OBVIOUS
      <4>2. Live' \in Nat  BY <3>3, <4>1, LiveMoves
      <4> QED  BY <4>2, SMT
    <3> QED  BY <3>1, <3>2, <3>3
  <2>2. PICK x \in Int : x = Live'  BY <2>1
  <2>3. q \in 0 .. x - 1  BY <2>2
  <2>4. q \in Nat /\ q < x  BY <2>3, SMT
  <2> QED  BY <2>2, <2>4
<1>3. ~trapUOp.valid /\ ~trapUOp'.valid /\ q + n \in 0 .. Live - 1  BY <1>1, <1>2, LivesOn
<1>4. WindowInv /\ WindowInv' /\ RedirectCovers /\ CycleOf(F, n) /\ prog' = prog /\ n \in Nat
  BY TickIsCycle
<1>5. PICK p, d, t :
        /\ p \in 0 .. InFlight - 1 /\ p = q + n /\ d = Fetch(p) /\ Fetch(q)' = d /\ p \in 0 .. Live - 1
        /\ Slot(q)' = Slot(p) /\ t = Uops[p].tag
  <2>1. q + n \in 0 .. InFlight - 1 /\ Fetch(q)' = Fetch(q + n) /\ Slot(q)' = Slot(q + n)
    BY <1>1, <1>2, InstrMoves
  <2> QED  BY <1>3, <2>1
<1>6. /\ Uops'[q].tag = t /\ Uops'[q].src = Uops[p].src /\ t \in RFTag
      /\ Avail(q)' = (Avail(p) \/ Uops[p].src \in WrittenBack(F))
  <2>1. Uops'[q].tag = Uops[q + n].tag /\ Uops'[q].src = Uops[q + n].src
        /\ Avail(q)' = (Avail(q + n) \/ Uops[q + n].src \in WrittenBack(F))
    BY <1>1, <1>2, <1>4, UopsMove
  <2> QED  BY <1>1, <1>5, <2>1
<1>7. OpOf(Plus(baseIndex, q))' = InstrOf(d).op
  <2>1. SlotOf(Plus(baseIndex, q))' = d  BY <1>1, <1>5 DEF Fetch, SlotOf, Slot
  <2> QED  BY <1>4, <2>1 DEF OpOf, InstrOf
<1>8. SUFFICES Avail(p) /\ phyRF'[t] = rf'[t]
               /\ (InstrOf(d).op # "RDCSR" => rf'[t] = Result(d, Value(p)))
  <2>1. ASSUME Avail(p)  PROVE Avail(q)' /\ Value(q)' = Value(p)
    <3>1. ReadTag(rf', Uops[p].src) = ReadTag(rf, Uops[p].src)  BY <1>0, <1>5, <2>1
    <3> QED  BY <1>6, <2>1, <3>1 DEF Value
  <2>2. \A v : Result(Fetch(q), v)' = Result(d, v)  BY <1>4, <1>5, FetchStays
  <2>3. ASSUME NEW v, v = Value(q)'  PROVE Result(Fetch(q), Value(q))' = Result(d, v)
    <3>1. Result(Fetch(q), Value(q))' = Result(Fetch(q), v)'  BY <2>3 DEF Result, InstrOf
    <3> QED  BY <2>2, <3>1
  <2> QED  BY <1>6, <1>7, <2>1, <2>3
<1>9. UopOf(p) /\ WellFetched(d)  BY <1>5 DEF CoInv, UopsInv, UopOf
<1> DEFINE s == Plus(baseIndex, p)
<1>10. /\ p < Pos(lastIndex) =>
            /\ s \in SqNs /\ InROB(s) /\ Pos(s) = p
            /\ Answers(F, s) = {} => flags'[Slot(p)] = flags[Slot(p)]
            /\ Answers(F, s) # {} =>
                 flags'[Slot(p)] = (CHOOSE u \in Answers(F, s) : TRUE).flags
       /\ ~(p < Pos(lastIndex)) => flags'[Slot(p)] = InitialFlags(FuAt(p))
  BY <1>1, <1>2, <1>5, FlagsMove
<1>11. flags'[Slot(p)] \in Flags \ (Exception \cup {"NX"})  BY <1>1, <1>5
<1>12. CASE p < Pos(lastIndex) /\ Answers(F, s) = {}
  <2>1. flags[Slot(p)] \in Flags \ (Exception \cup {"NX"})  BY <1>10, <1>11, <1>12
  <2>2. /\ Avail(p) /\ phyRF[t] = rf[t]
        /\ OpOf(s) # "RDCSR" => rf[t] = Result(d, Value(p))
    BY <1>5, <1>6, <1>12, <2>1 DEF CoInv, ValueInv
  <2>3. OpOf(s) = InstrOf(d).op
    <3>1. SlotOf(s) = d  BY <1>5, <1>12 DEF Fetch, SlotOf, Slot
    <3> QED  BY <3>1 DEF OpOf
  <2>4. Produced(p)  BY <1>12, <2>1 DEF Produced
  <2>5. rf'[t] = rf[t] /\ phyRF'[t] = phyRF[t]  BY <1>5, <1>6, <2>4, ProducedStaysValue
  <2> QED  BY <2>2, <2>3, <2>5
<1>13. CASE p < Pos(lastIndex) /\ Answers(F, s) # {}
  <2>1. PICK u \in F : u.sqN = s  BY <1>13 DEF Answers
  <2>2. F \in ExecCompletions  BY DEF Tick
  <2> HIDE DEF s
  <2>3. Waiting(s) /\ u.tagDst = Unit(s).tagDst  BY <2>1, <2>2, Reported
  <2>4. Pos(s) = p /\ s \in SqNs  BY <1>10, <1>13
  <2>5. Uops[p].tag = Unit(s).tagDst /\ SlotOf(s) = d
    <3>1. LET x == Pos(s) IN Uops[x].tag = Unit(s).tagDst /\ Fetch(x) = SlotOf(s)
      BY <2>3, WaitingUop
    <3> QED  BY <1>5, <2>4, <3>1
  <2>6. u.tagDst = t  BY <1>5, <2>3, <2>5
  <2>7. p = Pos(u.sqN) /\ u.tagDst \in RFTag  BY <1>6, <2>1, <2>4, <2>6
  <2>8. Avail(p)  BY <2>7, WriterUop
  <2>9. rf'[t] = phyRF'[t] /\ (OpOf(u.sqN) # "RDCSR" => rf'[t] = Result(Fetch(p), Value(p)))
    BY <2>6, <2>7, IsWritten
  <2>10. OpOf(u.sqN) = InstrOf(d).op  BY <2>1, <2>5 DEF OpOf
  <2> QED  BY <1>5, <2>8, <2>9, <2>10
<1>14. CASE ~(p < Pos(lastIndex))
  <2>1. FuAt(p) = "RN"
    <3>1. InitialFlags(FuAt(p)) \notin Exception \cup {"NX"}  BY <1>10, <1>11, <1>14
    <3> QED  BY <3>1 DEF InitialFlags, Exception
  <2>2. DecodedUOp(d).fu \in {"RN", "SC"}
    <3>1. FuAt(p) = DecodedUOp(d).fu \/ (DecodedUOp(d).fu = "SC" /\ FuAt(p) = "RN")
      BY <1>5, <1>9 DEF UopOf
    <3> QED  BY <2>1, <3>1
  <2>3. Uops[p].tag \notin RFTag  BY <1>5, <1>9, <2>2 DEF UopOf
  <2> QED  BY <1>5, <1>6, <2>3
<1>15. QED  BY <1>12, <1>13, <1>14

-----------------------------------------------------------------------------
(* The testbench's copies. *)

\* A number in the buffer is not one that has just been committed.
LEMMA AheadOfCommits ==
  ASSUME NEW a \in SqNs, NEW p \in Nat, p < ROBSize, NEW c \in 1 .. Width
  PROVE  Plus(a, p) # Minus(a, c)
  BY RingType, WidthType, SMT DEF Plus, Minus, SqNs

\* What decode and rename hold is copied.
LEMMA FrontCopies ==
  ASSUME CoInv, NEW F, NEW R, NEW pd, NEW keep, NEW n, Tick(F, R, pd, keep, n), NEW i \in Port
  PROVE  /\ de'[i].valid => Copies(tbPd'[i], de'[i])
         /\ rnUOp'[i].valid => Copies(tbDe'[i], rnInstr'[i]) /\ tbDe'[i].rd = rnUOp'[i].rd
<1>1. /\ LogInstructions(F, R, pd, keep) /\ FrontStep(pd) /\ tbPd[i] \in Inst /\ ShadowInv
      /\ prog \in Programs
  BY DEF Tick, ExecCycle, CoInv, CoTypeOK
<1>2. CASE branch.taken
  <2>1. ~de'[i].valid  BY <1>1, <1>2 DEF FrontStep, NoFetch
  <2>2. ~rnUOp'[i].valid  BY <1>2, RenamedFrom
  <2> QED  BY <2>1, <2>2
<1>3. CASE ~branch.taken /\ ~FrontReady
  <2>1. de' = de /\ tbPd' = tbPd  BY <1>1, <1>3 DEF FrontStep, LogInstructions
  <2>2. ~rnUOp'[i].valid  BY <1>3, RenamedFrom DEF RNTakes
  <2>3. de[i].valid => Copies(tbPd[i], de[i])  BY <1>1 DEF ShadowInv
  <2> QED  BY <2>1, <2>2, <2>3
<1>4. CASE ~branch.taken /\ FrontReady
  <2>1. de' = pd /\ tbPd' = LogPredec(pd) /\ tbDe' = LogDecode
    BY <1>1, <1>4 DEF FrontStep, LogInstructions
  <2>2. pd[i].valid => tbPd'[i] = [tbPd[i] EXCEPT !.valid = TRUE, !.flags = "NONE", !.pc = pd[i].pc]
    BY <2>1 DEF LogPredec
  <2>3. pd[i].valid => tbPd'[i].valid /\ tbPd'[i].flags = "NONE" /\ tbPd'[i].pc = pd[i].pc
    BY <1>1, <2>2 DEF Inst
  <2>4. ASSUME rnUOp'[i].valid
        PROVE  Copies(tbDe'[i], rnInstr'[i]) /\ tbDe'[i].rd = rnUOp'[i].rd
    <3>1. de[i].valid /\ rnInstr'[i] = de[i] /\ deUOp[i] = DecodedUOp(de[i])
      BY <2>4, RenamedFrom
    <3>2. rnUOp'[i].rd = DecodedUOp(de[i]).rd  BY <2>4, RenamedUop
    <3>3. tbDe'[i] = [tbPd[i] EXCEPT !.rd = deUOp[i].rd]  BY <2>1, <3>1 DEF LogDecode
    <3>4. /\ tbDe'[i].rd = deUOp[i].rd /\ tbDe'[i].valid = tbPd[i].valid
          /\ tbDe'[i].pc = tbPd[i].pc /\ tbDe'[i].flags = tbPd[i].flags
      BY <1>1, <3>3 DEF Inst
    <3>5. Copies(tbPd[i], de[i])  BY <1>1, <3>1 DEF ShadowInv
    <3> QED  BY <3>1, <3>2, <3>4, <3>5 DEF Copies
  <2> QED  BY <2>1, <2>3, <2>4 DEF Copies
<1>5. QED  BY <1>2, <1>3, <1>4

\* The copy of a uop in the buffer after the cycle.
Flagged(F, s) ==
  IF Answers(F, s) # {} THEN [insts[s] EXCEPT !.flags = (CHOOSE u \in Answers(F, s) : TRUE).flags]
  ELSE insts[s]

LEMMA CopyMoves ==
  ASSUME CoInv, NEW F, NEW R, NEW pd, NEW keep, NEW n, Tick(F, R, pd, keep, n),
         NEW p \in Nat, p < InFlight, NEW s, s = Plus(baseIndex, p)
  PROVE  /\ p < Pos(lastIndex) => insts'[s] = Flagged(F, s)
         /\ ~(p < Pos(lastIndex)) =>
              insts'[s] = [tbDe[RnPort(p)] EXCEPT !.tag = rnUOp[RnPort(p)].tagDst]
<1>1. WindowInv /\ LogInstructions(F, R, pd, keep) /\ CommitInv /\ baseIndex \in SqNs /\ p < ROBSize
  <2>1. WindowInv  BY TickIsCycle
  <2>2. InFlight < ROBSize /\ InFlight \in Nat /\ ROBSize \in Nat  BY <2>1, FlightType, RingType
  <2>3. p < ROBSize  BY <2>2, SMT
  <2> QED  BY <2>1, <2>3, SqNState DEF Tick, CoInv, WindowInv
<1>2. s \in SqNs  BY <1>1, PlusType, RingType, SMT
<1> DEFINE retired == [x \in SqNs |-> IF \E i \in Committing : ComSqN(i) = x
                                      THEN [LogFlags(F)[x] EXCEPT !.valid = FALSE]
                                      ELSE LogFlags(F)[x]]
<1>3. insts' = IF branch.taken THEN retired ELSE LogRename(retired)
  BY <1>1 DEF LogInstructions
<1>4. LogFlags(F)[s] = Flagged(F, s)  BY <1>2 DEF LogFlags, Flagged, Answers
<1>5. ~ \E i \in Committing : ComSqN(i) = s
  <2> SUFFICES ASSUME NEW i \in Committing  PROVE ComSqN(i) # s
    OBVIOUS
  <2>1. i \in Port /\ Committing \subseteq Port  BY DEF Committing
  <2>2. i < ComCount  BY <1>1, <2>1 DEF CommitInv
  <2>3. ComCount \in Nat /\ ComCount <= Width  BY <2>1, PortCard DEF ComCount
  <2>4. ComCount - i \in 1 .. Width  BY <2>1, <2>2, <2>3, WidthType, SMT DEF Port
  <2>5. Plus(baseIndex, p) # Minus(baseIndex, ComCount - i)
    BY <1>1, <2>4, AheadOfCommits
  <2> QED  BY <2>5 DEF ComSqN, ComCount
<1>6. retired[s] = Flagged(F, s)  BY <1>2, <1>4, <1>5
<1> HIDE DEF retired
<1> DEFINE P == {i \in Port : rnUOp[i].valid /\ rnUOp[i].sqN = s}
<1>7. ~branch.taken => insts'[s] = IF P = {} THEN retired[s]
                                  ELSE [tbDe[CHOOSE j \in P : TRUE]
                                          EXCEPT !.tag = rnUOp[CHOOSE j \in P : TRUE].tagDst]
  BY <1>2, <1>3 DEF LogRename
<1>8. ~branch.taken => P \subseteq Enqueued(Slot(p), rnUOp, branch)
  BY DEF Enqueued, Slot
<1>9. CASE p < Pos(lastIndex)
  <2>1. Enqueued(Slot(p), rnUOp, branch) = {}  BY <1>1, <1>9, CameFrom
  <2>2. ~branch.taken => P = {}  BY <1>8, <2>1
  <2> HIDE DEF P
  <2>3. insts'[s] = Flagged(F, s)  BY <1>3, <1>6, <1>7, <2>2
  <2> QED  BY <1>9, <2>3
<1>10. CASE ~(p < Pos(lastIndex))
  <2>1. /\ ~branch.taken /\ RnPort(p) \in Port /\ rnUOp[RnPort(p)].valid
        /\ rnUOp[RnPort(p)].sqN = s /\ Enqueued(Slot(p), rnUOp, branch) = {RnPort(p)}
    BY <1>1, <1>10, CameFrom
  <2>2. P = {RnPort(p)}  BY <1>8, <2>1
  <2> HIDE DEF P
  <2>3. (CHOOSE j \in P : TRUE) = RnPort(p)  BY <2>2
  <2>4. P # {}  BY <2>2
  <2> QED  BY <1>7, <1>10, <2>1, <2>3, <2>4
<1>11. QED  BY <1>9, <1>10

LEMMA ShadowInvStep ==
  ASSUME CoInv, NEW F, NEW R, NEW pd, NEW keep, NEW n, Tick(F, R, pd, keep, n)
  PROVE  ShadowInv'
<1>1. WindowInv /\ WindowInv' /\ RedirectCovers /\ CycleOf(F, n) /\ TypeOK /\ n \in Nat
      /\ F \in AnyCompletions
  BY TickIsCycle
<1>2. ASSUME NEW q \in 0 .. Pos(lastIndex)' - 1, NEW inst, inst = insts'[Plus(baseIndex', q)],
             NEW d, d = Fetch(q)'
      PROVE  /\ inst.valid /\ inst.pc = d.pc
             /\ inst.tag = Uops'[q].tag /\ inst.rd = Uops'[q].rd
             /\ q < Live' => inst.flags = (IF flags'[Slot(q)'] \in {"NX", "TRAP"} THEN "NONE"
                                           ELSE flags'[Slot(q)'])
  <2>1. q \in Nat /\ q < Pos(lastIndex)'
    <3>1. PICK l \in Nat : l = Pos(lastIndex)'  BY TickReplays
    <3>2. q \in 0 .. l - 1  BY <3>1
    <3>3. q \in Nat /\ q < l  BY <3>2, SMT
    <3> QED  BY <3>1, <3>3
  <2>2. PICK p \in 0 .. InFlight - 1 :
          /\ p = q + n /\ p \in Nat /\ p < InFlight /\ d = Fetch(p) /\ Slot(q)' = Slot(p)
    BY <1>2, <2>1, InstrMoves
  <2>3. Uops'[q].tag = Uops[p].tag /\ Uops'[q].rd = Uops[p].rd
    BY <1>1, <2>1, <2>2, UopsMove
  <2>4. PICK s : s = Plus(baseIndex, p)  OBVIOUS
  <2>5. inst = insts'[s]
    <3>1. baseIndex \in SqNs /\ baseIndex' = Plus(baseIndex, n) /\ p < ROBSize
      <4>1. InFlight < ROBSize /\ InFlight \in Nat /\ ROBSize \in Nat
        BY <1>1, FlightType, RingType
      <4>2. p < ROBSize  BY <2>2, <4>1, SMT
      <4> QED  BY <1>1, <4>2, FlightAfter, SqNState
    <3>2. Plus(Plus(baseIndex, n), q) = Plus(baseIndex, q + n)
      BY <1>1, <2>1, <2>2, <3>1, PlusPlus
    <3> QED  BY <1>2, <2>2, <2>4, <3>1, <3>2
  <2>6. /\ p < Pos(lastIndex) =>
             /\ s \in SqNs /\ InROB(s) /\ Pos(s) = p
             /\ Answers(F, s) = {} => flags'[Slot(p)] = flags[Slot(p)]
             /\ Answers(F, s) # {} =>
                  flags'[Slot(p)] = (CHOOSE u \in Answers(F, s) : TRUE).flags
        /\ ~(p < Pos(lastIndex)) => flags'[Slot(p)] = InitialFlags(FuAt(p))
    BY <2>1, <2>2, <2>4, FlagsMove
  <2>7. CASE p < Pos(lastIndex)
    <3>1. inst = Flagged(F, s)  BY <2>2, <2>4, <2>5, <2>7, CopyMoves
    <3>2. p \in 0 .. Pos(lastIndex) - 1
      <4>1. Pos(lastIndex) \in Nat  BY <1>1, FlightType
      <4> QED  BY <2>2, <2>7, <4>1, SMT
    <3>3. /\ insts[s].valid /\ insts[s].pc = d.pc
          /\ insts[s].tag = Uops[p].tag /\ insts[s].rd = Uops[p].rd
          /\ p < Live => insts[s].flags = (IF flags[Slot(p)] \in {"NX", "TRAP"} THEN "NONE"
                                           ELSE flags[Slot(p)])
      BY <2>2, <2>4, <3>2 DEF CoInv, ShadowInv
    <3>4. insts[s] \in Inst  BY <2>6, <2>7 DEF CoInv, CoTypeOK
    <3>5. q < Live' => p < Live
      <4>1. ASSUME q < Live'  PROVE p < Live
        <5>1. q + n \in 0 .. Live - 1 /\ ~trapUOp.valid /\ ~trapUOp'.valid
          BY <2>1, <4>1, LivesOn
        <5>2. PICK l : l = Pos(lastIndex)'  OBVIOUS
        <5>3. l \in Nat /\ Live = l + n  BY <5>1, <5>2, LiveMoves
        <5> QED  BY <1>1, <2>2, <5>1, <5>3, SMT
      <4> QED  BY <4>1
    <3>6. CASE Answers(F, s) = {}
      <4>1. inst = insts[s] /\ flags'[Slot(q)'] = flags[Slot(p)]
        BY <2>2, <2>6, <2>7, <3>1, <3>6 DEF Flagged
      <4> QED  BY <2>3, <3>3, <3>5, <4>1
    <3>7. CASE Answers(F, s) # {}
      <4>1. PICK u \in Answers(F, s) : u = CHOOSE v \in Answers(F, s) : TRUE  BY <3>7
      <4>2. inst = [insts[s] EXCEPT !.flags = u.flags] /\ flags'[Slot(q)'] = u.flags
        BY <2>2, <2>6, <2>7, <3>1, <3>7, <4>1 DEF Flagged
      <4>3. inst.flags = u.flags /\ inst.valid = insts[s].valid /\ inst.pc = insts[s].pc
            /\ inst.tag = insts[s].tag /\ inst.rd = insts[s].rd
        BY <3>4, <4>2 DEF Inst
      <4>4. u.flags # "NX" /\ u.flags # "TRAP"
        <5>1. u \in F  BY DEF Answers
        <5> QED  BY <1>1, <5>1, ReportedFlags
      <4> QED  BY <2>3, <3>3, <4>2, <4>3, <4>4
    <3> QED  BY <3>6, <3>7
  <2>8. CASE ~(p < Pos(lastIndex))
    <3>1. PICK i : i = RnPort(p)  OBVIOUS
    <3>2. /\ ~branch.taken /\ i \in Port /\ rnUOp[i].valid
          /\ Fetch(p) = rnInstr[i] /\ Uops[p].rd = rnUOp[i].rd /\ Uops[p].tag = rnUOp[i].tagDst
      <4>1. ~branch.taken /\ i \in Port /\ rnUOp[i].valid  BY <1>1, <2>2, <2>8, <3>1, CameFrom
      <4>2. Uops[p] = [rd |-> rnUOp[i].rd, tag |-> rnUOp[i].tagDst, src |-> rnUOp[i].tag]
        BY <2>2, <2>8, <3>1 DEF Uops
      <4>3. Uops[p].rd = rnUOp[i].rd /\ Uops[p].tag = rnUOp[i].tagDst  BY <4>2
      <4> QED  BY <2>8, <3>1, <4>1, <4>3 DEF Fetch
    <3>3. inst = [tbDe[i] EXCEPT !.tag = rnUOp[i].tagDst]
      BY <2>2, <2>4, <2>5, <2>8, <3>1, CopyMoves
    <3>4. tbDe[i] \in Inst  BY <3>2 DEF CoInv, CoTypeOK
    <3>5. inst.tag = rnUOp[i].tagDst /\ inst.valid = tbDe[i].valid /\ inst.pc = tbDe[i].pc
          /\ inst.flags = tbDe[i].flags /\ inst.rd = tbDe[i].rd
      BY <3>3, <3>4 DEF Inst
    <3>6. Copies(tbDe[i], rnInstr[i]) /\ tbDe[i].rd = rnUOp[i].rd
      BY <3>2 DEF CoInv, ShadowInv
    <3>7. flags'[Slot(q)'] \in {"NONE", "NX", "TRAP"}
      BY <2>2, <2>6, <2>8 DEF InitialFlags
    <3> QED  BY <2>2, <2>3, <3>2, <3>5, <3>6, <3>7 DEF Copies
  <2> QED  BY <2>7, <2>8
<1>3. \A i \in Port : /\ de'[i].valid => Copies(tbPd'[i], de'[i])
                      /\ rnUOp'[i].valid =>
                           Copies(tbDe'[i], rnInstr'[i]) /\ tbDe'[i].rd = rnUOp'[i].rd
  BY FrontCopies
<1>4. ASSUME NEW i \in Port  PROVE Copies(tbPd[i], de[i])' = Copies(tbPd'[i], de'[i])
                                  /\ Copies(tbDe[i], rnInstr[i])' = Copies(tbDe'[i], rnInstr'[i])
  BY DEF Copies
<1>5. QED  BY <1>2, <1>3, <1>4 DEF ShadowInv

-----------------------------------------------------------------------------
(* The uops that commit. *)

\* A uop that commits is not squashed.
LEMMA CommitsLive ==
  ASSUME CoInv, NEW F, NEW R, NEW pd, NEW keep, NEW n, Tick(F, R, pd, keep, n),
         NEW k \in Nat, k < n
  PROVE  /\ ~branch.taken /\ ~trapUOp.valid /\ ~branch.flush /\ Live = InFlight
         /\ k \in 0 .. Live - 1 /\ k < Live /\ k < Pos(lastIndex) /\ k \in 0 .. InFlight - 1
         /\ Produced(k) /\ flags[Slot(k)] # "NX" /\ ~mispredFlush'
         /\ InROB(Plus(baseIndex, k)) /\ Plus(baseIndex, k) \in SqNs
         /\ SlotOf(Plus(baseIndex, k)) = Fetch(k) /\ ComFetch(k)' = Fetch(k)
         /\ UopOf(k) /\ WellFetched(Fetch(k)) /\ Path(k)
<1>1. /\ k \in Port /\ k < Pos(lastIndex) /\ k < InFlight /\ k \in 0 .. InFlight - 1
      /\ Produced(k) /\ flags[Slot(k)] # "NX" /\ ComSqN(k)' = Plus(baseIndex, k)
      /\ n \in Nat
  BY ComMoves
<1>2. n > 0  BY <1>1, SMT
<1>3. ~branch.taken /\ ~trapUOp.valid /\ ~mispredFlush'  BY <1>2, ComMoves
<1>4. WindowInv /\ FlushRedirects /\ MapInv  BY TickIsCycle, MapParts
<1>5. ~branch.flush /\ Live = InFlight  BY <1>3, <1>4 DEF FlushRedirects, Live
<1>6. /\ Plus(baseIndex, k) \in SqNs /\ InROB(Plus(baseIndex, k)) /\ Slot(k) \in RobIdxs
      /\ Enqueued(Slot(k), rnUOp, branch) = {}
  BY <1>1, <1>4, CameFrom
<1>7. SlotOf(Plus(baseIndex, k)) = Fetch(k)  BY <1>1 DEF SlotOf, Fetch, Slot
<1>8. ComFetch(k)' = Fetch(k)
  <2>1. slot' = [x \in RobIdxs |->
                   LET e == Enqueued(x, rnUOp, branch)
                   IN  IF e # {} THEN rnInstr[CHOOSE i \in e : TRUE] ELSE slot[x]]
    BY DEF Tick, ExecCycle, SlotStep
  <2>2. slot'[Slot(k)] = slot[Slot(k)]  BY <1>6, <2>1
  <2>3. ComFetch(k)' = slot'[Slot(k)]  BY <1>1 DEF ComFetch, SlotOf, Slot
  <2> QED  BY <1>1, <2>2, <2>3 DEF Fetch
<1>9. UopOf(k) /\ WellFetched(Fetch(k))  BY <1>1 DEF CoInv, UopsInv, UopOf
<1>10. Path(k)  BY <1>1, <1>5 DEF CoInv, PathInv
<1>11. QED  BY <1>1, <1>3, <1>5, <1>6, <1>7, <1>8, <1>9, <1>10

\* The tag that its operand had is what the committed map says when its turn comes.
LEMMA ComTagMoves ==
  ASSUME CoInv, NEW F, NEW R, NEW pd, NEW keep, NEW n, Tick(F, R, pd, keep, n),
         NEW k \in Nat, k < n, NEW r, r = DecodedUOp(Fetch(k)).rs
  PROVE  ComTag(k, r)' = Uops[k].src /\ r \in Reg
<1>1. WindowInv /\ TypeOK /\ prog \in Programs  BY TickIsCycle DEF WindowInv
<1>2. /\ ~branch.taken /\ ~trapUOp.valid /\ ~branch.flush /\ k < Pos(lastIndex)
      /\ k \in 0 .. InFlight - 1 /\ WellFetched(Fetch(k))
  BY CommitsLive
<1>3. r \in Reg  BY <1>1, <1>2, DecodedType
<1>4. IF r = 0 THEN Uops[k].src = TAG_ZERO ELSE MapsTo(Uops, k, r, Base[r], Uops[k].src)
  BY <1>2 DEF CoInv, OperandInv
<1>5. CASE r = 0  BY <1>3, <1>4, <1>5 DEF ComTag
<1>6. CASE r # 0
  <2>1. comTag' = Base  BY DEF Tick, RenameMoves, Base
  <2>2. \A q \in 0 .. k - 1 : comUOp'[q].rd = Uops[q].rd /\ comUOp'[q].tag = Uops[q].tag
    <3>1. SUFFICES ASSUME NEW q \in 0 .. k - 1
                   PROVE  comUOp'[q].rd = Uops[q].rd /\ comUOp'[q].tag = Uops[q].tag
      OBVIOUS
    <3>2. n \in Nat  BY TickIsCycle
    <3>3. q \in Nat /\ q < n /\ q + 1 < n  BY <3>2, SMT
    <3>4. comUOp'[q] = Effect(q) /\ ~Asks(q)  BY <3>3, ComMoves
    <3>5. comUOp'[q] = [valid |-> TRUE, rd |-> Uops[q].rd, tag |-> Uops[q].tag]
      BY <3>4 DEF Effect, Asks
    <3> QED  BY <3>5
  <2>3. MapsTo(comUOp', k, r, Base[r], Uops[k].src)
    <3>1. k \in Int  BY SMT
    <3>2. MapsTo(Uops, k, r, Base[r], Uops[k].src)  BY <1>4, <1>6
    <3> QED  BY <2>2, <3>1, <3>2, MapsToSame
  <2>4. Uops[k].src \in Tag
    <3>1. Uops[k].src = backend[Slot(k)].tag /\ Slot(k) \in RobIdxs  BY <1>1, <1>2, SlotAt
    <3> QED  BY <1>1, <3>1 DEF TypeOK, BackendUOp
  <2>5. ASSUME NEW t \in Tag, MapsTo(comUOp', k, r, Base[r], t)  PROVE t = Uops[k].src
    <3>1. k \in Int  BY SMT
    <3> QED  BY <2>3, <2>5, <3>1, MapsToOne
  <2>6. (CHOOSE t \in Tag : MapsTo(comUOp', k, r, Base[r], t)) = Uops[k].src
    BY <2>3, <2>4, <2>5
  <2>7. ComTag(k, r)' = CHOOSE t \in Tag : MapsTo(comUOp', k, r, comTag'[r], t)
    BY <1>6 DEF ComTag, MapsTo
  <2> QED  BY <1>3, <2>1, <2>6, <2>7
<1>7. QED  BY <1>5, <1>6

\* So its operand has the value it was executed with.
LEMMA ComValueMoves ==
  ASSUME CoInv, NEW F, NEW R, NEW pd, NEW keep, NEW n, Tick(F, R, pd, keep, n),
         NEW k \in Nat, k < n
  PROVE  Avail(k) => ComValue(k)' = Value(k)
<1>1. PICK d, r : d = Fetch(k) /\ r = DecodedUOp(Fetch(k)).rs  OBVIOUS
<1>2. ComTag(k, r)' = Uops[k].src  BY <1>1, ComTagMoves
<1>3. ComFetch(k)' = d /\ k \in 0 .. InFlight - 1  BY <1>1, CommitsLive
<1>4. prog' = prog  BY TickIsCycle
<1>5. DecodedUOp(ComFetch(k))'.rs = r
  <2>1. DecodedUOp(d)' = DecodedUOp(d)  BY <1>4, InstrStays
  <2>2. DecodedUOp(ComFetch(k))' = DecodedUOp(d)'  BY <1>3 DEF DecodedUOp, InstrOf, IsBranch
  <2> QED  BY <1>1, <2>1, <2>2
<1>6. ComValue(k)' = ReadTag(rf', Uops[k].src)
  <2>1. ComValue(k)' = ReadTag(rf', ComTag(k, r)')  BY <1>5 DEF ComValue, ComTag
  <2> QED  BY <1>2, <2>1
<1>7. Avail(k) => ReadTag(rf', Uops[k].src) = ReadTag(rf, Uops[k].src)
  BY <1>3, ValueStays
<1>8. QED  BY <1>6, <1>7 DEF Value

\* What its flags say about it.
LEMMA ComFlags ==
  ASSUME CoInv, NEW F, NEW R, NEW pd, NEW keep, NEW n, Tick(F, R, pd, keep, n),
         NEW k \in Nat, k < n
  PROVE  LET d == Fetch(k)
             op == InstrOf(d).op
         IN  /\ flags[Slot(k)] \in CompletesWith(d) /\ op \in Op /\ d.irq \in BOOLEAN
             /\ Asks(k) <=> d.irq \/ op \in {"ILL", "ECALL", "CSRW"}
             /\ flags[Slot(k)] \in Exception <=> d.irq \/ op \in {"ILL", "ECALL"}
             /\ ~d.irq /\ op = "ECALL" => flags[Slot(k)] = "TRAP"
             /\ ~d.irq /\ op = "ILL" => flags[Slot(k)] = "ILLEGAL"
             /\ flags[Slot(k)] = "TRAP" => d.irq \/ op = "ECALL"
<1>1. /\ k < Pos(lastIndex) /\ flags[Slot(k)] # "NX" /\ WellFetched(Fetch(k))
      /\ k \in 0 .. Pos(lastIndex) - 1
  BY CommitsLive, ComMoves
<1>2. PICK d, op : d = Fetch(k) /\ op = InstrOf(d).op  OBVIOUS
<1>3. flags[Slot(k)] \in CompletesWith(d)  BY <1>1, <1>2 DEF CoInv, FlagsInv
<1>4. op \in Op /\ d.irq \in BOOLEAN
  <2>1. prog \in Programs  BY TickIsCycle
  <2> QED  BY <1>1, <1>2, <2>1, DecodedUnit
<1>5. CASE d.irq
  <2>1. flags[Slot(k)] = "TRAP"  BY <1>3, <1>5 DEF CompletesWith
  <2> QED  BY <1>2, <1>3, <1>4, <1>5, <2>1 DEF Asks, Exception
<1>6. CASE ~d.irq /\ op = "ECALL"
  <2>1. flags[Slot(k)] = "TRAP"  BY <1>2, <1>3, <1>6 DEF CompletesWith, IsBranch
  <2> QED  BY <1>2, <1>3, <1>4, <1>6, <2>1 DEF Asks, Exception
<1>7. CASE ~d.irq /\ op = "ILL"
  <2>1. flags[Slot(k)] = "ILLEGAL"  BY <1>2, <1>3, <1>7 DEF CompletesWith, IsBranch
  <2> QED  BY <1>2, <1>3, <1>4, <1>7, <2>1 DEF Asks, Exception
<1>8. CASE ~d.irq /\ op = "CSRW"
  <2>1. flags[Slot(k)] = "ORDERING"  BY <1>2, <1>3, <1>8 DEF CompletesWith, IsBranch
  <2> QED  BY <1>2, <1>3, <1>4, <1>8, <2>1 DEF Asks, Exception
<1>9. CASE ~d.irq /\ op \notin {"ECALL", "ILL", "CSRW"}
  <2>1. flags[Slot(k)] \in {"NONE", "PRED"}
    BY <1>2, <1>3, <1>9 DEF CompletesWith, IsBranch
  <2> QED  BY <1>2, <1>3, <1>4, <1>9, <2>1 DEF Asks, Exception
<1>10. QED  BY <1>4, <1>5, <1>6, <1>7, <1>8, <1>9

\* What follows it is what follows in the program.
LEMMA PathCommitted ==
  ASSUME CoInv, NEW F, NEW R, NEW pd, NEW keep, NEW n, Tick(F, R, pd, keep, n),
         NEW k \in Nat, k < n, ~Asks(k)
  PROVE  NextAddr(k) = ComNext(k)'
<1>1. /\ Path(k) /\ Produced(k) /\ ComFetch(k)' = Fetch(k) /\ WellFetched(Fetch(k))
  BY CommitsLive
<1>2. PICK d, op : d = Fetch(k) /\ op = InstrOf(d).op  OBVIOUS
<1>3. ~d.irq /\ op \notin {"ILL", "ECALL", "CSRW"}  BY <1>2, ComFlags
<1>4. prog' = prog  BY TickIsCycle
<1>5. PICK v : v = ComValue(k)'  OBVIOUS
<1>6. ComNext(k)' = NextPC(prog, d.pc, v)  BY <1>1, <1>2, <1>4, <1>5 DEF ComNext
<1>7. CASE IsBranch(d)
  <2>1. Avail(k) /\ NextAddr(k) = NextPC(prog, d.pc, Value(k))
    BY <1>1, <1>2, <1>7 DEF Path
  <2>2. v = Value(k)  BY <1>5, <2>1, ComValueMoves
  <2> QED  BY <1>6, <2>1, <2>2
<1>8. CASE ~IsBranch(d)
  <2>1. NextAddr(k) = d.predPC  BY <1>1, <1>2, <1>8 DEF Path
  <2>2. d.predPC = Seq1(prog, d.pc)  BY <1>1, <1>2, <1>3, <1>8 DEF WellFetched
  <2>3. op \notin {"BEQZ", "JALR"} /\ op = At(prog, d.pc).op
    BY <1>2, <1>3, <1>8 DEF IsBranch, InstrOf
  <2>4. NextPC(prog, d.pc, v) = Seq1(prog, d.pc)
    BY <1>3, <2>3 DEF NextPC, IsTrap
  <2> QED  BY <1>6, <2>1, <2>2, <2>4
<1>9. QED  BY <1>7, <1>8

-----------------------------------------------------------------------------
(* The map while the commits of a cycle are looked at one after the other. *)

LEMMA CommitPorts ==
  ASSUME CoInv
  PROVE  /\ ComCount \in 0 .. Width /\ ComCount \in Nat /\ comTag \in [Reg -> Tag] /\ comTag[0] = TAG_ZERO
         /\ \A i \in Port : i \in Committing <=> i < ComCount
         /\ \A k \in Nat : k < ComCount =>
              /\ k \in Port /\ comUOp[k].valid /\ comUOp[k].rd \in Reg /\ comUOp[k].tag \in Tag
              /\ ComUop(k) /\ CommitOwns(k, comUOp[k].tag)
         /\ mispredFlush => ComCount = 0
         /\ ~mispredFlush => \A i \in Port : comUOp[i].valid <=> i < ComCount
<1>1. TypeOK /\ ZeroIsConstant /\ CommitInv  BY MapParts DEF CoInv
<1>2. comTag \in [Reg -> Tag] /\ comUOp \in [Port -> RATWrite] /\ comTag[0] = TAG_ZERO
  BY <1>1 DEF TypeOK, RATTypeOK, ROBTypeOK, ZeroIsConstant
<1>3. Committing \subseteq Port  BY DEF Committing
<1>4. ComCount \in Nat /\ ComCount <= Width  BY <1>3, PortCard DEF ComCount
<1>5. ComCount \in 0 .. Width  BY <1>4, WidthType, SMT
<1>6. \A i \in Port : i \in Committing <=> i < ComCount  BY <1>1 DEF CommitInv
<1>7. ASSUME NEW k \in Nat, k < ComCount
      PROVE  /\ k \in Port /\ comUOp[k].valid /\ comUOp[k].rd \in Reg /\ comUOp[k].tag \in Tag
             /\ ComUop(k) /\ CommitOwns(k, comUOp[k].tag)
  <2>1. k \in Port /\ k \in 0 .. ComCount - 1  BY <1>4, <1>7, WidthType, SMT DEF Port
  <2>2. comUOp[k].valid /\ ~mispredFlush  BY <1>6, <1>7, <2>1 DEF Committing
  <2>3. comUOp[k] \in RATWrite  BY <1>2, <2>1
  <2> QED  BY <1>1, <2>1, <2>2, <2>3 DEF RATWrite, CommitInv, CommitOwns
<1>8. mispredFlush => ComCount = 0
  <2>1. Cardinality({}) = 0  BY FS_EmptySet
  <2> QED  BY <2>1 DEF ComCount, Committing
<1>9. ~mispredFlush => \A i \in Port : comUOp[i].valid <=> i < ComCount
  BY <1>6 DEF Committing
<1>10. QED  BY <1>2, <1>4, <1>5, <1>6, <1>7, <1>8, <1>9

\* There is one tag for every register, at every point.
LEMMA ComTagMaps ==
  ASSUME CoInv, NEW k \in Nat, k <= ComCount, NEW r \in Reg, r # 0
  PROVE  ComTag(k, r) \in Tag /\ MapsTo(comUOp, k, r, comTag[r], ComTag(k, r))
<1>1. PICK t : MapsTo(comUOp, k, r, comTag[r], t)  BY MapsToSome
<1>2. t \in Tag
  <2>1. CASE \A q \in 0 .. k - 1 : comUOp[q].rd # r
    BY <1>1, <2>1, CommitPorts DEF MapsTo
  <2>2. CASE \E q \in 0 .. k - 1 : comUOp[q].rd = r /\ comUOp[q].tag = t
    <3>1. PICK q \in 0 .. k - 1 : comUOp[q].tag = t  BY <2>2
    <3>2. ComCount \in Nat  BY CommitPorts
    <3>3. q \in Nat /\ q < ComCount  BY <3>2, SMT
    <3> QED  BY <3>1, <3>3, CommitPorts
  <2> QED  BY <1>1, <2>1, <2>2 DEF MapsTo
<1>3. ComTag(k, r) = CHOOSE x \in Tag : MapsTo(comUOp, k, r, comTag[r], x)  BY DEF ComTag
<1>4. QED  BY <1>1, <1>2, <1>3

LEMMA ComTagZero ==
  ASSUME CoInv, NEW r \in Reg
  PROVE  ComTag(0, r) = comTag[r]
<1>1. CASE r = 0  BY <1>1, CommitPorts DEF ComTag
<1>2. CASE r # 0
  <2>1. 0 \in Nat /\ 0 <= ComCount /\ 0 .. 0 - 1 = {}  BY CommitPorts, SMT
  <2>2. MapsTo(comUOp, 0, r, comTag[r], ComTag(0, r))  BY <1>2, <2>1, ComTagMaps
  <2> QED  BY <2>1, <2>2 DEF MapsTo
<1>3. QED  BY <1>1, <1>2

\* A commit gives its register its tag.
LEMMA ComTagNext ==
  ASSUME CoInv, NEW k \in Nat, k < ComCount, NEW r \in Reg
  PROVE  /\ ComTag(k, r) \in Tag /\ ComTag(k + 1, r) \in Tag
         /\ ComTag(k + 1, r) = IF comUOp[k].rd = r /\ r # 0 THEN comUOp[k].tag ELSE ComTag(k, r)
<1>1. CASE r = 0  BY <1>1, TagType DEF ComTag
<1>2. CASE r # 0
  <2>1. /\ k + 1 \in Nat /\ k + 1 <= ComCount /\ k <= ComCount /\ k + 1 \in Int
        /\ 0 .. (k + 1) - 1 = (0 .. k - 1) \cup {k} /\ k + 1 .. (k + 1) - 1 = {}
        /\ \A q \in 0 .. k - 1 : q + 1 .. (k + 1) - 1 = (q + 1 .. k - 1) \cup {k}
    BY CommitPorts, SMT
  <2>2. /\ ComTag(k, r) \in Tag /\ MapsTo(comUOp, k, r, comTag[r], ComTag(k, r))
        /\ ComTag(k + 1, r) \in Tag /\ MapsTo(comUOp, k + 1, r, comTag[r], ComTag(k + 1, r))
    BY <1>2, <2>1, ComTagMaps
  <2>3. CASE comUOp[k].rd = r
    <3>1. MapsTo(comUOp, k + 1, r, comTag[r], comUOp[k].tag)  BY <2>1, <2>3 DEF MapsTo
    <3>2. ComTag(k + 1, r) = comUOp[k].tag  BY <2>1, <2>2, <3>1, MapsToOne
    <3> QED  BY <1>2, <2>2, <2>3, <3>2
  <2>4. CASE comUOp[k].rd # r
    <3> DEFINE t == ComTag(k, r)
    <3>0. MapsTo(comUOp, k, r, comTag[r], t)  BY <2>2
    <3> HIDE DEF t
    <3>1. MapsTo(comUOp, k + 1, r, comTag[r], t)
      <4>1. CASE (\A q \in 0 .. k - 1 : comUOp[q].rd # r) /\ comTag[r] = t
        BY <2>1, <2>4, <4>1 DEF MapsTo
      <4>2. CASE \E q \in 0 .. k - 1 : /\ comUOp[q].rd = r /\ comUOp[q].tag = t
                                       /\ \A x \in q + 1 .. k - 1 : comUOp[x].rd # r
        <5>1. PICK q \in 0 .. k - 1 : /\ comUOp[q].rd = r /\ comUOp[q].tag = t
                                      /\ \A x \in q + 1 .. k - 1 : comUOp[x].rd # r
          BY <4>2
        <5>2. \A x \in q + 1 .. (k + 1) - 1 : comUOp[x].rd # r  BY <2>1, <2>4, <5>1
        <5>3. q \in 0 .. (k + 1) - 1  BY <2>1
        <5> QED  BY <5>1, <5>2, <5>3 DEF MapsTo
      <4> QED  BY <3>0, <4>1, <4>2 DEF MapsTo
    <3>2. ComTag(k + 1, r) = t  BY <2>1, <2>2, <3>1, MapsToOne
    <3> QED  BY <2>2, <2>4, <3>2 DEF t
  <2> QED  BY <2>3, <2>4
<1>3. QED  BY <1>1, <1>2

\* After all of them the committed map says the same.
LEMMA ComTagLast ==
  ASSUME CoInv, NEW r \in Reg
  PROVE  ComTag(ComCount, r) = Base[r]
<1>1. ComCount \in Nat /\ ComCount <= ComCount /\ ComCount \in 0 .. Width /\ ComCount \in Int
  BY CommitPorts, SMT
<1>2. CASE mispredFlush
  <2>1. ComCount = 0  BY <1>2, CommitPorts
  <2> QED  BY <1>2, <2>1, ComTagZero DEF Base
<1>3. CASE ~mispredFlush
  <2>1. Base = Written(comTag, comUOp)  BY <1>3 DEF Base
  <2>2. CASE r = 0
    <3>1. Base[0] = comTag[0]
      <4>1. Written(comTag, comUOp) = [x \in Reg |-> IF \E i \in Port : LastWriter(i, x, comUOp)
                 THEN comUOp[CHOOSE i \in Port : LastWriter(i, x, comUOp)].tag
                 ELSE comTag[x]]
        BY DEF Written
      <4>2. \A i \in Port : ~LastWriter(i, 0, comUOp)  BY DEF LastWriter
      <4>3. 0 \in Reg  BY TagType
      <4> QED  BY <2>1, <4>1, <4>2, <4>3
    <3> QED  BY <2>2, <3>1, CommitPorts DEF ComTag
  <2>3. CASE r # 0
    <3>1. MapsTo(comUOp, 0, r, comTag[r], comTag[r])
      <4>1. 0 .. 0 - 1 = {}  BY SMT
      <4> QED  BY <4>1 DEF MapsTo
    <3>2. \A i \in Port : comUOp[i].valid <=> i < ComCount  BY <1>3, CommitPorts
    <3>3. \A i \in Port : 0 + i = i  BY WidthType, SMT DEF Port
    <3>4. PICK m : m = ComCount  OBVIOUS
    <3>5. 0 + m = m  BY <1>1, <3>4, SMT
    <3>6. MapsTo(comUOp, 0 + m, r, comTag[r], Written(comTag, comUOp)[r])
      <4>1. m \in 0 .. Width /\ 0 \in Nat  BY <1>1, <3>4, SMT
      <4>2. r \in Reg \ {0}  BY <2>3
      <4>3. \A i \in Port : comUOp[i].valid <=> i < m  BY <3>2, <3>4
      <4>4. \A i \in Port : i < m => comUOp[0 + i].rd = comUOp[i].rd /\ comUOp[0 + i].tag = comUOp[i].tag
        BY <3>3
      <4> QED  BY <3>1, <4>1, <4>2, <4>3, <4>4, MapsToWritten
    <3>7. MapsTo(comUOp, m, r, comTag[r], ComTag(m, r))  BY <1>1, <2>3, <3>4, ComTagMaps
    <3>8. m \in Int  BY <1>1, <3>4
    <3> QED  BY <2>1, <3>4, <3>5, <3>6, <3>7, <3>8, MapsToOne
  <2> QED  BY <2>2, <2>3
<1>4. QED  BY <1>2, <1>3

-----------------------------------------------------------------------------
(* What the testbench reads about a commit. *)

\* The numbers of the commits are behind the buffer, and no two are the same.
LEMMA ComNumbers ==
  ASSUME CoInv, NEW k \in Nat, k < ComCount
  PROVE  /\ ComSqN(k) \in SqNs /\ ~InROB(ComSqN(k))
         /\ TrapAt(ComSqN(k)) = Traps(k)
<1>1. WindowInv /\ baseIndex \in SqNs  BY MapParts, SqNState DEF CoInv, WindowInv
<1>2. PICK c \in Nat : c = ComCount  BY CommitPorts
<1>3. c \in 0 .. Width /\ k < c  BY <1>2, CommitPorts
<1>4. ComSqN(k) = Minus(baseIndex, c - k)  BY <1>2 DEF ComSqN, ComCount
<1>5. c - k \in 1 .. Width /\ c - k \in Nat /\ c - k <= Ring
  BY <1>3, WidthType, RingType, SMT
<1>6. ComSqN(k) \in SqNs  BY <1>1, <1>4, <1>5, MinusType
<1>7. ~InROB(ComSqN(k))
  <2>1. SUFFICES ASSUME InROB(ComSqN(k))  PROVE FALSE
    OBVIOUS
  <2>2. PICK p \in Nat : p < Pos(lastIndex) /\ ComSqN(k) = Plus(baseIndex, p)
    BY <1>1, <2>1, PosOfSlot
  <2>3. Pos(lastIndex) <= InFlight /\ InFlight < ROBSize /\ Pos(lastIndex) \in Nat /\ InFlight \in Nat
    BY <1>1, FlightType
  <2>4. p < ROBSize  BY <2>2, <2>3, RingType, SMT
  <2> QED  BY <1>1, <1>4, <1>5, <2>2, <2>4, AheadOfCommits
<1>8. TrapAt(ComSqN(k)) = Traps(k)
  <2>1. CASE ~trapUOp.valid  BY <2>1 DEF TrapAt, Traps
  <2>2. CASE trapUOp.valid
    <3>1. c > 0 /\ c - 1 \in Nat /\ c - 1 < c
      <4>1. c > 0  BY <1>2, <1>3, SMT
      <4> QED  BY <4>1, SMT
    <3>2. ComUop(c - 1) /\ Traps(c - 1)  BY <1>2, <2>2, <3>1, CommitPorts DEF Traps
    <3>3. trapUOp.sqN = ComSqN(c - 1)  BY <3>2 DEF ComUop
    <3>4. ComSqN(c - 1) = Minus(baseIndex, c - (c - 1))  BY <1>2 DEF ComSqN, ComCount
    <3>5. Traps(k) = (k = c - 1)  BY <1>2, <2>2 DEF Traps
    <3>6. (Minus(baseIndex, c - k) = Minus(baseIndex, c - (c - 1))) = (k = c - 1)
      <4>1. Minus(baseIndex, c - k) = Minus(baseIndex, c - (c - 1)) <=> k = c - 1
        BY <1>1, <1>3, <1>5, <3>1, RingType, WidthType, SMT DEF Minus, SqNs
      <4> QED  BY <4>1
    <3> QED  BY <1>4, <2>2, <3>3, <3>4, <3>5, <3>6 DEF TrapAt
  <2> QED  BY <2>1, <2>2
<1>9. QED  BY <1>6, <1>7, <1>8

\* No report of the cycle is about a uop that commits.
LEMMA ComLogged ==
  ASSUME CoInv, NEW F \in ExecCompletions, NEW k \in Nat, k < ComCount
  PROVE  LogFlags(F)[ComSqN(k)] = insts[ComSqN(k)]
<1>1. PICK s : s = ComSqN(k)  OBVIOUS
<1>2. s \in SqNs /\ ~InROB(s)  BY <1>1, ComNumbers
<1>3. {u \in F : u.sqN = s /\ ~u.doNotCommit} = {}
  <2>1. SUFFICES ASSUME NEW u \in F, u.sqN = s  PROVE FALSE
    OBVIOUS
  <2>2. Waiting(s)  BY <2>1, Reported
  <2> QED  BY <1>2, <2>2 DEF Waiting
<1>4. LogFlags(F)[s] = insts[s]  BY <1>2, <1>3 DEF LogFlags
<1>5. QED  BY <1>1, <1>4

\* How the instruction ends, and what of it counts.
LEMMA ComKind ==
  ASSUME CoInv, NEW k \in Nat, k < ComCount, NEW d, d = ComFetch(k), NEW op, op = InstrOf(d).op
  PROVE  /\ op \in Op /\ d.irq \in BOOLEAN /\ WellFetched(d)
         /\ Traps(k) = (d.irq \/ op \in {"ILL", "ECALL", "CSRW"})
         /\ IsInterrupt(k) = d.irq
         /\ k \in RetiredPorts <=> ~(d.irq \/ op \in {"ILL", "ECALL"})
         /\ \A keep \in BOOLEAN :
              /\ IsKept(k, keep) = (~d.irq /\ op = "CSRW" /\ keep)
              /\ Traps(k) => TrapDst(keep) = IF ~d.irq /\ op = "CSRW" /\ ~keep THEN Seq1(prog, d.pc)
                                             ELSE Handler
<1>1. ComUop(k) /\ k \in Port /\ k \in Committing  BY CommitPorts
<1>2. /\ WellFetched(d) /\ (Traps(k) <=> d.irq \/ op \in {"ILL", "ECALL", "CSRW"})
      /\ Traps(k) => trapUOp.flags \in CompletesWith(d) /\ trapUOp.sqN = ComSqN(k)
  BY <1>1 DEF ComUop
<1>3. op \in Op /\ d.irq \in BOOLEAN
  <2>1. prog \in Programs  BY DEF CoInv, CoTypeOK
  <2>2. InstrOf(d) \in Instr  BY <1>2, <2>1, DecodedType
  <2> QED  BY <1>2, <2>2 DEF Instr, WellFetched, Fetched
<1>4. TrapAt(ComSqN(k)) = Traps(k)  BY ComNumbers
<1>5. SlotOf(ComSqN(k)) = d  BY DEF ComFetch
<1>6. d.irq => CompletesWith(d) = {"TRAP"}  BY DEF CompletesWith
<1>7. ~d.irq /\ op = "ECALL" => CompletesWith(d) = {"TRAP"}  BY DEF CompletesWith, IsBranch
<1>8. ~d.irq /\ op = "ILL" => CompletesWith(d) = {"ILLEGAL"}  BY DEF CompletesWith, IsBranch
<1>9. ~d.irq /\ op = "CSRW" => CompletesWith(d) = {"ORDERING"}  BY DEF CompletesWith, IsBranch
<1> DEFINE fl == trapUOp.flags
<1>10. Traps(k) => fl = IF d.irq \/ op = "ECALL" THEN "TRAP" ELSE IF op = "ILL" THEN "ILLEGAL"
                        ELSE "ORDERING"
  BY <1>2, <1>6, <1>7, <1>8, <1>9
<1> HIDE DEF fl
<1>11. Traps(k) \in BOOLEAN  BY <1>4 DEF TrapAt, Traps, CoInv
<1>12. Traps(k) = (d.irq \/ op \in {"ILL", "ECALL", "CSRW"})  BY <1>2, <1>11
<1>13. IsInterrupt(k) = (Traps(k) /\ fl = "TRAP" /\ d.irq)  BY <1>4, <1>5 DEF IsInterrupt, fl
<1>14. IsInterrupt(k) = d.irq  BY <1>3, <1>10, <1>12, <1>13
<1>15. k \in RetiredPorts <=> ~(Traps(k) /\ fl \in Exception)
  BY <1>1, <1>4 DEF RetiredPorts, fl
<1>16. k \in RetiredPorts <=> ~(d.irq \/ op \in {"ILL", "ECALL"})
  BY <1>3, <1>10, <1>12, <1>15 DEF Exception
<1>17. ASSUME NEW keep \in BOOLEAN
       PROVE  /\ IsKept(k, keep) = (~d.irq /\ op = "CSRW" /\ keep)
              /\ Traps(k) => TrapDst(keep) = IF ~d.irq /\ op = "CSRW" /\ ~keep THEN Seq1(prog, d.pc)
                                             ELSE Handler
  <2>1. IsKept(k, keep) = (Traps(k) /\ fl = "ORDERING" /\ keep)  BY <1>4 DEF IsKept, fl
  <2>2. Traps(k) => (fl = "ORDERING" <=> ~d.irq /\ op = "CSRW")  BY <1>10, <1>12
  <2>3. IsKept(k, keep) = (~d.irq /\ op = "CSRW" /\ keep)  BY <1>12, <2>1, <2>2
  <2>4. Traps(k) => SlotOf(trapUOp.sqN) = d  BY <1>2, <1>5
  <2>5. Traps(k) => TrapDst(keep) = IF fl = "ORDERING" /\ ~keep THEN Seq1(prog, d.pc) ELSE Handler
    BY <2>4 DEF TrapDst, fl
  <2> QED  BY <2>2, <2>3, <2>5
<1>18. QED  BY <1>2, <1>3, <1>12, <1>14, <1>16, <1>17

\* The result of a commit is the same for both sides, and stays.
LEMMA ComResult ==
  ASSUME CoInv, NEW F, NEW R, NEW pd, NEW keep, NEW n, Tick(F, R, pd, keep, n),
         NEW k \in Nat, k < ComCount, comUOp[k].rd # 0
  PROVE  ReadTag(phyRF', comUOp[k].tag) = ReadTag(rf, comUOp[k].tag)
<1>1. PICK t : t = comUOp[k].tag  OBVIOUS
<1>2. CommitOwns(k, t) /\ ComUop(k)  BY <1>1, CommitPorts
<1>3. t \in RFTag => phyRF'[t] = phyRF[t]  BY <1>2, OwnedStaysValue
<1>4. t \in RFTag => phyRF[t] = rf[t]  BY <1>1, <1>2 DEF ComUop
<1>5. QED  BY <1>1, <1>3, <1>4 DEF ReadTag

-----------------------------------------------------------------------------
(* The reference executes what commits. *)

\* Where the program is before commit k, what the registers hold, what has retired.
ComPC(k, keep) ==
  IF k = 0 THEN arch.pc ELSE IF Traps(k - 1) THEN TrapDst(keep) ELSE ComNext(k - 1)
ComReg(k) == [r \in Reg |-> ReadTag(rf, ComTag(k, r))]
ComRet(k) == Cardinality({i \in RetiredPorts : i < k})

\* m is the machine before commit k.
RefAt(m, k, keep) ==
  /\ m \in Machines(prog) /\ m.pc = ComPC(k, keep) /\ m.reg = ComReg(k)
  /\ m.minstret = (minstret + ComRet(k)) % MinstretMod
  /\ At(prog, m.pc).op = "SC" => m.res = TRUE
  /\ prog \in Backups => m.res = FALSE

LEMMA ReadType ==
  ASSUME CoInv, NEW t \in Tag
  PROVE  ReadTag(rf, t) \in Val
<1>1. CASE t \in RFTag  BY <1>1 DEF ReadTag, CoInv, CoTypeOK
<1>2. CASE t \notin RFTag
  <2>1. t \in {TAG_ZERO, TAG_ONE}  BY <1>2 DEF Tag, ImmTag
  <2>2. t - TAG_ZERO \in {0, 1}  BY <2>1, IncludeAssumption, SMT DEF TAG_ZERO, TAG_ONE
  <2> QED  BY <1>2, <2>2, RegsAgree DEF ReadTag
<1>3. QED  BY <1>1, <1>2

LEMMA ReadZero == ReadTag(rf, TAG_ZERO) = 0
<1>1. TAG_ZERO - TAG_ZERO = 0  BY IncludeAssumption, SMT DEF TAG_ZERO
<1>2. QED  BY <1>1, ImmediatesAreNoRegisters DEF ReadTag

\* What a commit changes of the registers.
LEMMA ComRegNext ==
  ASSUME CoInv, NEW k \in Nat, k < ComCount
  PROVE  /\ ComReg(k) \in [Reg -> Val] /\ ComReg(k + 1) \in [Reg -> Val]
         /\ ComReg(k + 1) = SetReg(ComReg(k), comUOp[k].rd, ReadTag(rf, comUOp[k].tag))
<1> DEFINE w == ReadTag(rf, comUOp[k].tag)
           rd == comUOp[k].rd
<1>1. \A r \in Reg : /\ ReadTag(rf, ComTag(k, r)) \in Val /\ ReadTag(rf, ComTag(k + 1, r)) \in Val
                     /\ ReadTag(rf, ComTag(k + 1, r)) = IF rd = r /\ r # 0 THEN w
                                                        ELSE ReadTag(rf, ComTag(k, r))
  BY ComTagNext, ReadType
<1>2. rd \in Reg  BY CommitPorts
<1> HIDE DEF w, rd
<1>3. ComReg(k) \in [Reg -> Val] /\ ComReg(k + 1) \in [Reg -> Val]  BY <1>1 DEF ComReg
<1>4. CASE rd = 0
  <2>1. \A r \in Reg : ComReg(k + 1)[r] = ComReg(k)[r]  BY <1>1, <1>4 DEF ComReg
  <2>2. ComReg(k + 1) = ComReg(k)  BY <1>3, <2>1
  <2> QED  BY <1>3, <1>4, <2>2 DEF SetReg, rd
<1>5. CASE rd # 0
  <2>1. \A r \in Reg : ComReg(k + 1)[r] = [ComReg(k) EXCEPT ![rd] = w][r]
    BY <1>1, <1>2, <1>3, <1>5 DEF ComReg
  <2>2. DOMAIN [ComReg(k) EXCEPT ![rd] = w] = Reg /\ DOMAIN ComReg(k + 1) = Reg  BY <1>3
  <2>3. ComReg(k + 1) = [ComReg(k) EXCEPT ![rd] = w]  BY <1>3, <2>1, <2>2
  <2> QED  BY <1>3, <1>5, <2>3 DEF SetReg, rd, w
<1>6. QED  BY <1>4, <1>5

\* What a commit changes of the number of retired instructions.
LEMMA ComRetNext ==
  ASSUME CoInv, NEW k \in Nat, k < ComCount
  PROVE  /\ ComRet(k) \in Nat /\ ComRet(k + 1) \in Nat
         /\ ComRet(k + 1) = ComRet(k) + (IF k \in RetiredPorts THEN 1 ELSE 0)
<1> DEFINE S == {i \in RetiredPorts : i < k}
           T == {i \in RetiredPorts : i < k + 1}
<1>1. RetiredPorts \subseteq Port  BY DEF RetiredPorts, Committing
<1>2. IsFiniteSet(Port)  BY WidthType, FS_Interval, SMT DEF Port
<1>3. IsFiniteSet(S)  BY <1>1, <1>2, FS_Subset
<1>4. T = IF k \in RetiredPorts THEN S \cup {k} ELSE S
  <2>1. \A i \in Port : i < k + 1 <=> i < k \/ i = k  BY WidthType, SMT DEF Port
  <2> QED  BY <1>1, <2>1
<1>5. k \notin S  BY SMT
<1> HIDE DEF S, T
<1>6. Cardinality(S) \in Nat  BY <1>3, FS_CardinalityType
<1>7. Cardinality(S \cup {k}) = Cardinality(S) + 1  BY <1>3, <1>5, FS_AddElement
<1>8. ComRet(k) = Cardinality(S) /\ ComRet(k + 1) = Cardinality(T)  BY DEF ComRet, S, T
<1>9. QED  BY <1>4, <1>6, <1>7, <1>8, SMT

\* The in-order machine executes the same instructions.
LEMMA ArchSteps ==
  ASSUME NEW p, NEW m
  PROVE  /\ Arch!Interrupted(m) = Interrupted(m) /\ Arch!Stepped(p, m) = Stepped(p, m)
         /\ \A x, r, v : Arch!SetReg(x, r, v) = SetReg(x, r, v)
         /\ Arch!At(p, m.pc) = At(p, m.pc) /\ Arch!Val = Val
<1>1. Arch!Stepped(p, m) = Stepped(p, m)
  BY DEF Arch!Stepped, Stepped, Arch!NextPC, NextPC, Arch!At, At, Arch!IsTrap, IsTrap, Arch!SetReg,
         SetReg, Arch!ResultOf, ResultOf, Arch!Retired, Retired, Arch!Handler, Handler, Arch!Seq1, Seq1
<1>2. Arch!Interrupted(m) = Interrupted(m)
  BY DEF Arch!Interrupted, Interrupted, Arch!Handler, Handler
<1>3. /\ \A x, r, v : Arch!SetReg(x, r, v) = SetReg(x, r, v)
      /\ Arch!At(p, m.pc) = At(p, m.pc) /\ Arch!Val = Val
  BY DEF Arch!SetReg, SetReg, Arch!At, At, Arch!Val, Val
<1>4. QED  BY <1>1, <1>2, <1>3

\* What one instruction may make of machine m.
LEMMA OutcomeKinds ==
  ASSUME NEW m, NEW op, op = At(prog, m.pc).op
  PROVE  /\ Interrupted(m) \in Arch!Outcomes(prog, m)
         /\ op \notin {"RDCSR"} => Stepped(prog, m) \in Arch!Outcomes(prog, m)
         /\ op = "RDCSR" => \A v \in Val :
              [Stepped(prog, m) EXCEPT !.reg = SetReg(m.reg, At(prog, m.pc).rd, v)]
                \in Arch!Outcomes(prog, m)
         /\ op = "SC" => Stepped(prog, [m EXCEPT !.res = FALSE]) \in Arch!Outcomes(prog, m)
         /\ op = "CSRW" => Interrupted(Stepped(prog, m)) \in Arch!Outcomes(prog, m)
<1>1. /\ \A x : Arch!Interrupted(x) = Interrupted(x) /\ Arch!Stepped(prog, x) = Stepped(prog, x)
      /\ \A x, r, v : Arch!SetReg(x, r, v) = SetReg(x, r, v)
      /\ Arch!At(prog, m.pc) = At(prog, m.pc) /\ Arch!Val = Val
  BY ArchSteps
<1> DEFINE i == At(prog, m.pc)
           X == IF op = "RDCSR" THEN {[Stepped(prog, m) EXCEPT !.reg = SetReg(m.reg, i.rd, v)] : v \in Val}
                ELSE IF op = "SC" THEN {Stepped(prog, m), Stepped(prog, [m EXCEPT !.res = FALSE])}
                ELSE IF op = "CSRW" THEN {Stepped(prog, m), Interrupted(Stepped(prog, m))}
                ELSE {Stepped(prog, m)}
<1>2. Arch!Outcomes(prog, m) = {Interrupted(m)} \cup X
  BY <1>1 DEF Arch!Outcomes
<1>3. /\ op \notin {"RDCSR"} => Stepped(prog, m) \in X
      /\ op = "SC" => Stepped(prog, [m EXCEPT !.res = FALSE]) \in X
      /\ op = "CSRW" => Interrupted(Stepped(prog, m)) \in X
  OBVIOUS
<1>4. op = "RDCSR" => \A v \in Val :
              [Stepped(prog, m) EXCEPT !.reg = SetReg(m.reg, At(prog, m.pc).rd, v)] \in X
  OBVIOUS
<1> HIDE DEF X
<1>5. QED  BY <1>2, <1>3, <1>4

\* Where the program is at commit k.
LEMMA ComAt ==
  ASSUME CoInv, NEW k \in Nat, k < ComCount, NEW keep \in BOOLEAN, NEW m, RefAt(m, k, keep),
         NEW d, d = ComFetch(k)
  PROVE  /\ m.pc = d.pc /\ At(prog, m.pc) = InstrOf(d) /\ insts[ComSqN(k)].pc = m.pc
         /\ ~d.irq => m.reg[At(prog, m.pc).rs] = ComValue(k)
<1>1. ComUop(k) /\ ComCount \in Nat  BY CommitPorts
<1>2. d.pc = (IF k = 0 THEN arch.pc ELSE ComNext(k - 1)) /\ insts[ComSqN(k)].pc = d.pc
      /\ WellFetched(d)
  BY <1>1 DEF ComUop
<1>3. k - 1 # ComCount - 1  BY <1>1, SMT
<1>4. ~Traps(k - 1)  BY <1>3 DEF Traps
<1>5. m.pc = d.pc  BY <1>2, <1>4 DEF RefAt, ComPC
<1>6. ~d.irq => m.reg[At(prog, m.pc).rs] = ComValue(k)
  <2>1. ~d.irq => DecodedUOp(d).rs = InstrOf(d).rs  BY DEF DecodedUOp
  <2>2. DecodedUOp(d).rs \in Reg
    <3>1. prog \in Programs  BY DEF CoInv, CoTypeOK
    <3> QED  BY <1>2, <3>1, DecodedType
  <2>3. m.reg[DecodedUOp(d).rs] = ReadTag(rf, ComTag(k, DecodedUOp(d).rs))
    BY <2>2 DEF RefAt, ComReg
  <2> QED  BY <1>5, <2>1, <2>3 DEF ComValue, InstrOf
<1>7. QED  BY <1>2, <1>5, <1>6 DEF InstrOf

\* The reservation an SC needs is made by the instruction before it.
LEMMA Reserved ==
  ASSUME prog \in Programs, NEW a \in PCs(prog), NEW v \in Val, NEW b \in PCs(prog),
         b = NextPC(prog, a, v) \/ b = Handler, At(prog, b).op = "SC"
  PROVE  b = NextPC(prog, a, v) /\ At(prog, a).op = "LR"
<1>1. ReservesFirst(prog)  BY CoSimAssumption
<1>2. b # Handler /\ \A x \in PCs(prog), y \in Val : NextPC(prog, x, y) = b => At(prog, x).op = "LR"
  BY <1>1 DEF ReservesFirst
<1>3. QED  BY <1>2

\* An interrupt takes the place of an instruction.
LEMMA RefInterrupt ==
  ASSUME CoInv, NEW k \in Nat, k < ComCount, NEW keep \in BOOLEAN, NEW m, RefAt(m, k, keep),
         ComFetch(k).irq
  PROVE  RefAt(Interrupted(m), k + 1, keep) /\ Interrupted(m) \in Arch!Outcomes(prog, m)
<1>1. PICK d, op : d = ComFetch(k) /\ op = InstrOf(d).op  OBVIOUS
<1>2. Traps(k) /\ k \notin RetiredPorts /\ TrapDst(keep) = Handler
  BY <1>1, ComKind
<1>3. prog \in Programs /\ m \in Machines(prog)  BY DEF CoInv, CoTypeOK, RefAt
<1>4. Interrupted(m) \in Machines(prog)  BY <1>3, SteppedType
<1>5. /\ Interrupted(m).pc = Handler /\ Interrupted(m).reg = m.reg
      /\ Interrupted(m).minstret = m.minstret /\ Interrupted(m).res = m.res
  BY <1>3 DEF Interrupted, Machines
<1>6. ComPC(k + 1, keep) = Handler
  <2>1. k + 1 # 0 /\ (k + 1) - 1 = k  BY SMT
  <2> QED  BY <1>2, <2>1 DEF ComPC
<1>7. ComReg(k + 1) = ComReg(k)
  <2>1. ComUop(k)  BY CommitPorts
  <2>2. comUOp[k].rd = 0  BY <2>1 DEF ComUop
  <2> QED  BY <2>2, ComRegNext DEF SetReg
<1>8. ComRet(k + 1) = ComRet(k)  BY <1>2, ComRetNext, SMT
<1>9. At(prog, Handler).op # "SC"
  <2>1. Handler \in PCs(prog)  BY <1>4, <1>5 DEF Machines
  <2>2. ReservesFirst(prog)  BY <1>3, CoSimAssumption
  <2> QED  BY <2>1, <2>2 DEF ReservesFirst
<1>10. Interrupted(m) \in Arch!Outcomes(prog, m)  BY OutcomeKinds
<1>11. QED  BY <1>4, <1>5, <1>6, <1>7, <1>8, <1>9, <1>10 DEF RefAt

\* The overrides after k commits say what the map says then.
Overrides(ovr, k) ==
  \A r \in Reg : (IF ovr[r] # NoTag THEN ovr[r] ELSE comTag[r]) = ComTag(k, r)

\* The reservation the reference executes an instruction with.
Reservation(m, inst, ovr) ==
  IF At(prog, m.pc).op = "SC" /\ ReadRegister(ovr, inst.rd) # 0 THEN FALSE ELSE m.res

\* The value an instruction leaves, and whether the testbench takes the reservation away.
LEMMA ComWrites ==
  ASSUME CoInv, NEW k \in Nat, k < ComCount, NEW keep \in BOOLEAN, NEW m, RefAt(m, k, keep),
         ~ComFetch(k).irq,
         NEW i, i = At(prog, m.pc), NEW inst, inst = insts[ComSqN(k)],
         NEW ovr, Overrides(ovr, k + 1),
         NEW w, w = ReadTag(rf, comUOp[k].tag),
         NEW res,
         res = Reservation(m, inst, ovr)
  PROVE  /\ WritesGPR(inst) <=> comUOp[k].rd # 0
         /\ IsTrap(i) => comUOp[k].rd = 0
         /\ ~IsTrap(i) => inst.rd = i.rd /\ comUOp[k].rd = i.rd
         /\ ~IsTrap(i) /\ i.op # "RDCSR" /\ i.rd # 0 =>
              ResultOf(i, m.pc, m.reg[i.rs], res) = w
         /\ w \in Val
<1>1. PICK d : d = ComFetch(k)  OBVIOUS
<1>2. /\ m.pc = d.pc /\ i = InstrOf(d) /\ m.reg[i.rs] = ComValue(k)  BY <1>1, ComAt
<1>3. ComUop(k) /\ comUOp[k].tag \in Tag /\ comUOp[k].rd \in Reg  BY CommitPorts
<1>4. /\ WritesGPR(inst) <=> comUOp[k].rd # 0
      /\ IsTrap(i) => comUOp[k].rd = 0
      /\ ~IsTrap(i) => comUOp[k].rd = i.rd /\ inst.rd = i.rd
      /\ comUOp[k].rd # 0 =>
           /\ i.op \notin {"RDCSR", "SC"} => w = Result(d, ComValue(k))
           /\ i.op = "SC" => w \in {0, 1}
  BY <1>1, <1>2, <1>3 DEF ComUop, IsTrap
<1>5. w \in Val  BY <1>3, ReadType
<1>6. ASSUME ~IsTrap(i), i.op # "RDCSR", i.rd # 0
      PROVE  ResultOf(i, m.pc, m.reg[i.rs], res) = w
  <2>1. CASE i.op # "SC"
    <3>1. w = ResultOf(i, m.pc, m.reg[i.rs], TRUE)  BY <1>2, <1>4, <1>6, <2>1 DEF Result
    <3> QED  BY <2>1, <3>1 DEF ResultOf
  <2>2. CASE i.op = "SC"
    <3>1. ReadRegister(ovr, i.rd) = w
      <4>1. i.rd \in Reg /\ comUOp[k].rd = i.rd  BY <1>3, <1>4, <1>6
      <4>2. ComTag(k + 1, i.rd) = comUOp[k].tag  BY <1>6, <4>1, ComTagNext
      <4> QED  BY <4>1, <4>2 DEF ReadRegister, Overrides
    <3>2. inst.rd = i.rd /\ w \in {0, 1}  BY <1>4, <1>6, <2>2
    <3>3. m.res = TRUE  BY <2>2 DEF RefAt
    <3>4. res = IF w # 0 THEN FALSE ELSE TRUE  BY <2>2, <3>1, <3>2, <3>3 DEF Reservation
    <3>5. ResultOf(i, m.pc, m.reg[i.rs], res) = IF res THEN 0 ELSE 1  BY <2>2 DEF ResultOf
    <3> QED  BY <3>2, <3>4, <3>5
  <2> QED  BY <2>1, <2>2
<1>7. QED  BY <1>4, <1>5, <1>6

\* The reference executes the instruction and is where the program goes on.
LEMMA RefStep ==
  ASSUME CoInv, NEW k \in Nat, k < ComCount, NEW keep \in BOOLEAN, NEW m, RefAt(m, k, keep),
         ~ComFetch(k).irq, NEW inst, inst = insts[ComSqN(k)],
         NEW ovr, Overrides(ovr, k + 1),
         NEW result, comUOp[k].rd # 0 => result = ReadTag(rf, comUOp[k].tag),
         NEW next, next = SpikeStep(m, inst, ovr, result, IsKept(k, keep))
  PROVE  /\ RefAt(next, k + 1, keep) /\ next \in Arch!Outcomes(prog, m)
         /\ CoSimError(m, next, inst, ovr, (minstret + ComRet(k + 1)) % MinstretMod) = 0
<1>1. PICK d, i, v, w, b, kept, pass :
        /\ d = ComFetch(k) /\ i = At(prog, m.pc) /\ v = m.reg[i.rs] /\ w = ReadTag(rf, comUOp[k].tag)
        /\ b = (i.op = "SC" /\ ReadRegister(ovr, inst.rd) # 0)
        /\ kept = IsKept(k, keep) /\ pass = (i.op = "RDCSR" /\ WritesGPR(inst))
  OBVIOUS
<1>2. PICK x : x = IF b THEN [m EXCEPT !.res = FALSE] ELSE m  OBVIOUS
<1>3. PICK st : st = Stepped(prog, x)  OBVIOUS
<1>4. PICK ps : ps = IF pass THEN [st EXCEPT !.reg = SetReg(@, inst.rd, result)] ELSE st  OBVIOUS
<1>5. /\ m.pc = d.pc /\ i = InstrOf(d) /\ inst.pc = m.pc /\ v = ComValue(k)
  BY <1>1, ComAt
<1>6. next = IF kept THEN Interrupted(ps) ELSE ps
  BY <1>1, <1>2, <1>3, <1>4, <1>5 DEF SpikeStep, IsPassThru
<1>7. prog \in Programs /\ m \in Machines(prog) /\ m.pc \in PCs(prog) /\ m.res \in BOOLEAN
      /\ m.minstret = (minstret + ComRet(k)) % MinstretMod /\ m.reg = ComReg(k)
      /\ m.reg \in [Reg -> Val] /\ minstret \in Nat
  <2>1. m \in Machines(prog)  BY DEF RefAt
  <2>2. minstret \in 0 .. MinstretMod - 1  BY DEF CoInv, CoTypeOK
  <2>3. MinstretMod \in Nat  BY ISAAssumption
  <2>4. minstret \in Nat  BY <2>2, <2>3, SMT
  <2> QED  BY <2>1, <2>4 DEF CoInv, CoTypeOK, RefAt, Machines
<1>8. b \in BOOLEAN  BY <1>1
<1>9. PICK res : res = IF b THEN FALSE ELSE m.res  OBVIOUS
<1>10. /\ WritesGPR(inst) <=> comUOp[k].rd # 0
       /\ IsTrap(i) => comUOp[k].rd = 0
       /\ ~IsTrap(i) => inst.rd = i.rd /\ comUOp[k].rd = i.rd
       /\ ~IsTrap(i) /\ i.op # "RDCSR" /\ i.rd # 0 => ResultOf(i, m.pc, v, res) = w
       /\ w \in Val
  <2>1. i = At(prog, m.pc) /\ w = ReadTag(rf, comUOp[k].tag) /\ v = m.reg[i.rs]  BY <1>1
  <2>2. res = Reservation(m, inst, ovr)  BY <1>1, <1>9 DEF Reservation
  <2>3. /\ WritesGPR(inst) <=> comUOp[k].rd # 0
        /\ IsTrap(i) => comUOp[k].rd = 0
        /\ ~IsTrap(i) => inst.rd = i.rd /\ comUOp[k].rd = i.rd
        /\ ~IsTrap(i) /\ i.op # "RDCSR" /\ i.rd # 0 => ResultOf(i, m.pc, m.reg[i.rs], res) = w
        /\ w \in Val
    BY <2>1, <2>2, ComWrites
  <2> QED  BY <2>1, <2>3
<1>11. x \in Machines(prog) /\ x.pc = m.pc /\ x.reg = m.reg /\ x.minstret = m.minstret /\ x.res = res
  <2>1. CASE b
    <3>1. x = [m EXCEPT !.res = FALSE]  BY <1>2, <2>1
    <3> QED  BY <1>7, <1>9, <2>1, <3>1 DEF Machines
  <2>2. CASE ~b  BY <1>2, <1>7, <1>9, <2>2
  <2> QED  BY <2>1, <2>2
<1>12. st \in Machines(prog)  BY <1>3, <1>7, <1>11, SteppedType
<1>13. /\ st.pc = NextPC(prog, m.pc, v)
       /\ st.reg = IF IsTrap(i) THEN m.reg ELSE SetReg(m.reg, i.rd, ResultOf(i, m.pc, v, res))
       /\ st.minstret = (m.minstret + Retired(i)) % MinstretMod
       /\ st.res = (i.op = "LR" \/ (res /\ i.op # "SC"))
  BY <1>1, <1>3, <1>11 DEF Stepped
<1>14. SetReg(m.reg, comUOp[k].rd, w) = ComReg(k + 1) /\ ComReg(k + 1) \in [Reg -> Val]
  BY <1>1, <1>7, ComRegNext
<1>15. /\ ps.reg = ComReg(k + 1) /\ ps.pc = st.pc /\ ps.minstret = st.minstret /\ ps.res = st.res
       /\ ps \in Machines(prog)
  <2>1. CASE IsTrap(i)
    <3>1. comUOp[k].rd = 0 /\ st.reg = m.reg /\ ~pass  BY <1>1, <1>10, <1>13, <2>1
    <3>2. ps = st /\ ComReg(k + 1) = m.reg  BY <1>4, <1>14, <3>1 DEF SetReg
    <3> QED  BY <1>12, <3>1, <3>2
  <2>2. CASE ~IsTrap(i) /\ i.rd = 0
    <3>1. comUOp[k].rd = 0 /\ st.reg = m.reg /\ ~pass
      BY <1>1, <1>10, <1>13, <2>2 DEF SetReg
    <3>2. ps = st /\ ComReg(k + 1) = m.reg  BY <1>4, <1>14, <3>1 DEF SetReg
    <3> QED  BY <1>12, <3>1, <3>2
  <2>3. CASE ~IsTrap(i) /\ i.rd # 0 /\ i.op # "RDCSR"
    <3>1. ps = st  BY <1>1, <1>4, <2>3
    <3>2. st.reg = SetReg(m.reg, comUOp[k].rd, w)  BY <1>10, <1>13, <2>3
    <3> QED  BY <1>12, <1>14, <3>1, <3>2
  <2>4. CASE ~IsTrap(i) /\ i.rd # 0 /\ i.op = "RDCSR"
    <3>1. pass /\ inst.rd = i.rd /\ comUOp[k].rd = i.rd /\ result = w  BY <1>1, <1>10, <2>4
    <3>2. ps = [st EXCEPT !.reg = SetReg(@, i.rd, w)]  BY <1>4, <3>1
    <3>3. /\ ps.reg = SetReg(st.reg, i.rd, w) /\ ps.pc = st.pc /\ ps.minstret = st.minstret
          /\ ps.res = st.res
      BY <1>12, <3>2 DEF Machines
    <3>4. SetReg(st.reg, i.rd, w) = SetReg(m.reg, i.rd, w)
      <4>1. st.reg = [m.reg EXCEPT ![i.rd] = ResultOf(i, m.pc, v, res)]
        BY <1>13, <2>4 DEF SetReg
      <4>2. [st.reg EXCEPT ![i.rd] = w] = [m.reg EXCEPT ![i.rd] = w]  BY <1>7, <4>1
      <4> QED  BY <2>4, <4>2 DEF SetReg
    <3>5. ps.reg = ComReg(k + 1)  BY <1>14, <3>1, <3>3, <3>4
    <3>6. ps \in Machines(prog)
      <4>1. SetReg(st.reg, i.rd, w) \in [Reg -> Val]  BY <1>14, <3>1, <3>4
      <4> QED  BY <1>12, <3>2, <4>1 DEF Machines
    <3> QED  BY <3>3, <3>5, <3>6
  <2> QED  BY <2>1, <2>2, <2>3, <2>4
<1>16. next \in Machines(prog) /\ next.pc = (IF kept THEN Handler ELSE st.pc)
       /\ next.reg = ComReg(k + 1) /\ next.minstret = st.minstret /\ next.res = st.res
  <2>1. CASE kept
    <3>1. next = Interrupted(ps)  BY <1>6, <2>1
    <3>2. next \in Machines(prog)  BY <1>7, <1>15, <3>1, SteppedType
    <3>3. next = [ps EXCEPT !.pc = Handler]  BY <3>1 DEF Interrupted
    <3> QED  BY <1>15, <2>1, <3>2, <3>3 DEF Machines
  <2>2. CASE ~kept
    <3>1. next = ps  BY <1>6, <2>2
    <3> QED  BY <1>15, <2>2, <3>1
  <2> QED  BY <2>1, <2>2
<1>17. PICK op : op = i.op  OBVIOUS
<1>18. /\ op \in Op /\ d.irq = FALSE
       /\ Traps(k) = (op \in {"ILL", "ECALL", "CSRW"})
       /\ k \in RetiredPorts <=> op \notin {"ILL", "ECALL"}
       /\ kept = (op = "CSRW" /\ keep)
       /\ Traps(k) => TrapDst(keep) = IF op = "CSRW" /\ ~keep THEN Seq1(prog, d.pc) ELSE Handler
  <2>1. op = InstrOf(d).op /\ d = ComFetch(k)  BY <1>1, <1>5, <1>17
  <2>2. d.irq = FALSE  BY <1>1, <2>1, ComKind
  <2>3. /\ op \in Op
        /\ Traps(k) = (d.irq \/ op \in {"ILL", "ECALL", "CSRW"})
        /\ k \in RetiredPorts <=> ~(d.irq \/ op \in {"ILL", "ECALL"})
        /\ IsKept(k, keep) = (~d.irq /\ op = "CSRW" /\ keep)
        /\ Traps(k) => TrapDst(keep) = IF ~d.irq /\ op = "CSRW" /\ ~keep THEN Seq1(prog, d.pc)
                                       ELSE Handler
    BY <2>1, ComKind
  <2>4. kept = IsKept(k, keep)  BY <1>1
  <2> QED  BY <2>2, <2>3, <2>4
<1>19. next.pc = ComPC(k + 1, keep)
  <2>1. k + 1 # 0 /\ (k + 1) - 1 = k  BY SMT
  <2>2. ComPC(k + 1, keep) = IF Traps(k) THEN TrapDst(keep) ELSE ComNext(k)
    BY <2>1 DEF ComPC
  <2>3. ComNext(k) = NextPC(prog, m.pc, v)  BY <1>1, <1>5 DEF ComNext
  <2>4. CASE ~Traps(k)  BY <1>13, <1>16, <1>18, <2>2, <2>3, <2>4
  <2>5. CASE op \in {"ILL", "ECALL"}
    <3>1. NextPC(prog, m.pc, v) = Handler  BY <1>1, <1>17, <2>5 DEF NextPC, IsTrap
    <3> QED  BY <1>13, <1>16, <1>18, <2>2, <2>5, <3>1
  <2>6. CASE op = "CSRW"
    <3>1. NextPC(prog, m.pc, v) = Seq1(prog, m.pc)  BY <1>1, <1>17, <2>6 DEF NextPC, IsTrap
    <3> QED  BY <1>5, <1>13, <1>16, <1>18, <2>2, <2>6, <3>1
  <2> QED  BY <1>18, <2>4, <2>5, <2>6
<1>20. next.minstret = (minstret + ComRet(k + 1)) % MinstretMod
  <2>1. ComRet(k) \in Nat /\ ComRet(k + 1) = ComRet(k) + (IF k \in RetiredPorts THEN 1 ELSE 0)
    BY ComRetNext
  <2>2. Retired(i) = IF k \in RetiredPorts THEN 1 ELSE 0  BY <1>17, <1>18 DEF Retired, IsTrap
  <2>3. PICK one \in {0, 1} : one = Retired(i)  BY <2>2
  <2>4. ComRet(k + 1) = ComRet(k) + one  BY <2>1, <2>2, <2>3
  <2>5. one \in Nat /\ minstret + ComRet(k) \in Nat /\ (minstret + ComRet(k)) + one = minstret + (ComRet(k) + one)
    BY <1>7, <2>1, SMT
  <2>6. (((minstret + ComRet(k)) % MinstretMod) + one) % MinstretMod
          = ((minstret + ComRet(k)) + one) % MinstretMod
    BY <2>5, CountWraps
  <2> QED  BY <1>7, <1>13, <1>16, <2>3, <2>4, <2>5, <2>6
<1>21. At(prog, next.pc).op = "SC" => next.res = TRUE
  <2>1. SUFFICES ASSUME At(prog, next.pc).op = "SC"  PROVE next.res = TRUE
    OBVIOUS
  <2>2. v \in Val
    <3>1. i \in Instr  BY <1>1, <1>7, InstrType
    <3>2. i.rs \in Reg  BY <3>1, RegsAgree DEF Instr
    <3> QED  BY <1>1, <1>7, <3>2
  <2>3. next.pc \in PCs(prog)  BY <1>16 DEF Machines
  <2>4. next.pc = NextPC(prog, m.pc, v) \/ next.pc = Handler  BY <1>13, <1>16
  <2>5. i.op = "LR"  BY <1>1, <1>7, <2>1, <2>2, <2>3, <2>4, Reserved
  <2> QED  BY <1>13, <1>16, <2>5
<1>22. prog \in Backups => next.res = FALSE
  <2>1. SUFFICES ASSUME prog \in Backups  PROVE next.res = FALSE
    OBVIOUS
  <2>2. m.res = FALSE  BY <2>1 DEF RefAt
  <2>3. i.op # "LR"  BY <1>1, <1>7, <2>1, CoSimAssumption
  <2> QED  BY <1>9, <1>13, <1>16, <2>2, <2>3
<1>23. RefAt(next, k + 1, keep)  BY <1>16, <1>19, <1>20, <1>21, <1>22 DEF RefAt
<1>24. next \in Arch!Outcomes(prog, m)
  <2>1. CASE op = "RDCSR"
    <3>1. ~kept /\ next = ps  BY <1>6, <1>18, <2>1
    <3>2. ~b /\ x = m /\ st = Stepped(prog, m)  BY <1>1, <1>2, <1>3, <1>17, <2>1
    <3>3. ~IsTrap(i) /\ comUOp[k].rd = i.rd  BY <1>10, <1>17, <2>1 DEF IsTrap
    <3>4. ps = [st EXCEPT !.reg = SetReg(m.reg, i.rd, w)]
      <4>1. ps.reg = SetReg(m.reg, i.rd, w)  BY <1>14, <1>15, <3>3
      <4>2. /\ ps = [pc |-> ps.pc, reg |-> ps.reg, minstret |-> ps.minstret, res |-> ps.res]
            /\ st = [pc |-> st.pc, reg |-> st.reg, minstret |-> st.minstret, res |-> st.res]
        BY <1>12, <1>15 DEF Machines
      <4>3. [st EXCEPT !.reg = SetReg(m.reg, i.rd, w)]
              = [pc |-> st.pc, reg |-> SetReg(m.reg, i.rd, w), minstret |-> st.minstret, res |-> st.res]
        BY <4>2
      <4> QED  BY <1>15, <4>1, <4>2, <4>3
    <3> QED  BY <1>1, <1>10, <1>17, <2>1, <3>1, <3>2, <3>4, OutcomeKinds
  <2>2. CASE op = "SC"
    <3>1. ~kept /\ ~pass /\ next = st  BY <1>1, <1>4, <1>6, <1>17, <1>18, <2>2
    <3>2. x = m \/ x = [m EXCEPT !.res = FALSE]  BY <1>2
    <3>3. st = Stepped(prog, m) \/ st = Stepped(prog, [m EXCEPT !.res = FALSE])  BY <1>3, <3>2
    <3>4. op = At(prog, m.pc).op /\ op # "RDCSR"  BY <1>1, <1>17, <2>2
    <3> QED  BY <2>2, <3>1, <3>3, <3>4, OutcomeKinds
  <2>3. CASE op = "CSRW"
    <3>1. ~b /\ ~pass /\ st = Stepped(prog, m) /\ ps = st
      BY <1>1, <1>2, <1>3, <1>4, <1>17, <2>3
    <3>2. next = Stepped(prog, m) \/ next = Interrupted(Stepped(prog, m))  BY <1>6, <3>1
    <3>3. op = At(prog, m.pc).op /\ op # "RDCSR"  BY <1>1, <1>17, <2>3
    <3> QED  BY <2>3, <3>2, <3>3, OutcomeKinds
  <2>4. CASE op \notin {"RDCSR", "SC", "CSRW"}
    <3>1. ~b /\ ~pass /\ ~kept /\ st = Stepped(prog, m) /\ next = st
      BY <1>1, <1>2, <1>3, <1>4, <1>6, <1>17, <1>18, <2>4
    <3>2. op = At(prog, m.pc).op /\ op # "RDCSR"  BY <1>1, <1>17, <2>4
    <3> QED  BY <3>1, <3>2, OutcomeKinds
  <2> QED  BY <2>1, <2>2, <2>3, <2>4
<1>25. CoSimError(m, next, inst, ovr, (minstret + ComRet(k + 1)) % MinstretMod) = 0
  <2>1. \A r \in Reg : next.reg[r] = ReadRegister(ovr, r)
    BY <1>16 DEF ComReg, ReadRegister, Overrides
  <2> QED  BY <1>5, <1>20, <2>1 DEF CoSimError
<1>26. QED  BY <1>23, <1>24, <1>25

-----------------------------------------------------------------------------
(* The commits of a cycle, one after the other. *)

\* The reference before commit k, when c is what the commits below it have left.
RefOf(c, k) == IF k = 0 THEN arch ELSE c.spike

Logged(c, k, keep) ==
  /\ c = [spike |-> c.spike, ovr |-> c.ovr, ret |-> c.ret, err |-> c.err]
  /\ c.err = 0 /\ c.ret = ComRet(k)
  /\ c.ovr \in [Reg -> Tag \cup {NoTag}] /\ Overrides(c.ovr, k)
  /\ k = 0 => c.spike = spike
  /\ RefAt(RefOf(c, k), k, keep)

LogStart == [spike |-> spike, ovr |-> NoOverride, ret |-> 0, err |-> err]

LEMMA RefStart ==
  ASSUME CoInv, NEW keep
  PROVE  RefAt(arch, 0, keep) /\ ComRet(0) = 0 /\ Logged(LogStart, 0, keep)
<1>1. ArchInv /\ prog \in Programs /\ arch \in Machines(prog) /\ minstret \in 0 .. MinstretMod - 1
      /\ err = 0
  BY DEF CoInv, CoTypeOK, Machines
<1>2. ComRet(0) = 0
  <2>1. {i \in RetiredPorts : i < 0} = {}
    BY WidthType, SMT DEF RetiredPorts, Committing, Port
  <2> QED  BY <2>1, FS_EmptySet DEF ComRet
<1>3. arch.reg = ComReg(0)  BY <1>1, ComTagZero DEF ArchInv, ComReg
<1>4. (minstret + ComRet(0)) % MinstretMod = minstret
  <2>1. minstret \in Nat /\ minstret + 0 = minstret  BY <1>1, ISAAssumption, SMT
  <2> QED  BY <1>1, <1>2, <2>1, CountWraps
<1>5. RefAt(arch, 0, keep)  BY <1>1, <1>3, <1>4 DEF ArchInv, RefAt, ComPC
<1>6. NoOverride \in [Reg -> Tag \cup {NoTag}] /\ \A r \in Reg : NoOverride[r] = NoTag
  BY DEF NoOverride
<1>7. Overrides(NoOverride, 0)  BY <1>6, ComTagZero DEF Overrides
<1>8. /\ LogStart.spike = spike /\ LogStart.ovr = NoOverride /\ LogStart.ret = 0
      /\ LogStart.err = err
      /\ LogStart = [spike |-> LogStart.spike, ovr |-> LogStart.ovr, ret |-> LogStart.ret,
                     err |-> LogStart.err]
  BY DEF LogStart
<1> HIDE DEF LogStart
<1>9. QED  BY <1>1, <1>2, <1>5, <1>6, <1>7, <1>8 DEF Logged, RefOf

\* After a restore the reference takes over what it had.
LEMMA RestoredRef ==
  ASSUME CoInv, NEW k \in Nat, k < ComCount, NEW keep \in BOOLEAN, NEW c, Logged(c, k, keep),
         NEW inst, inst = insts[ComSqN(k)]
  PROVE  (IF doRestore /\ k = 0 THEN Restored(c.spike, inst, c.ovr) ELSE c.spike) = RefOf(c, k)
<1>1. ArchInv /\ arch \in Machines(prog)  BY DEF CoInv, CoTypeOK, Machines
<1>2. CASE k # 0  BY <1>2 DEF RefOf
<1>3. CASE k = 0 /\ ~doRestore  BY <1>1, <1>3 DEF RefOf, Logged, ArchInv
<1>4. CASE k = 0 /\ doRestore
  <2>1. c.spike = FreshSpike(NoRegs) /\ arch.res = FALSE  BY <1>1, <1>4 DEF Logged, ArchInv
  <2>2. RefAt(arch, k, keep) /\ RefOf(c, k) = arch  BY <1>4 DEF Logged, RefOf
  <2>3. PICK d : d = ComFetch(k)  OBVIOUS
  <2>4. inst.pc = arch.pc  BY <2>2, <2>3, ComAt
  <2>5. \A r \in Reg : ReadRegister(c.ovr, r) = ReadTag(rf, ComTag(0, r))
    BY <1>4 DEF Logged, Overrides, ReadRegister
  <2>6. [r \in Reg |-> ReadRegister(c.ovr, r)] = arch.reg
    BY <1>4, <2>2, <2>5 DEF RefAt, ComReg
  <2>7. arch.minstret = minstret  BY <1>1 DEF ArchInv
  <2>8. Restored(c.spike, inst, c.ovr)
          = [pc |-> inst.pc, reg |-> [r \in Reg |-> ReadRegister(c.ovr, r)],
             minstret |-> minstret, res |-> FALSE]
    <3>1. PICK s, a, x, y : s = c.spike /\ a = inst.pc /\ y = minstret
                            /\ x = [r \in Reg |-> ReadRegister(c.ovr, r)]
      OBVIOUS
    <3>2. s = [pc |-> Handler, reg |-> NoRegs, minstret |-> 0, res |-> FALSE]
      BY <2>1, <3>1 DEF FreshSpike
    <3>3. Restored(s, inst, c.ovr) = [s EXCEPT !.pc = a, !.reg = x, !.minstret = y]
      BY <3>1 DEF Restored
    <3>4. s = [pc |-> s.pc, reg |-> s.reg, minstret |-> s.minstret, res |-> s.res] /\ s.res = FALSE
      BY <3>2
    <3>5. PICK e : e = [s EXCEPT !.pc = a, !.reg = x, !.minstret = y]  OBVIOUS
    <3>6. /\ e.pc = a /\ e.reg = x /\ e.minstret = y /\ e.res = FALSE
          /\ e = [pc |-> e.pc, reg |-> e.reg, minstret |-> e.minstret, res |-> e.res]
      BY <3>4, <3>5
    <3> QED  BY <3>1, <3>3, <3>5, <3>6
  <2>9. arch = [pc |-> arch.pc, reg |-> arch.reg, minstret |-> arch.minstret, res |-> arch.res]
    BY <1>1 DEF Machines
  <2>10. Restored(c.spike, inst, c.ovr) = arch  BY <2>1, <2>4, <2>6, <2>7, <2>8, <2>9
  <2> QED  BY <1>4, <2>2, <2>10
<1>5. QED  BY <1>2, <1>3, <1>4

\* One commit.
LEMMA LogCommitStep ==
  ASSUME CoInv, NEW F, NEW R, NEW pd, NEW keep \in BOOLEAN, NEW n, Tick(F, R, pd, keep, n),
         NEW k \in Nat, k < ComCount, NEW c, Logged(c, k, keep), NEW inst, inst = insts[ComSqN(k)],
         NEW result, result = ReadTag(LogResults(R), inst.tag),
         NEW e, e = LogCommit(c, k, inst, result, keep)
  PROVE  Logged(e, k + 1, keep) /\ e.spike \in Arch!Outcomes(prog, RefOf(c, k))
         /\ RefOf(e, k + 1) = e.spike
<1>1. PICK m, d, op : m = RefOf(c, k) /\ d = ComFetch(k) /\ op = InstrOf(d).op  OBVIOUS
<1>2. RefAt(m, k, keep)  BY <1>1 DEF Logged
<1>3. (IF doRestore /\ k = 0 THEN Restored(c.spike, inst, c.ovr) ELSE c.spike) = m
  BY <1>1, RestoredRef
<1>4. IsInterrupt(k) = d.irq /\ (k \in RetiredPorts <=> ~(d.irq \/ op \in {"ILL", "ECALL"}))
      /\ d.irq \in BOOLEAN
  BY <1>1, ComKind
<1>5. k + 1 # 0 /\ k + 1 \in Nat /\ RefOf(e, k + 1) = e.spike
  <2>1. k + 1 # 0 /\ k + 1 \in Nat  BY SMT
  <2> QED  BY <2>1 DEF RefOf
<1>6. ComUop(k) /\ comUOp[k].tag \in Tag /\ comUOp[k].rd \in Reg  BY CommitPorts
<1>7. /\ c = [spike |-> c.spike, ovr |-> c.ovr, ret |-> c.ret, err |-> c.err]
      /\ c.err = 0 /\ c.ret = ComRet(k)
      /\ c.ovr \in [Reg -> Tag \cup {NoTag}] /\ Overrides(c.ovr, k)
  BY DEF Logged
<1>8. ComRet(k + 1) = ComRet(k) + (IF k \in RetiredPorts THEN 1 ELSE 0)  BY ComRetNext
<1>9. CASE d.irq
  <2>1. e = [c EXCEPT !.spike = Interrupted(m)]
    BY <1>3, <1>4, <1>9 DEF LogCommit
  <2>2. /\ e.spike = Interrupted(m) /\ e.ovr = c.ovr /\ e.ret = c.ret /\ e.err = c.err
        /\ e = [spike |-> e.spike, ovr |-> e.ovr, ret |-> e.ret, err |-> e.err]
    BY <1>7, <2>1
  <2>3. RefAt(e.spike, k + 1, keep) /\ e.spike \in Arch!Outcomes(prog, m)
    BY <1>1, <1>2, <1>9, <2>2, RefInterrupt
  <2>4. e.ret = ComRet(k + 1)
    <3>1. ComRet(k) \in Nat  BY ComRetNext
    <3> QED  BY <1>4, <1>7, <1>8, <1>9, <2>2, <3>1, SMT
  <2>5. Overrides(e.ovr, k + 1)
    <3>1. comUOp[k].rd = 0  BY <1>1, <1>6, <1>9 DEF ComUop
    <3>2. \A r \in Reg : ComTag(k + 1, r) = ComTag(k, r)  BY <3>1, ComTagNext
    <3> QED  BY <1>7, <2>2, <3>2 DEF Overrides
  <2> QED  BY <1>1, <1>5, <1>7, <2>2, <2>3, <2>4, <2>5 DEF Logged
<1>10. CASE ~d.irq
  <2> DEFINE ret == c.ret + (IF k \in RetiredPorts THEN 1 ELSE 0)
             ovr == IF WritesGPR(inst) THEN [c.ovr EXCEPT ![inst.rd] = inst.tag] ELSE c.ovr
             next == SpikeStep(m, inst, ovr, result, IsKept(k, keep))
             bad == IF c.err # 0 THEN c.err
                    ELSE CoSimError(m, next, inst, ovr, (minstret + ret) % MinstretMod)
  <2>1. e = [spike |-> next, ovr |-> ovr, ret |-> ret, err |-> bad]
    BY <1>3, <1>4, <1>10 DEF LogCommit
  <2>2. WritesGPR(inst) <=> comUOp[k].rd # 0  BY <1>1, <1>6, <1>10 DEF ComUop
  <2>3. comUOp[k].rd # 0 => inst.rd = comUOp[k].rd /\ inst.tag = comUOp[k].tag
    BY <1>1, <1>6, <1>10 DEF ComUop, IsTrap
  <2>4. ovr \in [Reg -> Tag \cup {NoTag}]  BY <1>6, <1>7, <2>2, <2>3
  <2>5. Overrides(ovr, k + 1)
    <3>1. SUFFICES ASSUME NEW r \in Reg
                   PROVE  (IF ovr[r] # NoTag THEN ovr[r] ELSE comTag[r]) = ComTag(k + 1, r)
      BY DEF Overrides
    <3>2. (IF c.ovr[r] # NoTag THEN c.ovr[r] ELSE comTag[r]) = ComTag(k, r)
      BY <1>7 DEF Overrides
    <3>3. ComTag(k + 1, r) = IF comUOp[k].rd = r /\ r # 0 THEN comUOp[k].tag ELSE ComTag(k, r)
      BY ComTagNext
    <3>4. comUOp[k].tag # NoTag  BY <1>6, TagType
    <3>5. CASE comUOp[k].rd # 0 /\ comUOp[k].rd = r
      <4>1. ovr[r] = comUOp[k].tag  BY <1>7, <2>2, <2>3, <3>5
      <4> QED  BY <3>3, <3>4, <3>5, <4>1
    <3>6. CASE ~(comUOp[k].rd # 0 /\ comUOp[k].rd = r)
      <4>1. ovr[r] = c.ovr[r]  BY <1>7, <2>2, <2>3, <3>6
      <4> QED  BY <3>2, <3>3, <3>6, <4>1
    <3> QED  BY <3>5, <3>6
  <2> HIDE DEF ovr
  <2>6. ret = ComRet(k + 1)  BY <1>7, <1>8
  <2>7. comUOp[k].rd # 0 => result = ReadTag(rf, comUOp[k].tag)
    <3>1. SUFFICES ASSUME comUOp[k].rd # 0  PROVE result = ReadTag(rf, comUOp[k].tag)
      OBVIOUS
    <3>2. phyRF' = LogResults(R)  BY DEF Tick, LogInstructions
    <3>3. PICK t : t = comUOp[k].tag  OBVIOUS
    <3>4. ReadTag(LogResults(R), t) = ReadTag(rf, t)  BY <3>1, <3>2, <3>3, ComResult
    <3> QED  BY <2>3, <3>1, <3>3, <3>4
  <2>8. PICK x : x = next  OBVIOUS
  <2>9. /\ RefAt(x, k + 1, keep) /\ x \in Arch!Outcomes(prog, m)
        /\ CoSimError(m, x, inst, ovr, (minstret + ComRet(k + 1)) % MinstretMod) = 0
    BY <1>1, <1>2, <1>10, <2>5, <2>7, <2>8, RefStep
  <2>10. bad = 0  BY <1>7, <2>6, <2>8, <2>9
  <2> HIDE DEF ret, next, bad
  <2>11. /\ e.spike = x /\ e.ovr = ovr /\ e.ret = ComRet(k + 1) /\ e.err = 0
         /\ e = [spike |-> e.spike, ovr |-> e.ovr, ret |-> e.ret, err |-> e.err]
    BY <2>1, <2>6, <2>8, <2>10
  <2> QED  BY <1>1, <1>5, <2>4, <2>5, <2>9, <2>11 DEF Logged
<1>11. QED  BY <1>4, <1>9, <1>10

-----------------------------------------------------------------------------
(* All commits of a cycle, and as many steps of the in-order machine. *)

\* The commit before k, on what the commits before it have left; L are the copies of the
\* testbench and P its results.
CommitOn(c, k, L, P, keep) ==
  LogCommit(c, k - 1, L[ComSqN(k - 1)], ReadTag(P, L[ComSqN(k - 1)].tag), keep)

\* g[k] is what the first k commits have left, for up to n.
CommitsUpTo(g, n, L, P, keep) ==
  g = [k \in 0 .. n |->
         IF k = 0 THEN LogStart
         ELSE LET inst == L[ComSqN(k - 1)]
              IN  LogCommit(g[k - 1], k - 1, inst, ReadTag(P, inst.tag), keep)]

\* The recursion in terms of its step.
LEMMA CommitsBy ==
  ASSUME NEW n \in Nat, NEW g, NEW L, NEW P, NEW keep
  PROVE  CommitsUpTo(g, n, L, P, keep) <=>
           g = [k \in 0 .. n |-> IF k = 0 THEN LogStart ELSE CommitOn(g[k - 1], k, L, P, keep)]
<1> DEFINE row(k) == IF k = 0 THEN LogStart
                     ELSE LET inst == L[ComSqN(k - 1)]
                          IN  LogCommit(g[k - 1], k - 1, inst, ReadTag(P, inst.tag), keep)
           step(k) == IF k = 0 THEN LogStart ELSE CommitOn(g[k - 1], k, L, P, keep)
<1>1. ASSUME NEW k \in 0 .. n  PROVE row(k) = step(k)
  BY Zenon DEF CommitOn
<1>2. CommitsUpTo(g, n, L, P, keep) <=> g = [k \in 0 .. n |-> row(k)]  BY Zenon DEF CommitsUpTo
<1> HIDE DEF row, step
<1>3. [k \in 0 .. n |-> row(k)] = [k \in 0 .. n |-> step(k)]  BY <1>1
<1>4. CommitsUpTo(g, n, L, P, keep) <=> g = [k \in 0 .. n |-> step(k)]  BY <1>2, <1>3
<1>5. QED  BY <1>4 DEF step

LEMMA CommitsRow ==
  ASSUME NEW n \in Nat, NEW g, NEW L, NEW P, NEW keep, CommitsUpTo(g, n, L, P, keep)
  PROVE  \A k \in 0 .. n : g[k] = IF k = 0 THEN LogStart ELSE CommitOn(g[k - 1], k, L, P, keep)
<1> DEFINE step(k) == IF k = 0 THEN LogStart ELSE CommitOn(g[k - 1], k, L, P, keep)
<1>1. g = [k \in 0 .. n |-> step(k)]  BY CommitsBy
<1> HIDE DEF step
<1>2. \A k \in 0 .. n : g[k] = step(k)  BY <1>1
<1>3. QED  BY <1>2 DEF step

\* There is such a function.
LEMMA CommitsExist ==
  ASSUME NEW L, NEW P, NEW keep
  PROVE  \A n \in Nat : \E g : CommitsUpTo(g, n, L, P, keep)
<1> DEFINE T == {n \in Nat : ~ \E g : CommitsUpTo(g, n, L, P, keep)}
<1> SUFFICES ASSUME T # {}  PROVE FALSE
  OBVIOUS
<1>1. PICK n \in T : \A m \in T : n <= m
  <2> HIDE DEF T
  <2>1. T \subseteq Nat  BY DEF T
  <2> QED  BY <2>1, LeastNat
<1>2. n \in Nat /\ ~ \E g : CommitsUpTo(g, n, L, P, keep)  OBVIOUS
<1>3. CASE n = 0
  <2> DEFINE g == [k \in 0 .. 0 |-> LogStart]
  <2>1. g = [k \in 0 .. 0 |-> IF k = 0 THEN LogStart ELSE CommitOn(g[k - 1], k, L, P, keep)]
    OBVIOUS
  <2> HIDE DEF g
  <2> QED  BY <1>2, <1>3, <2>1, CommitsBy
<1>4. CASE n # 0
  <2>1. n - 1 \in Nat /\ n - 1 \notin T  BY <1>1, <1>2, <1>4, SMT
  <2>2. PICK g : CommitsUpTo(g, n - 1, L, P, keep)  BY <2>1
  <2>3. \A k \in 0 .. n - 1 : g[k] = IF k = 0 THEN LogStart ELSE CommitOn(g[k - 1], k, L, P, keep)
    BY <2>1, <2>2, CommitsRow
  <2> DEFINE h == [k \in 0 .. n |-> IF k = n THEN CommitOn(g[n - 1], n, L, P, keep) ELSE g[k]]
             step(k) == IF k = 0 THEN LogStart ELSE CommitOn(h[k - 1], k, L, P, keep)
  <2>4. ASSUME NEW k \in 0 .. n  PROVE h[k] = step(k)
    <3>1. CASE k = n
      <4>1. n - 1 \in 0 .. n /\ n - 1 # n  BY <2>1, SMT
      <4> QED  BY <1>4, <3>1, <4>1
    <3>2. CASE k # n
      <4>1. k \in 0 .. n - 1 /\ (k # 0 => k - 1 \in 0 .. n /\ k - 1 # n)  BY <1>2, <3>2, SMT
      <4> QED  BY <2>3, <3>2, <4>1
    <3> QED  BY <3>1, <3>2
  <2>5. h = [k \in 0 .. n |-> h[k]]  OBVIOUS
  <2> HIDE DEF h
  <2>6. h = [k \in 0 .. n |-> step(k)]
    <3> HIDE DEF step
    <3> QED  BY <2>4, <2>5
  <2> QED  BY <1>2, <2>6, CommitsBy
<1>5. QED  BY <1>3, <1>4

\* What all of them leave.
LEMMA CommitsLast ==
  ASSUME CoInv, NEW L, NEW P, NEW keep
  PROVE  \E g : CommitsUpTo(g, ComCount, L, P, keep) /\ LogCommits(L, P, keep) = g[ComCount]
<1> DEFINE g == CHOOSE x : CommitsUpTo(x, ComCount, L, P, keep)
<1>1. ComCount \in Nat  BY CommitPorts
<1>2. CommitsUpTo(g, ComCount, L, P, keep)  BY <1>1, CommitsExist
<1>3. LogCommits(L, P, keep) = g[ComCount]
  BY Zenon DEF LogCommits, CommitsUpTo, ComCount, LogStart
<1> HIDE DEF g
<1>4. QED  BY <1>2, <1>3

\* The in-order machine after so many instructions, for up to n.
Only(m) == {m}
OutcomesOf(X) == UNION {Arch!Outcomes(prog, x) : x \in X}
OutcomesUpTo(f, m, n) ==
  f = [k \in 0 .. n |-> IF k = 0 THEN {m} ELSE UNION {Arch!Outcomes(prog, x) : x \in f[k - 1]}]

LEMMA OutcomesBy ==
  ASSUME NEW n \in Nat, NEW f, NEW m
  PROVE  OutcomesUpTo(f, m, n) <=>
           f = [k \in 0 .. n |-> IF k = 0 THEN Only(m) ELSE OutcomesOf(f[k - 1])]
<1> DEFINE row(k) == IF k = 0 THEN {m} ELSE UNION {Arch!Outcomes(prog, x) : x \in f[k - 1]}
           step(k) == IF k = 0 THEN Only(m) ELSE OutcomesOf(f[k - 1])
<1>1. ASSUME NEW k \in 0 .. n  PROVE row(k) = step(k)
  BY Zenon DEF OutcomesOf, Only
<1>2. OutcomesUpTo(f, m, n) <=> f = [k \in 0 .. n |-> row(k)]  BY Zenon DEF OutcomesUpTo
<1> HIDE DEF row, step
<1>3. [k \in 0 .. n |-> row(k)] = [k \in 0 .. n |-> step(k)]  BY <1>1
<1>4. OutcomesUpTo(f, m, n) <=> f = [k \in 0 .. n |-> step(k)]  BY <1>2, <1>3
<1>5. QED  BY <1>4 DEF step

LEMMA OutcomesRow ==
  ASSUME NEW n \in Nat, NEW f, NEW m, OutcomesUpTo(f, m, n)
  PROVE  \A k \in 0 .. n : f[k] = IF k = 0 THEN Only(m) ELSE OutcomesOf(f[k - 1])
<1> DEFINE step(k) == IF k = 0 THEN Only(m) ELSE OutcomesOf(f[k - 1])
<1>1. f = [k \in 0 .. n |-> step(k)]  BY OutcomesBy
<1> HIDE DEF step
<1>2. \A k \in 0 .. n : f[k] = step(k)  BY <1>1
<1>3. QED  BY <1>2 DEF step

LEMMA OutcomesExist ==
  ASSUME NEW m
  PROVE  \A n \in Nat : \E f : OutcomesUpTo(f, m, n)
<1> DEFINE T == {n \in Nat : ~ \E f : OutcomesUpTo(f, m, n)}
<1> SUFFICES ASSUME T # {}  PROVE FALSE
  OBVIOUS
<1>1. PICK n \in T : \A l \in T : n <= l
  <2> HIDE DEF T
  <2>1. T \subseteq Nat  BY DEF T
  <2> QED  BY <2>1, LeastNat
<1>2. n \in Nat /\ ~ \E f : OutcomesUpTo(f, m, n)  OBVIOUS
<1>3. CASE n = 0
  <2> DEFINE f == [k \in 0 .. 0 |-> Only(m)]
  <2>1. f = [k \in 0 .. 0 |-> IF k = 0 THEN Only(m) ELSE OutcomesOf(f[k - 1])]
    OBVIOUS
  <2> HIDE DEF f
  <2> QED  BY <1>2, <1>3, <2>1, OutcomesBy
<1>4. CASE n # 0
  <2>1. n - 1 \in Nat /\ n - 1 \notin T  BY <1>1, <1>2, <1>4, SMT
  <2>2. PICK f : OutcomesUpTo(f, m, n - 1)  BY <2>1
  <2>3. \A k \in 0 .. n - 1 : f[k] = IF k = 0 THEN Only(m) ELSE OutcomesOf(f[k - 1])
    <3>1. PICK j : j = n - 1  OBVIOUS
    <3>2. j \in Nat /\ OutcomesUpTo(f, m, j)  BY <2>1, <2>2, <3>1
    <3>3. \A k \in 0 .. j : f[k] = IF k = 0 THEN Only(m) ELSE OutcomesOf(f[k - 1])
      BY <3>2, OutcomesRow
    <3> QED  BY <3>1, <3>3
  <2> DEFINE h == [k \in 0 .. n |-> IF k = n THEN OutcomesOf(f[n - 1]) ELSE f[k]]
             step(k) == IF k = 0 THEN Only(m) ELSE OutcomesOf(h[k - 1])
  <2>4. ASSUME NEW k \in 0 .. n  PROVE h[k] = step(k)
    <3>1. CASE k = n
      <4>1. n - 1 \in 0 .. n /\ n - 1 # n  BY <2>1, SMT
      <4> QED  BY <1>4, <3>1, <4>1
    <3>2. CASE k # n
      <4>1. k \in 0 .. n - 1 /\ (k # 0 => k - 1 \in 0 .. n /\ k - 1 # n)  BY <1>2, <3>2, SMT
      <4> QED  BY <2>3, <3>2, <4>1
    <3> QED  BY <3>1, <3>2
  <2>5. h = [k \in 0 .. n |-> h[k]]  OBVIOUS
  <2> HIDE DEF h
  <2>6. h = [k \in 0 .. n |-> step(k)]
    <3> HIDE DEF step
    <3> QED  BY <2>4, <2>5
  <2> QED  BY <1>2, <2>6, OutcomesBy
<1>5. QED  BY <1>3, <1>4

LEMMA AfterOutcomes ==
  ASSUME NEW m, NEW n \in Nat
  PROVE  \E f : OutcomesUpTo(f, m, n) /\ Arch!After(prog, m, n) = f[n]
<1> DEFINE f == CHOOSE x : OutcomesUpTo(x, m, n)
<1>1. OutcomesUpTo(f, m, n)  BY OutcomesExist
<1>2. Arch!After(prog, m, n) = f[n]  BY Zenon DEF Arch!After, OutcomesUpTo
<1> HIDE DEF f
<1>3. QED  BY <1>1, <1>2

\* After every commit the reference is where the in-order machine can be.
LEMMA CommitsFollow ==
  ASSUME CoInv, NEW F, NEW R, NEW pd, NEW keep \in BOOLEAN, NEW n, Tick(F, R, pd, keep, n),
         NEW g, CommitsUpTo(g, ComCount, LogFlags(F), LogResults(R), keep),
         NEW f, OutcomesUpTo(f, arch, ComCount)
  PROVE  \A k \in 0 .. ComCount : Logged(g[k], k, keep) /\ RefOf(g[k], k) \in f[k]
<1> DEFINE Good(k) == Logged(g[k], k, keep) /\ RefOf(g[k], k) \in f[k]
           T == {k \in 0 .. ComCount : ~Good(k)}
<1> SUFFICES ASSUME T # {}  PROVE FALSE
  OBVIOUS
<1>1. ComCount \in Nat  BY CommitPorts
<1>2. PICK k \in T : \A l \in T : k <= l
  <2> HIDE DEF T
  <2>1. T \subseteq Nat  BY <1>1, SMT DEF T
  <2> QED  BY <2>1, LeastNat
<1>3. k \in 0 .. ComCount /\ ~Good(k)  OBVIOUS
<1>4. /\ \A j \in 0 .. ComCount :
           g[j] = IF j = 0 THEN LogStart ELSE CommitOn(g[j - 1], j, LogFlags(F), LogResults(R), keep)
      /\ \A j \in 0 .. ComCount : f[j] = IF j = 0 THEN Only(arch) ELSE OutcomesOf(f[j - 1])
  <2>1. \A j \in 0 .. ComCount :
          g[j] = IF j = 0 THEN LogStart ELSE CommitOn(g[j - 1], j, LogFlags(F), LogResults(R), keep)
    BY <1>1, CommitsRow
  <2>2. \A j \in 0 .. ComCount : f[j] = IF j = 0 THEN Only(arch) ELSE OutcomesOf(f[j - 1])
    BY <1>1, OutcomesRow
  <2> QED  BY <2>1, <2>2
<1>5. CASE k = 0
  <2>1. g[0] = LogStart /\ f[0] = {arch}  BY <1>3, <1>4, <1>5 DEF Only
  <2>2. Logged(LogStart, 0, keep)  BY RefStart
  <2>3. RefOf(g[0], 0) = arch  BY DEF RefOf
  <2> QED  BY <1>3, <1>5, <2>1, <2>2, <2>3
<1>6. CASE k # 0
  <2>1. PICK j : j = k - 1  OBVIOUS
  <2>2. j \in Nat /\ j < ComCount /\ j \in 0 .. ComCount /\ k = j + 1 /\ ~(k <= j)
    BY <1>1, <1>3, <1>6, <2>1, SMT
  <2>3. Good(j)  BY <1>2, <2>2
  <2>4. PICK c, e : c = g[j] /\ e = g[k]  OBVIOUS
  <2>5. e = CommitOn(c, k, LogFlags(F), LogResults(R), keep)  BY <1>3, <1>4, <1>6, <2>1, <2>4
  <2>6. PICK inst, result : inst = insts[ComSqN(j)] /\ result = ReadTag(LogResults(R), inst.tag)
    OBVIOUS
  <2>7. LogFlags(F)[ComSqN(j)] = inst
    <3>1. F \in ExecCompletions  BY DEF Tick
    <3> QED  BY <2>2, <2>6, <3>1, ComLogged
  <2>8. e = LogCommit(c, j, inst, result, keep)
    BY <2>1, <2>5, <2>6, <2>7 DEF CommitOn
  <2>9. Logged(c, j, keep) /\ RefOf(c, j) \in f[j]  BY <2>3, <2>4
  <2>10. /\ Logged(e, j + 1, keep) /\ e.spike \in Arch!Outcomes(prog, RefOf(c, j))
         /\ RefOf(e, j + 1) = e.spike
    BY <2>2, <2>6, <2>8, <2>9, LogCommitStep
  <2>11. f[k] = OutcomesOf(f[j])  BY <1>3, <1>4, <1>6, <2>1
  <2>12. e.spike \in f[k]  BY <2>9, <2>10, <2>11 DEF OutcomesOf
  <2>13. Good(k)  BY <2>2, <2>4, <2>10, <2>12
  <2> QED  BY <1>3, <2>13
<1>7. QED  BY <1>5, <1>6

-----------------------------------------------------------------------------
(* What the commits of a cycle leave. *)

LEMMA SimMoves ==
  ASSUME CoInv, NEW F, NEW R, NEW pd, NEW keep, NEW n, Tick(F, R, pd, keep, n)
  PROVE  /\ err' = 0 /\ keep \in BOOLEAN /\ RefAt(arch', ComCount, keep)
         /\ Committing = {} <=> ComCount = 0
         /\ Committing = {} => arch' = arch /\ spike' = spike /\ doRestore' = doRestore
         /\ Committing # {} =>
              /\ spike' = arch' /\ doRestore' = FALSE
              /\ ComCount \in 1 .. Width /\ arch' \in Arch!After(prog, arch, ComCount)
<1>1. keep \in BOOLEAN  BY DEF Tick
<1>2. PICK L, P : L = LogFlags(F) /\ P = LogResults(R)  OBVIOUS
<1>3. PICK done : done = LogCommits(L, P, keep)  OBVIOUS
<1>4. /\ spike' = done.spike /\ err' = done.err
      /\ doRestore' = (doRestore /\ Committing = {})
      /\ arch' = IF Committing = {} THEN arch ELSE done.spike
  BY <1>2, <1>3 DEF Tick, LogInstructions
<1>5. ComCount \in Nat /\ ComCount \in 0 .. Width /\ \A i \in Port : i \in Committing <=> i < ComCount
  BY CommitPorts
<1>6. Committing = {} <=> ComCount = 0
  <2>1. Committing = {} => ComCount = 0  BY FS_EmptySet DEF ComCount
  <2>2. ASSUME ComCount = 0  PROVE Committing = {}
    <3>1. \A i \in Port : ~(i < 0)  BY WidthType, SMT DEF Port
    <3>2. Committing \subseteq Port  BY DEF Committing
    <3> QED  BY <1>5, <2>2, <3>1, <3>2
  <2> QED  BY <2>1, <2>2
<1>7. PICK g : CommitsUpTo(g, ComCount, L, P, keep) /\ LogCommits(L, P, keep) = g[ComCount]
  BY CommitsLast
<1>8. PICK f : OutcomesUpTo(f, arch, ComCount) /\ Arch!After(prog, arch, ComCount) = f[ComCount]
  BY <1>5, AfterOutcomes
<1>9. Logged(done, ComCount, keep) /\ RefOf(done, ComCount) \in f[ComCount]
  <2>1. CommitsUpTo(g, ComCount, LogFlags(F), LogResults(R), keep) /\ done = g[ComCount]
    BY <1>2, <1>3, <1>7
  <2>2. OutcomesUpTo(f, arch, ComCount)  BY <1>8
  <2>3. \A k \in 0 .. ComCount : Logged(g[k], k, keep) /\ RefOf(g[k], k) \in f[k]
    BY <1>1, <2>1, <2>2, CommitsFollow
  <2>4. ComCount \in 0 .. ComCount  BY <1>5, SMT
  <2> QED  BY <2>1, <2>3, <2>4
<1>10. err' = 0 /\ RefAt(RefOf(done, ComCount), ComCount, keep)
       /\ (ComCount = 0 => done.spike = spike)
  BY <1>4, <1>9 DEF Logged
<1>11. CASE Committing = {}
  <2>1. arch' = arch /\ RefOf(done, ComCount) = arch /\ spike' = spike
    BY <1>4, <1>6, <1>10, <1>11 DEF RefOf
  <2>2. doRestore' = doRestore  BY <1>4, <1>11 DEF CoInv, CoTypeOK
  <2> QED  BY <1>1, <1>6, <1>10, <1>11, <2>1, <2>2
<1>12. CASE Committing # {}
  <2>1. RefOf(done, ComCount) = done.spike /\ arch' = done.spike /\ spike' = done.spike
    BY <1>4, <1>6, <1>12 DEF RefOf
  <2>2. doRestore' = FALSE  BY <1>4, <1>12
  <2>3. ComCount \in 1 .. Width  BY <1>5, <1>6, <1>12, WidthType, SMT
  <2> QED  BY <1>1, <1>6, <1>8, <1>9, <1>10, <1>12, <2>1, <2>2, <2>3
<1>13. QED  BY <1>11, <1>12

\* The registers and the counter it leaves are the committed ones of the core.
LEMMA ArchMoves ==
  ASSUME CoInv, NEW F, NEW R, NEW pd, NEW keep, NEW n, Tick(F, R, pd, keep, n)
  PROVE  /\ arch' \in Machines(prog) /\ arch'.pc = ComPC(ComCount, keep)
         /\ comTag' = Base /\ \A r \in Reg : ReadTag(rf', comTag'[r]) = ReadTag(rf, comTag'[r])
         /\ arch'.reg = [r \in Reg |-> ReadTag(rf', comTag'[r])]
         /\ arch'.minstret = minstret'
<1>1. RefAt(arch', ComCount, keep)  BY SimMoves
<1>2. comTag' = Base  BY DEF Tick, RenameMoves, Base
<1>3. ASSUME NEW r \in Reg
      PROVE  ReadTag(rf', comTag'[r]) = ReadTag(rf, comTag'[r])
  <2>1. PICK t : t = comTag'[r]  OBVIOUS
  <2>2. Base[r] = t  BY <1>2, <2>1
  <2>3. ArchOwns(r, t) \/ \E i \in Port : CommitOwns(i, t)  BY <2>2, TickIsCycle, BaseOwner
  <2>4. (\E x : ArchOwns(x, t)) \/ (\E i : CommitOwns(i, t))  BY <2>3
  <2>5. ReadTag(rf', t) = ReadTag(rf, t)  BY <2>4, OwnedStaysValue
  <2> QED  BY <2>1, <2>5
<1>4. arch'.reg = [r \in Reg |-> ReadTag(rf', comTag'[r])]
  <2>1. arch'.reg = [r \in Reg |-> ReadTag(rf, ComTag(ComCount, r))]  BY <1>1 DEF RefAt, ComReg
  <2>2. \A r \in Reg : ReadTag(rf, ComTag(ComCount, r)) = ReadTag(rf', comTag'[r])
    <3>1. SUFFICES ASSUME NEW r \in Reg
                   PROVE  ReadTag(rf, ComTag(ComCount, r)) = ReadTag(rf', comTag'[r])
      OBVIOUS
    <3>2. ComTag(ComCount, r) = comTag'[r]  BY <1>2, ComTagLast
    <3> QED  BY <1>3, <3>2
  <2> QED  BY <2>1, <2>2
<1>5. arch'.minstret = minstret'
  <2>1. {i \in RetiredPorts : i < ComCount} = RetiredPorts
    BY CommitPorts DEF RetiredPorts, Committing
  <2>2. minstret' = (minstret + Cardinality(RetiredPorts)) % MinstretMod
    BY DEF Tick, ExecCycle
  <2> QED  BY <1>1, <2>1, <2>2 DEF RefAt, ComRet
<1>6. QED  BY <1>1, <1>2, <1>3, <1>4, <1>5 DEF RefAt

LEMMA ArchInvStep ==
  ASSUME CoInv, NEW F, NEW R, NEW pd, NEW keep, NEW n, Tick(F, R, pd, keep, n)
  PROVE  ArchInv' /\ err' = 0
<1>1. ArchInv /\ prog' = prog /\ doRestore \in BOOLEAN
  BY TickIsCycle DEF CoInv, CoTypeOK
<1>2. arch'.reg = [r \in Reg |-> ReadTag(rf', comTag'[r])] /\ arch'.minstret = minstret'
  BY ArchMoves
<1>3. IF doRestore' THEN prog' \in Backups /\ spike' = FreshSpike(NoRegs) ELSE spike' = arch'
  <2>1. CASE Committing = {}
    <3>1. arch' = arch /\ spike' = spike /\ doRestore' = doRestore  BY <2>1, SimMoves
    <3> QED  BY <1>1, <3>1 DEF ArchInv
  <2>2. CASE Committing # {}
    <3>1. spike' = arch' /\ doRestore' = FALSE  BY <2>2, SimMoves
    <3> QED  BY <3>1
  <2> QED  BY <2>1, <2>2
<1>4. (prog' \in Backups => arch'.res = FALSE) /\ (At(prog', arch'.pc).op = "SC" => arch'.res = TRUE)
      /\ err' = 0
  BY <1>1, SimMoves DEF RefAt
<1>5. FreshSpike(NoRegs)' = FreshSpike(NoRegs)  OBVIOUS
<1>6. QED  BY <1>2, <1>3, <1>4, <1>5 DEF ArchInv

-----------------------------------------------------------------------------
(* What commits next. *)

\* The uops that leave the buffer go on where the program has got to.
LEMMA ArchNext ==
  ASSUME CoInv, NEW F, NEW R, NEW pd, NEW keep, NEW n, Tick(F, R, pd, keep, n)
  PROVE  IF trapUOp.valid THEN n = 0 /\ NextAddr(-1)' = arch'.pc /\ ~trapUOp'.valid
         ELSE NextAddr(-1) = arch'.pc
<1>1. arch'.pc = ComPC(ComCount, keep) /\ ComCount \in Nat  BY ArchMoves, CommitPorts
<1>2. CASE trapUOp.valid
  <2>1. ComCount > 0  BY <1>2 DEF CoInv, CommitInv
  <2>2. PICK j : j = ComCount - 1  OBVIOUS
  <2>3. Traps(j)  BY <1>2, <2>2 DEF Traps
  <2>4. arch'.pc = TrapDst(keep)  BY <1>1, <2>1, <2>2, <2>3 DEF ComPC
  <2>5. branch'.taken /\ n = 0 /\ ~trapUOp'.valid /\ dstPC' = TrapDst(keep) /\ Live' = 0
    BY <1>2, TrapKind
  <2>6. NextAddr(-1)' = dstPC'
    <3>1. ~(-1 + 1 < Live')  BY <2>5, SMT
    <3> QED  BY <2>5, <3>1 DEF NextAddr, Front
  <2> QED  BY <1>2, <2>4, <2>5, <2>6
<1>3. CASE ~trapUOp.valid
  <2>1. NextAddr(-1) = IF ComCount = 0 THEN arch.pc ELSE ComNext(ComCount - 1)
    BY <1>3 DEF CoInv, CommitInv
  <2>2. ComPC(ComCount, keep) = IF ComCount = 0 THEN arch.pc ELSE ComNext(ComCount - 1)
    BY <1>3 DEF ComPC, Traps
  <2> QED  BY <1>1, <1>3, <2>1, <2>2
<1>4. QED  BY <1>2, <1>3

\* The instruction that commits is where the one before it leads.
LEMMA CommitPC ==
  ASSUME CoInv, NEW F, NEW R, NEW pd, NEW keep, NEW n, Tick(F, R, pd, keep, n),
         NEW k \in Nat, k < n
  PROVE  Fetch(k).pc = IF k = 0 THEN arch'.pc ELSE ComNext(k - 1)'
<1>1. ~trapUOp.valid /\ k < Live  BY CommitsLive
<1>2. CASE k = 0
  <2>1. -1 + 1 = 0 /\ 0 < Live  BY <1>1, <1>2, SMT
  <2>2. NextAddr(-1) = Fetch(0).pc  BY <2>1 DEF NextAddr
  <2>3. NextAddr(-1) = arch'.pc  BY <1>1, ArchNext
  <2> QED  BY <1>2, <2>2, <2>3
<1>3. CASE k # 0
  <2>1. PICK j : j = k - 1  OBVIOUS
  <2>2. n \in Nat  BY ComMoves
  <2>3. j \in Nat /\ j < n /\ j + 1 < n /\ j + 1 = k  BY <1>3, <2>1, <2>2, SMT
  <2>4. ~Asks(j)  BY <2>3, ComMoves
  <2>5. NextAddr(j) = ComNext(j)'  BY <2>3, <2>4, PathCommitted
  <2>6. NextAddr(j) = Fetch(k).pc  BY <1>1, <2>3 DEF NextAddr
  <2> QED  BY <1>3, <2>1, <2>5, <2>6
<1>4. QED  BY <1>2, <1>3

\* The copy of the instruction that commits.
LEMMA CommitCopy ==
  ASSUME CoInv, NEW F, NEW R, NEW pd, NEW keep, NEW n, Tick(F, R, pd, keep, n),
         NEW k \in Nat, k < n, NEW inst, inst = insts'[ComSqN(k)']
  PROVE  /\ inst.pc = Fetch(k).pc /\ inst.tag = Uops[k].tag /\ inst.rd = Uops[k].rd
         /\ inst.flags = IF flags[Slot(k)] = "TRAP" THEN "NONE" ELSE flags[Slot(k)]
<1>1. PICK s : s = Plus(baseIndex, k)  OBVIOUS
<1>2. /\ k < Pos(lastIndex) /\ k < InFlight /\ k \in 0 .. Pos(lastIndex) - 1
      /\ flags[Slot(k)] # "NX" /\ ComSqN(k)' = s /\ k < Live
  BY <1>1, ComMoves, CommitsLive
<1>3. insts'[s] = Flagged(F, s)  BY <1>1, <1>2, CopyMoves
<1>4. Answers(F, s) = {}
  <2>1. SUFFICES ASSUME NEW u \in F, u.sqN = s  PROVE FALSE
    BY DEF Answers
  <2>2. F \in ExecCompletions  BY DEF Tick
  <2>3. Waiting(u.sqN)  BY <2>2, Reported
  <2>4. Waiting(s)  BY <2>1, <2>3
  <2>5. flags[Slot(Pos(s))] = "NX"  BY <2>4, WaitingUop
  <2>6. Pos(s) = k  BY <1>1, <1>2, TickIsCycle, SlotsAt
  <2> QED  BY <1>2, <2>5, <2>6
<1>5. inst = insts[s]  BY <1>2, <1>3, <1>4 DEF Flagged
<1>6. /\ insts[s].pc = Fetch(k).pc
      /\ insts[s].tag = Uops[k].tag /\ insts[s].rd = Uops[k].rd
      /\ k < Live => insts[s].flags = (IF flags[Slot(k)] \in {"NX", "TRAP"} THEN "NONE"
                                       ELSE flags[Slot(k)])
  BY <1>1, <1>2 DEF CoInv, ShadowInv
<1>7. QED  BY <1>2, <1>5, <1>6

\* What the commit does to the map.
LEMMA CommitEffect ==
  ASSUME CoInv, NEW F, NEW R, NEW pd, NEW keep, NEW n, Tick(F, R, pd, keep, n),
         NEW k \in Nat, k < n, NEW d, d = Fetch(k), NEW op, op = InstrOf(d).op
  PROVE  /\ d.irq \/ op \in {"ILL", "ECALL"} => comUOp'[k].rd = 0
         /\ ~(d.irq \/ op \in {"ILL", "ECALL"}) =>
              comUOp'[k].rd = InstrOf(d).rd /\ Uops[k].rd = InstrOf(d).rd
              /\ comUOp'[k].tag = Uops[k].tag /\ flags[Slot(k)] \notin Exception
         /\ op = "ECALL" => Uops[k].rd = 0
         /\ Uops[k].rd = DecodedUOp(d).rd
<1>1. comUOp'[k] = Effect(k)  BY ComMoves
<1>2. UopOf(k) /\ WellFetched(d) /\ prog \in Programs  BY CommitsLive, TickIsCycle
<1>3. Uops[k].rd = DecodedUOp(d).rd  BY <1>2 DEF UopOf
<1>4. /\ d.irq \in BOOLEAN /\ (~d.irq => DecodedUOp(d).rd = InstrOf(d).rd)
      /\ (op = "ECALL" => DecodedUOp(d).rd = 0)
  BY <1>2, DecodedUnit
<1>5. flags[Slot(k)] \in Exception <=> d.irq \/ op \in {"ILL", "ECALL"}  BY ComFlags
<1>6. CASE d.irq \/ op \in {"ILL", "ECALL"}
  <2>1. comUOp'[k].rd = 0  BY <1>1, <1>5, <1>6 DEF Effect
  <2> QED  BY <1>3, <1>4, <1>6, <2>1
<1>7. CASE ~(d.irq \/ op \in {"ILL", "ECALL"})
  <2>1. comUOp'[k].rd = Uops[k].rd /\ comUOp'[k].tag = Uops[k].tag  BY <1>1, <1>5, <1>7 DEF Effect
  <2> QED  BY <1>3, <1>4, <1>5, <1>7, <2>1
<1>8. QED  BY <1>6, <1>7

\* What the tag of the instruction that commits holds.
LEMMA CommitValue ==
  ASSUME CoInv, NEW F, NEW R, NEW pd, NEW keep, NEW n, Tick(F, R, pd, keep, n),
         NEW k \in Nat, k < n, NEW d, d = Fetch(k), NEW op, op = InstrOf(d).op,
         ~(d.irq \/ op \in {"ILL", "ECALL"}), Uops[k].rd # 0,
         NEW t, t = Uops[k].tag, NEW v, v = ReadTag(rf', t)
  PROVE  /\ t \in RFTag => phyRF'[t] = rf'[t]
         /\ op \notin {"RDCSR", "SC"} => v = Result(d, ComValue(k)')
         /\ op = "SC" => v \in {0, 1}
<1>1. UopOf(k) /\ WellFetched(d) /\ prog \in Programs /\ k \in 0 .. Live - 1 /\ k < Pos(lastIndex)
      /\ k \in 0 .. InFlight - 1 /\ Produced(k)
  BY CommitsLive, TickIsCycle
<1>2. flags[Slot(k)] \in CompletesWith(d) /\ flags[Slot(k)] \notin Exception /\ flags[Slot(k)] # "NX"
  BY ComFlags, CommitEffect, CommitsLive
<1>3. flags[Slot(k)] \in Flags \ (Exception \cup {"NX"})
  <2>1. CompletesWith(d) \subseteq {"TRAP", "ILLEGAL", "ORDERING", "NONE", "PRED"}
    BY DEF CompletesWith
  <2>2. {"TRAP", "ILLEGAL", "ORDERING", "NONE", "PRED"} \subseteq Flags
    BY DEF Flags, Exception
  <2> QED  BY <1>2, <2>1, <2>2
<1>4. PICK u : u = DecodedUOp(d)  OBVIOUS
<1>5. /\ Uops[k].rd = u.rd
      /\ FuAt(k) = u.fu \/ (u.fu = "SC" /\ FuAt(k) = "RN")
      /\ t \in RFTag <=> u.rd # 0 /\ u.fu \in {"INT", "LOAD"}
      /\ t \notin RFTag => t = (IF FuAt(k) = "RN" THEN TAG_ONE ELSE TAG_ZERO)
  BY <1>1, <1>4 DEF UopOf
<1>6. /\ u.fu = "RN" <=> ~d.irq /\ op = "LI"
      /\ u.fu = "TRAP" <=> d.irq \/ op = "ECALL"
      /\ u.fu = "SC" <=> ~d.irq /\ op = "SC"
      /\ u.fu = "LOAD" <=> ~d.irq /\ op = "LR"
      /\ d.irq \in BOOLEAN
  BY <1>1, <1>4, DecodedUnit
<1>7. u.fu \in {"RN", "TRAP", "LOAD", "SC", "INT"}  BY <1>1, <1>4, DecodedType
<1>8. CASE t \in RFTag
  <2>1. Avail(k) /\ phyRF[t] = rf[t]
        /\ (OpOf(Plus(baseIndex, k)) # "RDCSR" => rf[t] = Result(d, Value(k)))
    BY <1>1, <1>3, <1>8 DEF CoInv, ValueInv
  <2>2. rf'[t] = rf[t] /\ phyRF'[t] = phyRF[t]  BY <1>1, <1>8, ProducedStaysValue
  <2>3. v = rf'[t]  BY <1>8 DEF ReadTag
  <2>4. OpOf(Plus(baseIndex, k)) = op
    <3>1. SlotOf(Plus(baseIndex, k)) = d  BY CommitsLive
    <3> QED  BY <3>1 DEF OpOf
  <2>5. ComValue(k)' = Value(k)  BY <2>1, ComValueMoves
  <2>6. op # "SC"  BY <1>5, <1>6, <1>8
  <2> QED  BY <2>1, <2>2, <2>3, <2>4, <2>5, <2>6
<1>9. CASE t \notin RFTag
  <2>1. u.fu \in {"RN", "SC"}  BY <1>5, <1>6, <1>7, <1>9
  <2>2. v = t - TAG_ZERO  BY <1>9 DEF ReadTag
  <2>3. TAG_ZERO - TAG_ZERO = 0 /\ TAG_ONE - TAG_ZERO = 1
    BY IncludeAssumption, SMT DEF TAG_ZERO, TAG_ONE
  <2>4. t \in {TAG_ZERO, TAG_ONE} /\ (u.fu = "RN" => t = TAG_ONE)  BY <1>5, <1>9
  <2>5. v \in {0, 1} /\ (u.fu = "RN" => v = 1)  BY <2>2, <2>3, <2>4
  <2>6. op = "LI" => Result(d, ComValue(k)') = 1  BY DEF Result, ResultOf
  <2> QED  BY <1>6, <1>9, <2>1, <2>5, <2>6
<1>10. QED  BY <1>8, <1>9

\* Every uop that leaves the buffer is what the next step of the program asks for.
LEMMA ComUopStep ==
  ASSUME CoInv, NEW F, NEW R, NEW pd, NEW keep, NEW n, Tick(F, R, pd, keep, n),
         NEW k \in Nat, k < n
  PROVE  ComUop(k)'
<1>1. PICK d, op, inst : d = Fetch(k) /\ op = InstrOf(d).op /\ inst = insts'[ComSqN(k)']  OBVIOUS
<1>2. ComFetch(k)' = d /\ WellFetched(d) /\ prog' = prog /\ prog \in Programs
  BY <1>1, CommitsLive, TickIsCycle
<1>3. /\ WellFetched(d)' = WellFetched(d) /\ InstrOf(d)' = InstrOf(d)
      /\ CompletesWith(d)' = CompletesWith(d) /\ \A v : Result(d, v)' = Result(d, v)
  BY <1>2, InstrStays
<1>4. ComCount' = n /\ n \in Nat /\ ComSqN(k)' = Plus(baseIndex, k)
      /\ (k + 1 < n => ~Asks(k)) /\ (k + 1 = n => (trapUOp'.valid <=> Asks(k)))
      /\ (k + 1 = n /\ Asks(k) =>
            trapUOp'.flags = flags[Slot(k)] /\ trapUOp'.sqN = Plus(baseIndex, k))
  BY ComMoves
<1>5. /\ flags[Slot(k)] \in CompletesWith(d) /\ op \in Op /\ d.irq \in BOOLEAN
      /\ Asks(k) <=> d.irq \/ op \in {"ILL", "ECALL", "CSRW"}
      /\ flags[Slot(k)] \in Exception <=> d.irq \/ op \in {"ILL", "ECALL"}
      /\ ~d.irq /\ op = "ECALL" => flags[Slot(k)] = "TRAP"
      /\ flags[Slot(k)] = "TRAP" => d.irq \/ op = "ECALL"
  BY <1>1, ComFlags
<1>6. /\ Traps(k)' <=> (d.irq \/ op \in {"ILL", "ECALL", "CSRW"})
      /\ Traps(k)' => trapUOp'.flags \in CompletesWith(d) /\ trapUOp'.sqN = ComSqN(k)'
  <2>1. Traps(k)' <=> trapUOp'.valid /\ k = n - 1  BY <1>4 DEF Traps
  <2>2. k + 1 < n \/ k + 1 = n  BY <1>4, SMT
  <2>3. CASE k + 1 < n
    <3>1. k # n - 1  BY <1>4, <2>3, SMT
    <3> QED  BY <1>4, <1>5, <2>1, <2>3, <3>1
  <2>4. CASE k + 1 = n
    <3>1. k = n - 1  BY <1>4, <2>4, SMT
    <3> QED  BY <1>4, <1>5, <2>1, <2>4, <3>1
  <2> QED  BY <2>2, <2>3, <2>4
<1>7. d.pc = IF k = 0 THEN arch'.pc ELSE ComNext(k - 1)'  BY <1>1, CommitPC
<1>8. /\ inst.pc = d.pc /\ inst.tag = Uops[k].tag /\ inst.rd = Uops[k].rd
      /\ inst.flags = IF flags[Slot(k)] = "TRAP" THEN "NONE" ELSE flags[Slot(k)]
  BY <1>1, CommitCopy
<1>9. /\ d.irq \/ op \in {"ILL", "ECALL"} => comUOp'[k].rd = 0
      /\ ~(d.irq \/ op \in {"ILL", "ECALL"}) =>
           comUOp'[k].rd = InstrOf(d).rd /\ Uops[k].rd = InstrOf(d).rd
           /\ comUOp'[k].tag = Uops[k].tag /\ flags[Slot(k)] \notin Exception
      /\ op = "ECALL" => Uops[k].rd = 0
  BY <1>1, CommitEffect
<1>10. ~d.irq => (WritesGPR(inst) <=> comUOp'[k].rd # 0)
  <2>1. CASE ~d.irq /\ op = "ECALL"  BY <1>8, <1>9, <2>1 DEF WritesGPR
  <2>2. CASE ~d.irq /\ op = "ILL"
    <3>1. inst.flags \in Exception  BY <1>5, <1>8, <2>2
    <3> QED  BY <1>9, <2>2, <3>1 DEF WritesGPR
  <2>3. CASE ~d.irq /\ op \notin {"ILL", "ECALL"}
    <3>1. inst.flags \notin Exception  BY <1>5, <1>8, <1>9, <2>3
    <3> QED  BY <1>8, <1>9, <2>3, <3>1 DEF WritesGPR
  <2> QED  BY <2>1, <2>2, <2>3
<1>11. ~d.irq /\ ~IsTrap(InstrOf(d)) =>
         comUOp'[k].rd = InstrOf(d).rd /\ inst.rd = comUOp'[k].rd /\ inst.tag = comUOp'[k].tag
  BY <1>1, <1>8, <1>9 DEF IsTrap
<1>12. comUOp'[k].rd # 0 =>
         LET v == ReadTag(rf', comUOp'[k].tag)
         IN  /\ comUOp'[k].tag \in RFTag => phyRF'[comUOp'[k].tag] = rf'[comUOp'[k].tag]
             /\ op \notin {"RDCSR", "SC"} => v = Result(d, ComValue(k)')
             /\ op = "SC" => v \in {0, 1}
  <2>1. SUFFICES ASSUME comUOp'[k].rd # 0, NEW t, t = comUOp'[k].tag, NEW v, v = ReadTag(rf', t)
                 PROVE  /\ t \in RFTag => phyRF'[t] = rf'[t]
                        /\ op \notin {"RDCSR", "SC"} => v = Result(d, ComValue(k)')
                        /\ op = "SC" => v \in {0, 1}
    OBVIOUS
  <2>2. ~(d.irq \/ op \in {"ILL", "ECALL"})  BY <1>9, <2>1
  <2>3. Uops[k].rd # 0 /\ t = Uops[k].tag  BY <1>9, <2>1, <2>2
  <2> QED  BY <1>1, <2>1, <2>2, <2>3, CommitValue
<1>13. PICK x : x = ComValue(k)'  OBVIOUS
<1>14. Result(d, x)' = Result(d, x)  BY <1>3
<1>15. Result(ComFetch(k), ComValue(k))' = Result(d, ComValue(k)')
  <2>1. Result(ComFetch(k), ComValue(k))' = Result(d, x)'
    BY <1>2, <1>13 DEF Result, InstrOf, ResultOf, At
  <2> QED  BY <1>13, <1>14, <2>1
<1> HIDE DEF Traps
<1>16. QED
  BY <1>1, <1>2, <1>3, <1>6, <1>7, <1>8, <1>9, <1>10, <1>11, <1>12, <1>15 DEF ComUop

\* CommitInv in terms of the number of uops that are being committed.
CommitAt(m) ==
  /\ ComCount = m /\ \A i \in Port : i \in Committing <=> i < m
  /\ trapUOp.valid => m > 0
  /\ \A k \in Nat : k < m => ComUop(k)
  /\ ~trapUOp.valid => NextAddr(-1) = IF m = 0 THEN arch.pc ELSE ComNext(m - 1)

LEMMA CommitSplit == (\E m \in Nat : CommitAt(m)) => CommitInv
<1> SUFFICES ASSUME NEW m \in Nat, CommitAt(m)  PROVE CommitInv
  OBVIOUS
<1>1. ASSUME NEW k \in 0 .. m - 1  PROVE k \in Nat /\ k < m
  BY SMT
<1>2. ComCount = m  BY DEF CommitAt
<1>3. QED  BY <1>1, <1>2 DEF CommitAt, CommitInv

LEMMA CommitSplitAfter == (\E m \in Nat : CommitAt(m))' => CommitInv'
  BY CommitSplit, PTL

LEMMA CommitInvStep ==
  ASSUME CoInv, NEW F, NEW R, NEW pd, NEW keep, NEW n, Tick(F, R, pd, keep, n)
  PROVE  CommitInv'
<1>1. /\ n \in Nat /\ ComCount' = n /\ \A i \in Port : i \in Committing' <=> i < n
      /\ trapUOp'.valid => n > 0
  BY ComMoves
<1>2. \A k \in Nat : k < n => ComUop(k)'  BY ComUopStep
<1>3. ~trapUOp'.valid => NextAddr(-1)' = IF n = 0 THEN arch'.pc ELSE ComNext(n - 1)'
  <2>1. CASE trapUOp.valid  BY <2>1, ArchNext
  <2>2. CASE ~trapUOp.valid /\ ~trapUOp'.valid
    <3>1. PICK q : q = -1  OBVIOUS
    <3>2. Pos(lastIndex)' \in Nat  BY TickReplays
    <3>3. q \in Int /\ -1 <= q /\ q < Pos(lastIndex)' /\ ~(0 <= q)  BY <3>1, <3>2, SMT
    <3>4. NextAddr(q)' = NextAddr(q + n)  BY <2>2, <3>1, <3>3, NextAddrMoves
    <3>5. CASE n = 0
      <4>1. q + n = -1  BY <3>1, <3>5, SMT
      <4>2. NextAddr(-1) = arch'.pc  BY <2>2, ArchNext
      <4> QED  BY <3>1, <3>4, <3>5, <4>1, <4>2
    <3>6. CASE n # 0
      <4>1. PICK j : j = n - 1  OBVIOUS
      <4>2. j \in Nat /\ j < n /\ j + 1 = n /\ q + n = j  BY <1>1, <3>1, <3>6, <4>1, SMT
      <4>3. ~Asks(j)  BY <2>2, <4>2, ComMoves
      <4>4. NextAddr(j) = ComNext(j)'  BY <4>2, <4>3, PathCommitted
      <4> QED  BY <3>1, <3>4, <3>6, <4>1, <4>2, <4>4
    <3> QED  BY <3>5, <3>6
  <2> QED  BY <2>1, <2>2
<1>4. CommitAt(n)'  BY <1>1, <1>2, <1>3 DEF CommitAt
<1>5. (\E m \in Nat : CommitAt(m))'  BY <1>1, <1>4
<1>6. QED  BY <1>5, CommitSplitAfter

-----------------------------------------------------------------------------
(* Type correctness. *)

\* Where the redirect sends fetch.
LEMMA DstType ==
  ASSUME CoInv, NEW F, NEW R, NEW pd, NEW keep, NEW n, Tick(F, R, pd, keep, n)
  PROVE  dstPC' \in PCs(prog)
<1>1. prog \in Programs /\ 0 \in PCs(prog) /\ ExecRedirect(F, keep)
  <2>1. prog \in Programs  BY TickIsCycle
  <2>2. fetchPC \in PCs(prog)  BY DEF CoInv, CoTypeOK
  <2> QED  BY <2>1, <2>2, InstrType DEF Tick, ExecCycle, Handler
<1>2. CASE trapUOp.valid
  <2>1. ComCount > 0 /\ ComCount \in Nat  BY <1>2, CommitPorts DEF CoInv, CommitInv
  <2>2. PICK j : j = ComCount - 1  OBVIOUS
  <2>3. Traps(j)  BY <1>2, <2>2 DEF Traps
  <2>4. arch'.pc = TrapDst(keep)
    <3>1. arch'.pc = ComPC(ComCount, keep)  BY ArchMoves
    <3> QED  BY <2>1, <2>2, <2>3, <3>1 DEF ComPC
  <2>5. arch' \in Machines(prog)  BY ArchMoves
  <2>6. dstPC' = TrapDst(keep)  BY <1>2, TrapKind
  <2> QED  BY <2>4, <2>5, <2>6 DEF Machines
<1>3. CASE ~trapUOp.valid /\ branch'.taken
  <2>1. CASE \E s \in intRes' : dstPC' = NextPC(prog, SlotOf(s).pc, Operand(s))
    <3>1. PICK s \in intRes' : dstPC' = NextPC(prog, SlotOf(s).pc, Operand(s))  BY <2>1
    <3>2. Waiting(s) /\ Unit(s).avail  BY RaisedBy
    <3>3. PICK q : q = Pos(s)  OBVIOUS
    <3>4. q \in 0 .. InFlight - 1 /\ Fetch(q) = SlotOf(s) /\ Operand(s) = Value(q)
          /\ WellFetched(Fetch(q)) /\ Uops[q].src = Unit(s).tag
      BY <3>2, <3>3, WaitingUop
    <3>5. SlotOf(s).pc \in PCs(prog)  BY <3>4 DEF WellFetched
    <3>6. Unit(s).tag \in Tag
      <4>1. TypeOK /\ WindowInv /\ RobIdx(s) \in RobIdxs
        <5>1. TypeOK /\ WindowInv  BY TickIsCycle
        <5>2. s \in SqNs  BY <3>2, WaitingUop
        <5> QED  BY <5>1, <5>2, RobIdxType
      <4> QED  BY <4>1 DEF TypeOK, BackendUOp, Unit
    <3>7. Operand(s) \in Val  BY <3>6, ReadType DEF Operand
    <3> QED  BY <1>1, <3>1, <3>5, <3>7, InstrType
  <2>2. CASE 0 < Pos(lastIndex) /\ dstPC' = Fetch(0).pc
    <3>1. UopsInv /\ InFlight \in Nat /\ 0 < InFlight /\ 0 \in 0 .. InFlight - 1
      <4>1. Pos(lastIndex) <= InFlight /\ InFlight \in Nat /\ Pos(lastIndex) \in Int
        BY TickIsCycle, FlightType
      <4>2. 0 < InFlight /\ 0 \in 0 .. InFlight - 1  BY <2>2, <4>1, SMT
      <4> QED  BY <4>1, <4>2 DEF CoInv
    <3> QED  BY <2>2, <3>1 DEF UopsInv, UopOf, WellFetched
  <2> QED  BY <1>3, <2>1, <2>2, RedirectKinds
<1>4. CASE ~trapUOp.valid /\ ~branch'.taken
  <2>1. PICK B \in {C \in SUBSET {s \in BranchCandidates : Mispredicts(s)} :
                      Cardinality(C) <= NumBranchPorts},
             M \in {{}} \cup {{s} : s \in MemCandidates(F)} :
          /\ branch' = SelectBranch(B, M) /\ intRes' = B
          /\ dstPC' = CASE trapUOp.valid -> TrapDst(keep)
                        [] B # {} /\ branch' = IntBranch(Oldest(B)) ->
                             NextPC(prog, SlotOf(Oldest(B)).pc, Operand(Oldest(B)))
                        [] branch'.isSCFail -> SlotOf(Plus(branch'.sqN, 1)).pc
                        [] OTHER -> 0
    BY <1>1 DEF ExecRedirect
  <2>2. B = {}  BY <1>4, <2>1, RaisedTaken
  <2>3. M = {}
    <3> SUFFICES ASSUME M # {}  PROVE FALSE
      OBVIOUS
    <3>1. branch' = CHOOSE b \in {MemBranch(s) : s \in M} : TRUE
      BY <1>4, <2>1, <2>2 DEF SelectBranch
    <3>2. PICK s \in M : branch' = MemBranch(s)  BY <3>1
    <3>3. branch'.taken  BY <3>2 DEF MemBranch
    <3> QED  BY <1>4, <3>3
  <2>4. branch' = NoBranch  BY <1>4, <2>1, <2>2, <2>3 DEF SelectBranch
  <2>5. ~branch'.isSCFail  BY <2>4 DEF NoBranch
  <2>6. dstPC' = 0  BY <1>4, <2>1, <2>2, <2>5
  <2> QED  BY <1>1, <2>6
<1>5. QED  BY <1>2, <1>3, <1>4

\* Fetch.
LEMMA FrontType ==
  ASSUME CoInv, NEW F, NEW R, NEW pd, NEW keep, NEW n, Tick(F, R, pd, keep, n)
  PROVE  /\ fetchPC' \in PCs(prog) /\ issuedInterrupt' \in BOOLEAN
         /\ de' \in [Port -> Fetched] /\ rnInstr' \in [Port -> Fetched]
         /\ slot' \in [RobIdxs -> Fetched]
<1>1. /\ FrontStep(pd) /\ SlotStep /\ fetchPC \in PCs(prog) /\ dstPC \in PCs(prog)
      /\ issuedInterrupt \in BOOLEAN /\ de \in [Port -> Fetched]
      /\ rnInstr \in [Port -> Fetched] /\ slot \in [RobIdxs -> Fetched]
  BY DEF Tick, ExecCycle, CoInv, CoTypeOK
<1>2. NoFetch \in Fetched  BY DEF NoFetch, Fetched
<1>3. slot' \in [RobIdxs -> Fetched]
  <2>1. ASSUME NEW k \in RobIdxs
        PROVE  (LET e == Enqueued(k, rnUOp, branch)
                IN  IF e # {} THEN rnInstr[CHOOSE i \in e : TRUE] ELSE slot[k]) \in Fetched
    <3>1. Enqueued(k, rnUOp, branch) \subseteq Port  BY DEF Enqueued
    <3> QED  BY <1>1, <3>1
  <2> QED  BY <1>1, <2>1 DEF SlotStep
<1>4. rnInstr' \in [Port -> Fetched]
  <2>1. rnInstr' = IF RNTakes THEN de ELSE [i \in Port |-> NoFetch]  BY <1>1 DEF FrontStep
  <2> QED  BY <1>1, <1>2, <2>1
<1>5. CASE branch.taken
  <2>1. de' = [i \in Port |-> NoFetch] /\ fetchPC' = dstPC /\ issuedInterrupt' = FALSE
    BY <1>1, <1>5 DEF FrontStep
  <2> QED  BY <1>1, <1>2, <1>3, <1>4, <2>1
<1>6. CASE ~branch.taken /\ ~FrontReady
  <2>1. de' = de /\ fetchPC' = fetchPC /\ issuedInterrupt' = issuedInterrupt
    BY <1>1, <1>6 DEF FrontStep
  <2> QED  BY <1>1, <1>3, <1>4, <2>1
<1>7. CASE ~branch.taken /\ FrontReady
  <2>1. /\ de' = pd /\ pd \in [Port -> Fetched]
        /\ \A i \in Port : pd[i].valid => WellFetched(pd[i])
        /\ \A i \in Port : pd[i].valid /\ (i + 1 < Width => ~pd[i + 1].valid) =>
              fetchPC' = pd[i].predPC
        /\ ~pd[0].valid => fetchPC' = fetchPC
    BY <1>7, FetchedNext
  <2>2. issuedInterrupt' = (issuedInterrupt \/ \E i \in Port : pd[i].irq)
    BY <1>1, <1>7 DEF FrontStep
  <2>3. CASE ~pd[0].valid  BY <1>1, <1>3, <1>4, <2>1, <2>2, <2>3
  <2>4. CASE pd[0].valid
    <3>1. \E i \in Port : pd[i].valid /\ (i + 1 < Width => ~pd[i + 1].valid)
      <4> DEFINE T == {j \in Port : ~pd[j].valid}
      <4>1. CASE T = {}
        <5>1. Width - 1 \in Port /\ ~((Width - 1) + 1 < Width)  BY WidthType, SMT DEF Port
        <5>2. PICK i \in Port : i = Width - 1  BY <5>1
        <5> QED  BY <4>1, <5>1, <5>2
      <4>2. CASE T # {}
        <5>1. T \subseteq Nat  BY SMT DEF Port
        <5>2. PICK t \in T : \A l \in T : t <= l
          <6> HIDE DEF T
          <6> QED  BY <4>2, <5>1, LeastNat
        <5>3. t \in Port /\ ~pd[t].valid /\ t # 0  BY <2>4
        <5>4. PICK i : i = t - 1  OBVIOUS
        <5>5. i \in Port /\ i + 1 = t /\ ~(t <= i)
          BY ONLY <5>3, <5>4, WidthType, SMT DEF Port
        <5> QED  BY <5>2, <5>3, <5>5
      <4> QED  BY <4>1, <4>2
    <3>2. fetchPC' \in PCs(prog)  BY <2>1, <3>1 DEF WellFetched
    <3> QED  BY <1>3, <1>4, <2>1, <2>2, <3>2
  <2> QED  BY <2>3, <2>4
<1>8. QED  BY <1>5, <1>6, <1>7

\* Registers hold values.
LEMMA WrittenResults ==
  ASSUME NEW x \in [RFTag -> Val], NEW w, \A u \in DOMAIN w : w[u] \in Val
  PROVE  WithResults(x, w) \in [RFTag -> Val]
<1>1. \A t \in RFTag : (IF \E u \in DOMAIN w : u.tagDst = t
                       THEN w[CHOOSE u \in DOMAIN w : u.tagDst = t] ELSE x[t]) \in Val
  OBVIOUS
<1>2. QED  BY <1>1 DEF WithResults

\* The copies of the testbench stay instructions.
LEMMA CopiesType ==
  ASSUME CoInv, NEW F, NEW R, NEW pd, NEW keep, NEW n, Tick(F, R, pd, keep, n)
  PROVE  tbPd' \in [Port -> Inst] /\ tbDe' \in [Port -> Inst] /\ insts' \in [SqNs -> Inst]
<1>1. /\ tbPd \in [Port -> Inst] /\ tbDe \in [Port -> Inst] /\ insts \in [SqNs -> Inst]
      /\ LogInstructions(F, R, pd, keep) /\ F \in SUBSET FlagsUOp
      /\ \A i \in Port : rnUOp[i].tagDst \in Tag
  <2>1. TypeOK /\ F \in AnyCompletions  BY TickIsCycle
  <2>2. F \in SUBSET FlagsUOp  BY <2>1, CompletionsType
  <2>3. \A i \in Port : rnUOp[i].tagDst \in Tag  BY <2>1 DEF TypeOK, RNTypeOK, R_UOp
  <2> QED  BY <2>2, <2>3 DEF Tick, CoInv, CoTypeOK
<1>2. \A x \in Inst : /\ \A t \in Tag : [x EXCEPT !.tag = t] \in Inst
                      /\ \A f \in Flags \ {"NX"} : [x EXCEPT !.flags = f] \in Inst
                      /\ \A r \in Reg : [x EXCEPT !.rd = r] \in Inst
                      /\ [x EXCEPT !.valid = FALSE] \in Inst
  BY DEF Inst
<1>3. LogFlags(F) \in [SqNs -> Inst]
  <2>1. ASSUME NEW s \in SqNs
        PROVE  (LET G == {u \in F : u.sqN = s /\ ~u.doNotCommit}
                IN  IF G # {} THEN [insts[s] EXCEPT !.flags = (CHOOSE u \in G : TRUE).flags]
                    ELSE insts[s]) \in Inst
    <3> DEFINE G == {u \in F : u.sqN = s /\ ~u.doNotCommit}
    <3>1. CASE G = {}  BY <1>1, <3>1
    <3>2. CASE G # {}
      <4>1. PICK u \in G : u = CHOOSE v \in G : TRUE  BY <3>2
      <4>2. u.flags \in Flags \ {"NX"}  BY <1>1 DEF FlagsUOp
      <4>3. insts[s] \in Inst  BY <1>1
      <4>4. [insts[s] EXCEPT !.flags = u.flags] \in Inst  BY <1>2, <4>2, <4>3
      <4> QED  BY <3>2, <4>1, <4>4
    <3> QED  BY <3>1, <3>2
  <2> QED  BY <2>1 DEF LogFlags
<1> DEFINE retired == [x \in SqNs |-> IF \E i \in Committing : ComSqN(i) = x
                                      THEN [LogFlags(F)[x] EXCEPT !.valid = FALSE]
                                      ELSE LogFlags(F)[x]]
<1>4. retired \in [SqNs -> Inst]
  <2>1. \A x \in SqNs : LogFlags(F)[x] \in Inst /\ [LogFlags(F)[x] EXCEPT !.valid = FALSE] \in Inst
    BY <1>2, <1>3
  <2> QED  BY <2>1
<1>5. insts' = IF branch.taken THEN retired ELSE LogRename(retired)
  BY <1>1 DEF LogInstructions
<1> HIDE DEF retired
<1>6. LogRename(retired) \in [SqNs -> Inst]
  <2>1. ASSUME NEW s \in SqNs
        PROVE  (LET P == {i \in Port : rnUOp[i].valid /\ rnUOp[i].sqN = s}
                IN  IF P = {} THEN retired[s]
                    ELSE LET i == CHOOSE j \in P : TRUE
                         IN  [tbDe[i] EXCEPT !.tag = rnUOp[i].tagDst]) \in Inst
    <3> DEFINE P == {i \in Port : rnUOp[i].valid /\ rnUOp[i].sqN = s}
    <3>1. CASE P = {}  BY <1>4, <3>1
    <3>2. CASE P # {}
      <4>1. PICK i \in P : i = CHOOSE j \in P : TRUE  BY <3>2
      <4>2. tbDe[i] \in Inst /\ rnUOp[i].tagDst \in Tag  BY <1>1
      <4>3. [tbDe[i] EXCEPT !.tag = rnUOp[i].tagDst] \in Inst  BY <1>2, <4>2
      <4> QED  BY <3>2, <4>1, <4>3
    <3> QED  BY <3>1, <3>2
  <2> QED  BY <2>1 DEF LogRename
<1>7. insts' \in [SqNs -> Inst]  BY <1>4, <1>5, <1>6
<1>8. CASE branch.taken \/ ~FrontReady
  <2>1. tbPd' = tbPd /\ tbDe' = tbDe  BY <1>1, <1>8 DEF LogInstructions
  <2> QED  BY <1>1, <1>7, <2>1
<1>9. CASE ~branch.taken /\ FrontReady
  <2>1. tbDe' = LogDecode /\ tbPd' = LogPredec(pd)  BY <1>1, <1>9 DEF LogInstructions
  <2>2. pd \in [Port -> Fetched]  BY <1>9, FetchedNext
  <2>3. ASSUME NEW i \in Port
        PROVE  /\ (IF de[i].valid THEN [tbPd[i] EXCEPT !.rd = deUOp[i].rd]
                   ELSE [tbDe[i] EXCEPT !.valid = FALSE]) \in Inst
               /\ (IF pd[i].valid THEN [tbPd[i] EXCEPT !.valid = TRUE, !.flags = "NONE",
                                                       !.pc = pd[i].pc]
                   ELSE [tbPd[i] EXCEPT !.valid = FALSE]) \in Inst
    <3>1. tbPd[i] \in Inst /\ tbDe[i] \in Inst /\ pd[i].pc \in Nat  BY <1>1, <2>2 DEF Fetched
    <3>2. de[i].valid => deUOp[i].rd \in Reg
      <4>1. de[i].valid => WellFetched(de[i]) /\ deUOp[i] = DecodedUOp(de[i])
        BY DecodedPorts DEF CoInv, CoTypeOK, FrontInv
      <4>2. prog \in Programs  BY DEF CoInv, CoTypeOK
      <4> QED  BY <4>1, <4>2, DecodedType
    <3>3. "NONE" \in Flags \ {"NX"}  BY DEF Flags
    <3>4. [tbPd[i] EXCEPT !.valid = TRUE, !.flags = "NONE", !.pc = pd[i].pc] \in Inst
      BY <3>1, <3>3 DEF Inst
    <3> QED  BY <1>2, <3>1, <3>2, <3>4
  <2>4. LogDecode \in [Port -> Inst] /\ LogPredec(pd) \in [Port -> Inst]
    BY <2>3 DEF LogDecode, LogPredec
  <2> QED  BY <1>7, <2>1, <2>4
<1>10. QED  BY <1>8, <1>9

LEMMA CoTypeOKStep ==
  ASSUME CoInv, NEW F, NEW R, NEW pd, NEW keep, NEW n, Tick(F, R, pd, keep, n)
  PROVE  CoTypeOK'
<1>1. CoTypeOK /\ prog' = prog /\ PCs(prog)' = PCs(prog)
  BY TickIsCycle DEF CoInv, PCs
<1>2. dstPC' \in PCs(prog) /\ fetchPC' \in PCs(prog) /\ issuedInterrupt' \in BOOLEAN
      /\ de' \in [Port -> Fetched] /\ rnInstr' \in [Port -> Fetched]
      /\ slot' \in [RobIdxs -> Fetched]
  BY DstType, FrontType
<1>3. rf' \in [RFTag -> Val] /\ phyRF' \in [RFTag -> Val]
  <2>1. /\ \A u \in DOMAIN R : R[u] \in Val
        /\ rf' = WithResults(rf, R) /\ phyRF' = WithResults(phyRF, R)
        /\ rf \in [RFTag -> Val] /\ phyRF \in [RFTag -> Val]
    BY TickWrites
  <2> QED  BY <2>1, WrittenResults
<1>4. tbPd' \in [Port -> Inst] /\ tbDe' \in [Port -> Inst] /\ insts' \in [SqNs -> Inst]
  BY CopiesType
<1>5. arch' \in Machines(prog) /\ arch'.minstret = minstret'  BY ArchMoves
<1>6. spike' \in Machines(prog) /\ doRestore' \in BOOLEAN /\ err' = 0
  <2>1. spike \in Machines(prog) /\ doRestore \in BOOLEAN  BY <1>1 DEF CoTypeOK, Machines
  <2>2. err' = 0 /\ (Committing = {} => spike' = spike /\ doRestore' = doRestore)
        /\ (Committing # {} => spike' = arch' /\ doRestore' = FALSE)
    BY SimMoves
  <2> QED  BY <1>5, <2>1, <2>2
<1>7. minstret' \in 0 .. MinstretMod - 1  BY <1>5 DEF Machines
<1>8. QED
  BY <1>1, <1>2, <1>3, <1>4, <1>5, <1>6, <1>7 DEF CoTypeOK, Machines

-----------------------------------------------------------------------------
(* Every step keeps the invariant. *)

\* A clock cycle of the co-simulation is one of the core.
LEMMA ClockTicks ==
  ASSUME CoInv, ClockCycle
  PROVE  \E F, R, pd, keep, n : Tick(F, R, pd, keep, n)
<1>1. \E F \in ExecCompletions : \E R \in Results(F) :
        \E pd \in IF FrontReady THEN Bundles ELSE {[i \in Port |-> NoFetch]} :
        \E keep \in IF trapUOp.valid /\ trapUOp.flags = "ORDERING" THEN BOOLEAN ELSE {FALSE} :
          ExecCycle(F, R, pd, keep) /\ LogInstructions(F, R, pd, keep)
  BY DEF ClockCycle
<1>2. PICK F \in ExecCompletions : \E R \in Results(F) :
        \E pd \in IF FrontReady THEN Bundles ELSE {[i \in Port |-> NoFetch]} :
        \E keep \in IF trapUOp.valid /\ trapUOp.flags = "ORDERING" THEN BOOLEAN ELSE {FALSE} :
          ExecCycle(F, R, pd, keep) /\ LogInstructions(F, R, pd, keep)
  BY <1>1
<1>3. PICK R \in Results(F) :
        \E pd \in IF FrontReady THEN Bundles ELSE {[i \in Port |-> NoFetch]} :
        \E keep \in IF trapUOp.valid /\ trapUOp.flags = "ORDERING" THEN BOOLEAN ELSE {FALSE} :
          ExecCycle(F, R, pd, keep) /\ LogInstructions(F, R, pd, keep)
  BY <1>2
<1>4. PICK pd \in IF FrontReady THEN Bundles ELSE {[i \in Port |-> NoFetch]},
           keep \in IF trapUOp.valid /\ trapUOp.flags = "ORDERING" THEN BOOLEAN ELSE {FALSE} :
          ExecCycle(F, R, pd, keep) /\ LogInstructions(F, R, pd, keep)
  BY <1>3
<1>5. MapInv /\ WindowInv /\ TypeOK /\ FrontInv /\ prog \in Programs
  BY MapParts DEF CoInv, CoTypeOK
<1>6. F \in AnyCompletions  BY <1>2, ExecCompletionsAreAny
<1>7. Cycle(F)
  <2>1. ExecCycle(F, R, pd, keep)  BY <1>4
  <2> QED  BY <1>5, <2>1, ExecIsCycle
<1>8. PICK n \in 0 .. Width : CycleOf(F, n)  BY <1>5, <1>6, <1>7, CycleParts
<1>9. \E used \in SUBSET Port : RenameMoves(used)
  <2>1. RedirectCycle(F) \/ ReplayCycle(F) \/ TrapCycle(F) \/ CommitCycle(F)
    BY <1>8 DEF CycleOf
  <2> QED  BY <1>5, <2>1, RenameAlwaysMoves
<1>10. MapInv'
  <2>1. ScNeverTimesOut  BY CoSimAssumption DEF ScNeverTimesOut
  <2>2. [AnyNext]_vars  BY <1>6, <1>7 DEF AnyNext
  <2> QED  BY <1>5, <2>1, <2>2, NextMap
<1>11. Tick(F, R, pd, keep, n)  BY <1>2, <1>3, <1>4, <1>8, <1>9, <1>10 DEF Tick
<1>12. QED  BY <1>11

\* It keeps the invariant.
LEMMA ClockKeeps ==
  ASSUME CoInv, ClockCycle
  PROVE  CoInv'
<1>1. PICK F, R, pd, keep, n : Tick(F, R, pd, keep, n)  BY ClockTicks
<1>2. MapInv' /\ CoTypeOK'  BY <1>1, TickIsCycle, CoTypeOKStep
<1>3. FrontInv' /\ UopsInv' /\ FlagsInv' /\ RaisedInTime'
  BY <1>1, FrontInvStep, UopsInvStep, FlagsInvStep, RaisedInTimeStep
<1>4. OperandInv' /\ PathInv' /\ ValueInv'
  BY <1>1, OperandInvStep, PathInvStep, ValueInvStep
<1>5. ShadowInv' /\ CommitInv' /\ ArchInv' /\ err' = 0
  BY <1>1, ShadowInvStep, CommitInvStep, ArchInvStep
<1>6. QED  BY <1>2, <1>3, <1>4, <1>5 DEF CoInv

\* Nothing but the reference changes when a backup is restored.
CoreStays == UNCHANGED <<vars, execVars, tbPd, tbDe, insts, phyRF, err, arch>>

\* What that leaves alone ...
LEMMA StaysParts ==
  ASSUME CoreStays
  PROVE  /\ specTag' = specTag /\ comTag' = comTag /\ tagAvail' = tagAvail
         /\ rnUOp' = rnUOp /\ counterSqN' = counterSqN /\ baseIndex' = baseIndex
         /\ lastIndex' = lastIndex /\ flags' = flags /\ entries' = entries /\ comUOp' = comUOp
         /\ trapUOp' = trapUOp /\ mispredFlush' = mispredFlush /\ branch' = branch
         /\ backend' = backend /\ intRes' = intRes /\ prog' = prog /\ fetchPC' = fetchPC
         /\ de' = de /\ rnInstr' = rnInstr /\ slot' = slot /\ rf' = rf /\ dstPC' = dstPC
         /\ minstret' = minstret /\ issuedInterrupt' = issuedInterrupt
         /\ tbPd' = tbPd /\ tbDe' = tbDe /\ insts' = insts /\ phyRF' = phyRF /\ err' = err
         /\ arch' = arch
  BY DEF CoreStays, vars, ratVars, tbVars, rnVars, robVars, execVars

\* ... and so the parts of the invariant that do not mention the reference.
LEMMA StaysKeeps ==
  ASSUME CoInv, CoreStays
  PROVE  /\ MapInv' /\ FrontInv' /\ UopsInv' /\ FlagsInv' /\ RaisedInTime' /\ OperandInv'
         /\ PathInv' /\ ValueInv' /\ ShadowInv' /\ CommitInv' /\ err' = 0
<1> USE StaysParts
<1>1. MapInv'
  <2>1. ScNeverTimesOut  BY CoSimAssumption DEF ScNeverTimesOut
  <2>2. MapInv /\ [AnyNext]_vars  BY DEF CoInv, CoreStays
  <2> QED  BY ONLY <2>1, <2>2, NextMap
<1>2. /\ Uops' = Uops /\ InFlight' = InFlight /\ Base' = Base
      /\ Pos(lastIndex)' = Pos(lastIndex) /\ Pos(branch.sqN)' = Pos(branch.sqN)
  BY DEF Uops, InFlight, Base, Slot, RnPort, Pos
<1>3. \A q : /\ Fetch(q)' = Fetch(q) /\ FuAt(q)' = FuAt(q) /\ MispredAt(q)' = MispredAt(q)
             /\ Produced(q)' = Produced(q) /\ Avail(q)' = Avail(q) /\ Slot(q)' = Slot(q)
  BY <1>2 DEF Fetch, FuAt, MispredAt, Produced, Avail, Slot, RnPort
<1>4. Live' = Live /\ Front' = Front  BY <1>2 DEF Live, Front
<1>5. \A q : NextAddr(q)' = NextAddr(q)
  BY <1>3, <1>4 DEF NextAddr, Fetch, Slot, RnPort, Pos
<1>6. \A q : Value(q)' = Value(q)  BY <1>2 DEF Value, ReadTag
<1>7. \A d : /\ InstrOf(d)' = InstrOf(d) /\ IsBranch(d)' = IsBranch(d)
             /\ WellFetched(d)' = WellFetched(d) /\ DecodedUOp(d)' = DecodedUOp(d)
  BY DEF InstrOf, IsBranch, WellFetched, DecodedUOp
<1>8. FrontInv'  BY <1>7 DEF FrontInv, CoInv, Follows, WellFetched, IsBranch, InstrOf
<1>9. UopsInv'
  <2>1. ASSUME NEW q \in 0 .. InFlight - 1  PROVE UopOf(q)'
    <3>1. UopOf(q)  BY DEF UopsInv, CoInv
    <3> DEFINE d == Fetch(q)
    <3>2. PICK e : e = d  OBVIOUS
    <3>3. e = d' /\ FuAt(q)' = FuAt(q) /\ MispredAt(q)' = MispredAt(q)
          /\ Uops' = Uops /\ Pos(lastIndex)' = Pos(lastIndex)
      BY <1>2, <1>3, <3>2
    <3>4. WellFetched(e)' <=> WellFetched(e)  BY DEF WellFetched, IsBranch, InstrOf
    <3>5. DecodedUOp(e)' = DecodedUOp(e) /\ IsBranch(e)' = IsBranch(e)
      BY DEF DecodedUOp, IsBranch, InstrOf
    <3> HIDE DEF d
    <3>6. WellFetched(d) = WellFetched(e) /\ DecodedUOp(d) = DecodedUOp(e)
          /\ IsBranch(d) = IsBranch(e)
      BY <3>2
    <3>7. WellFetched(d)' = WellFetched(e)' /\ DecodedUOp(d)' = DecodedUOp(e)'
          /\ IsBranch(d)' = IsBranch(e)'
      BY <3>3
    <3> QED  BY <3>1, <3>3, <3>4, <3>5, <3>6, <3>7 DEF UopOf, d
  <2> QED  BY <1>2, <2>1 DEF UopsInv
<1>10. FlagsInv'
  BY DEF FlagsInv, CoInv, CompletesWith, Fetch, FuAt, MispredAt, Slot, RnPort, Pos, IsBranch, InstrOf
<1>11. RaisedInTime'
  BY DEF RaisedInTime, CoInv, Waiting, Unit, SlotOf, IsBranch, InstrOf, InROB
<1>12. OperandInv'
  BY <1>2 DEF OperandInv, CoInv, MapsTo, Fetch, Slot, RnPort, Pos, DecodedUOp, InstrOf, IsBranch
<1>13. PathInv'
  BY <1>4 DEF PathInv, CoInv, Path, NextAddr, Fetch, Slot, RnPort, Pos, IsBranch, InstrOf,
              Avail, Value, ReadTag, Uops, Produced, Live, Front, InFlight
<1>14. ValueInv'
  <2>1. ASSUME NEW q \in 0 .. Live - 1,
               q < Pos(lastIndex), flags[Slot(q)] \in Flags \ (Exception \cup {"NX"}),
               Uops[q].tag \in RFTag
        PROVE  /\ Avail(q)' /\ phyRF[Uops[q].tag] = rf[Uops[q].tag]
               /\ OpOf(Plus(baseIndex, q))' # "RDCSR" =>
                    rf[Uops[q].tag] = (Result(Fetch(q), Value(q)))'
    <3>1. /\ Avail(q) /\ phyRF[Uops[q].tag] = rf[Uops[q].tag]
          /\ OpOf(Plus(baseIndex, q)) # "RDCSR" => rf[Uops[q].tag] = Result(Fetch(q), Value(q))
      BY <2>1 DEF ValueInv, CoInv
    <3>2. OpOf(Plus(baseIndex, q))' = OpOf(Plus(baseIndex, q))  BY DEF OpOf, SlotOf, InstrOf
    <3>3. (Result(Fetch(q), Value(q)))' = Result(Fetch(q), Value(q))
      BY <1>3, <1>6 DEF Result, InstrOf
    <3> QED  BY <1>3, <3>1, <3>2, <3>3
  <2> QED  BY <1>2, <1>3, <1>4, <2>1 DEF ValueInv
<1>15. ShadowInv'
  BY <1>4 DEF ShadowInv, CoInv, Copies, Fetch, Slot, RnPort, Pos, Uops
<1>16. CommitInv'
  <2>1. Committing' = Committing  BY DEF Committing
  <2>2. ComCount' = ComCount  BY <2>1 DEF ComCount
  <2>3. ASSUME NEW k, ComUop(k)  PROVE ComUop(k)'
    <3>1. PICK d : d = ComFetch(k)  OBVIOUS
    <3>2. ComSqN(k)' = ComSqN(k) /\ insts[ComSqN(k)]' = insts[ComSqN(k)]
          /\ Traps(k)' = Traps(k) /\ d = ComFetch(k)'
      BY <2>1, <2>2, <3>1 DEF ComSqN, Traps, ComFetch, SlotOf
    <3>3. ComValue(k)' = ComValue(k) /\ ComNext(k - 1)' = ComNext(k - 1)
      BY <2>1 DEF ComValue, ComNext, ComTag, ComFetch, ComSqN, SlotOf, DecodedUOp, InstrOf,
                  IsBranch, ReadTag
    <3>4. (WellFetched(d)' <=> WellFetched(d)) /\ InstrOf(d)' = InstrOf(d)
          /\ CompletesWith(d)' = CompletesWith(d)
      BY DEF WellFetched, IsBranch, InstrOf, CompletesWith
    <3>5. \A v : Result(d, v)' = Result(d, v)  BY <3>4 DEF Result
    <3> QED  BY <2>3, <3>1, <3>2, <3>3, <3>4, <3>5 DEF ComUop, ReadTag, WritesGPR
  <2>4. NextAddr(-1)' = NextAddr(-1)  BY <1>5
  <2>5. ComNext(ComCount - 1)' = ComNext(ComCount - 1)
    BY <2>1, <2>2 DEF ComValue, ComNext, ComTag, ComFetch, ComSqN, SlotOf, DecodedUOp, InstrOf,
                      IsBranch, ReadTag
  <2> QED  BY <2>1, <2>2, <2>3, <2>4, <2>5 DEF CommitInv, CoInv
<1>17. err' = 0  BY DEF CoInv
<1>18. QED  BY <1>1, <1>8, <1>9, <1>10, <1>11, <1>12, <1>13, <1>14, <1>15, <1>16, <1>17

\* The reference starts with the registers at 0 when a backup is restored.
LEMMA RestoreKeeps ==
  ASSUME CoInv, SaveRestore
  PROVE  CoInv'
<1>1. CoreStays  BY DEF SaveRestore, CoreStays
<1>2. spike' = FreshSpike(NoRegs) /\ doRestore' = TRUE /\ prog \in Backups  BY DEF SaveRestore
<1>3. prog' = prog /\ arch' = arch /\ comTag' = comTag /\ rf' = rf /\ minstret' = minstret
      /\ prog \in Programs
  BY <1>1, StaysParts DEF CoInv, CoTypeOK
<1>4. ArchInv'
  BY <1>2, <1>3 DEF ArchInv, CoInv, ReadTag
<1>5. FreshSpike(NoRegs) \in Machines(prog)
  <2>1. NoRegs \in [Reg -> Val]  BY RegsAgree DEF NoRegs
  <2>2. Handler \in PCs(prog)
    <3>1. Handler \in PCs(prog)
      <4>1. prog \in Seq(Instr) /\ Len(prog) > 0  BY <1>3, ISAAssumption
      <4> QED  BY <4>1, SMT DEF Handler, PCs
    <3> QED  BY <3>1
  <2>3. 0 \in 0 .. MinstretMod - 1  BY ISAAssumption, SMT
  <2> QED  BY <2>1, <2>2, <2>3 DEF FreshSpike, Machines
<1>6. CoTypeOK'
  <2>1. doRestore' \in BOOLEAN  BY <1>2
  <2>2. CoTypeOK  BY DEF CoInv
  <2> QED  BY <1>1, <1>2, <1>5, <2>1, <2>2, StaysParts DEF CoTypeOK, Machines, PCs
<1>7. QED  BY <1>1, <1>4, <1>6, StaysKeeps DEF CoInv

\* The invariant is inductive.
LEMMA NextCo == CoInv /\ [CoNext]_coVars => CoInv'
<1> SUFFICES ASSUME CoInv, [CoNext]_coVars  PROVE CoInv'
  OBVIOUS
<1>1. CASE ClockCycle  BY <1>1, ClockKeeps
<1>2. CASE SaveRestore  BY <1>2, RestoreKeeps
<1>3. CASE UNCHANGED coVars
  <2>1. CoreStays /\ spike' = spike /\ doRestore' = doRestore
    BY <1>3 DEF coVars, simVars, CoreStays
  <2>2. ArchInv'  BY <2>1, StaysParts DEF ArchInv, CoInv, ReadTag
  <2>3. CoTypeOK'  BY <2>1, StaysParts DEF CoTypeOK, CoInv, PCs
  <2> QED  BY <2>1, <2>2, <2>3, StaysKeeps DEF CoInv
<1>4. QED  BY <1>1, <1>2, <1>3 DEF CoNext

-----------------------------------------------------------------------------
(* The invariant holds at the start. *)

\* The core with nothing in flight, and registers that have been set.
Booted ==
  /\ comTag \in [Reg -> {TAG_ZERO} \cup RFTag] /\ specTag = comTag /\ comTag[0] = TAG_ZERO
  /\ \A r, x \in Reg : comTag[r] = comTag[x] /\ comTag[r] \in RFTag => r = x
  /\ tagAvail \subseteq RFTag
  /\ \A r \in Reg : comTag[r] \in RFTag => comTag[r] \in tagAvail
  /\ freeCom = RFTag \ {comTag[r] : r \in Reg} /\ free = freeCom
  /\ mispredWait = FALSE /\ issueTag = [i \in Port |-> NoTag]
  /\ RNInit /\ ROBInit
  /\ branch = NoBranch /\ backend = [k \in RobIdxs |-> NoBackendUOp]
  /\ intRes = {} /\ memRes = {}

\* That is the state after reset ...
LEMMA ResetBoots == Init => Booted
  BY RegsAgree, ImmediatesAreNoRegisters DEF Init, Booted, RATInit, TBInit

\* ... and after the testbench has set a register.
LEMMA WriteRegisterBoots ==
  ASSUME NEW r \in BootRegs, NEW v, WriteRegister(r, v)
  PROVE  Booted /\ r \in Reg /\ r # 0 /\ 0 \in RFTag
<1>1. r \in Reg /\ r # 0 /\ 0 \in Reg  BY CoSimAssumption, RegsAgree
<1>2. 0 \in RFTag /\ TAG_ZERO \notin RFTag
  <2>1. 0 \in RFTag  BY IncludeAssumption, SMT DEF RFTag
  <2> QED  BY <2>1, ImmediatesAreNoRegisters
<1>3. comTag = [x \in Reg |-> IF x = r THEN 0 ELSE TAG_ZERO]  BY DEF WriteRegister
<1>4. /\ comTag \in [Reg -> {TAG_ZERO} \cup RFTag] /\ comTag[0] = TAG_ZERO
      /\ \A x \in Reg : comTag[x] = IF x = r THEN 0 ELSE TAG_ZERO
  BY <1>1, <1>2, <1>3
<1>5. RFTag \ {comTag[x] : x \in Reg} = RFTag \ {0}  BY <1>1, <1>2, <1>4
<1>6. QED  BY <1>1, <1>2, <1>4, <1>5 DEF WriteRegister, Booted

\* Every signal is in its range.
LEMMA BootedType == Booted => TypeOK
<1> SUFFICES ASSUME Booted  PROVE  TypeOK
  OBVIOUS
<1>1. RATTypeOK
  <2>1. {TAG_ZERO} \cup RFTag \subseteq Tag  BY TagType
  <2>2. comTag \in [Reg -> Tag]  BY <2>1 DEF Booted
  <2> QED  BY <2>2 DEF Booted, RATTypeOK
<1>2. TBTypeOK  BY DEF Booted, TBTypeOK
<1>3. RNTypeOK  BY NoRUOpType, ZeroType, NextType DEF Booted, RNInit, RNTypeOK
<1>4. ROBTypeOK
  <2>1. NoEntry \in ROBEntry  BY TagType DEF NoEntry, ROBEntry
  <2>2. NoReplay \in Replay  BY ZeroType DEF NoReplay, Replay
  <2> QED  BY <2>1, <2>2, NoRATWriteType, NoTrapUOpType, ZeroType, NextType
           DEF Booted, ROBInit, ROBTypeOK
<1>5. branch \in BranchProv  BY ZeroType DEF Booted, NoBranch, BranchProv
<1>6. backend \in [RobIdxs -> BackendUOp]
  <2>1. NoBackendUOp \in BackendUOp
    BY TagType, ZeroType DEF NoBackendUOp, BackendUOp, FuncUnit
  <2> QED  BY <2>1 DEF Booted
<1>7. intRes \subseteq SqNs /\ memRes \subseteq SqNs  BY DEF Booted
<1>8. QED  BY <1>1, <1>2, <1>3, <1>4, <1>5, <1>6, <1>7 DEF TypeOK

\* Nothing is in flight.
LEMMA BootedEmpty ==
  ASSUME Booted
  PROVE  /\ rnUOp = [i \in Port |-> NoRUOp] /\ comUOp = [i \in Port |-> NoRATWrite]
         /\ baseIndex = 0 /\ lastIndex = 0 /\ counterSqN = 0 /\ mispredFlush = FALSE
         /\ branch = NoBranch /\ trapUOp = NoTrapUOp /\ misprReplay_r = NoReplay
         /\ Pos(lastIndex) = 0 /\ Pos(counterSqN) = 0 /\ InFlight = 0
         /\ \A q \in 0 .. InFlight - 1 : FALSE
         /\ \A q \in 0 .. Pos(lastIndex) - 1 : FALSE
         /\ \A s : ~InROB(s)
<1>1. /\ rnUOp = [i \in Port |-> NoRUOp] /\ comUOp = [i \in Port |-> NoRATWrite]
      /\ baseIndex = 0 /\ lastIndex = 0 /\ counterSqN = 0 /\ mispredFlush = FALSE
      /\ branch = NoBranch /\ trapUOp = NoTrapUOp /\ misprReplay_r = NoReplay
  BY DEF Booted, RNInit, ROBInit
<1>2. Pos(lastIndex) = 0 /\ Pos(counterSqN) = 0 /\ InFlight = 0
  BY <1>1, ZeroType, PlusMinusOne DEF Pos, InFlight
<1>3. (\A q \in 0 .. InFlight - 1 : FALSE) /\ (\A q \in 0 .. Pos(lastIndex) - 1 : FALSE)
  BY <1>2, SMT
<1>4. ASSUME NEW s, InROB(s)  PROVE FALSE
  <2>1. s \in SqNs /\ 0 <= Diff(s, baseIndex) /\ Diff(s, baseIndex) < Diff(lastIndex, baseIndex)
    BY <1>4 DEF InROB
  <2>2. Diff(lastIndex, baseIndex) = 0  BY <1>2 DEF Pos
  <2>3. Diff(s, baseIndex) \in Int  BY <1>1, <2>1, ZeroType, DiffType
  <2> QED  BY <2>1, <2>2, <2>3, SMT
<1>5. QED  BY <1>1, <1>2, <1>3, <1>4

\* The buffer is empty and no branch has executed.
LEMMA BootedRaised == Booted => RaisedInv
<1> SUFFICES ASSUME Booted  PROVE RaisedInv
  OBVIOUS
<1>1. Pos(lastIndex) = 0 /\ Pos(counterSqN) = 0  BY BootedEmpty
<1>2. RenamedInOrder
  <2>1. 0 \in 0 .. Width /\ \A i \in Port : ~(i < 0)  BY WidthType, SMT DEF Port
  <2>2. \A i \in Port : rnUOp[i].valid = FALSE  BY BootedEmpty DEF NoRUOp
  <2> QED  BY <1>1, <2>1, <2>2 DEF RenamedInOrder
<1>3. BranchesAreInt
  <2>1. \A i \in Port : rnUOp[i].mispred = FALSE  BY BootedEmpty DEF NoRUOp
  <2>2. \A k \in RobIdxs : backend[k].mispred = FALSE  BY DEF Booted, NoBackendUOp
  <2>3. intRes = {}  BY DEF Booted
  <2> QED  BY <2>1, <2>2, <2>3 DEF BranchesAreInt
<1>4. BranchInWindow  BY BootedEmpty DEF NoBranch, BranchInWindow
<1>5. RecoveryState  BY BootedEmpty DEF NoTrapUOp, NoReplay, RecoveryState
<1>6. WindowInv  BY <1>1, <1>2, <1>3, <1>4, <1>5, BootedType, SMT DEF WindowInv
<1>7. RedirectCovers /\ RedirectsRaised
  BY DEF Booted, RedirectCovers, RedirectsRaised, NoBranch
<1>8. QED  BY <1>6, <1>7 DEF RaisedInv

\* Only the map owns registers.
LEMMA BootedFreeList == Booted => FreeListInv
<1> SUFFICES ASSUME Booted  PROVE  FreeListInv
  OBVIOUS
<1>1. WindowInv  BY BootedRaised DEF RaisedInv
<1>2. ASSUME NEW t \in RFTag, NEW k, NEW x, Owns(k, x, t)
      PROVE  k = "arch" /\ x \in Reg /\ comTag[x] = t
  <2>1. ~RobOwns(x, t)  BY BootedEmpty DEF RobOwns
  <2>2. ~RenameOwns(x, t)  BY BootedEmpty DEF RenameOwns, InRename, NoRUOp
  <2>3. ~CommitOwns(x, t)  BY BootedEmpty DEF CommitOwns, NoRATWrite
  <2>4. ~ReadyOwns(x, t)
    <3>1. t # NoTag  BY TagType DEF Tag
    <3> QED  BY <3>1 DEF ReadyOwns, Booted
  <2> QED  BY <1>2, <2>1, <2>2, <2>3, <2>4 DEF Owns, ArchOwns
<1>3. \A t \in RFTag : OwnedOnce(t)  BY <1>2 DEF OwnedOnce, Booted
<1>4. \A t \in free : FreeApart(t)  BY <1>2 DEF FreeApart, Booted
<1>5. CommittedFreeList  BY DEF CommittedFreeList, Booted
<1>6. ReplayRange /\ ReplayHeld  BY BootedEmpty DEF ReplayRange, ReplayHeld, NoReplay
<1>7. NoLeak
  <2>1. ASSUME NEW t \in RFTag, t \notin free  PROVE Kept(t)
    <3>1. PICK r \in Reg : comTag[r] = t  BY <2>1 DEF Booted
    <3>2. Owns("arch", r, t) /\ "arch" \in Kind  BY <3>1 DEF Owns, ArchOwns, Kind
    <3>3. r \in Nat  BY SMT DEF Reg
    <3> QED  BY <3>2, <3>3 DEF Kept
  <2> QED  BY <2>1 DEF NoLeak, Kept
<1>8. QED  BY <1>1, <1>3, <1>4, <1>5, <1>6, <1>7 DEF FreeListInv

\* What the map names has a value.
LEMMA BootedProduced == Booted => ProducedInv
<1> SUFFICES ASSUME Booted  PROVE ProducedInv
  OBVIOUS
<1>1. FreeListInv /\ RedirectCovers  BY BootedFreeList, BootedRaised DEF RaisedInv
<1>2. TagsAgree  BY BootedEmpty DEF TagsAgree
<1>3. ExecutedProduced  BY BootedEmpty DEF ExecutedProduced, RobOwns
<1>4. CommitsProduced  BY BootedEmpty DEF CommitsProduced, CommitOwns, NoRATWrite
<1>5. EliminatedNeedsNone
  BY BootedEmpty, ImmediatesAreNoRegisters DEF EliminatedNeedsNone, NoRUOp
<1>6. CommittedProduced
  <2>1. TAG_ZERO \in ImmTag  BY DEF ImmTag, TAG_ZERO
  <2> QED  BY <2>1 DEF CommittedProduced, Booted
<1>7. QED  BY <1>1, <1>2, <1>3, <1>4, <1>5, <1>6 DEF ProducedInv

\* The map is the committed one.
LEMMA BootedMap == Booted => MapInv
<1> SUFFICES ASSUME Booted  PROVE MapInv
  OBVIOUS
<1>1. RaisedInv /\ ProducedInv  BY BootedRaised, BootedProduced
<1>2. TrapsWriteNothing  BY BootedEmpty DEF TrapsWriteNothing, NoRUOp
<1>3. FlushRedirects /\ ReplayAlone
  BY BootedEmpty DEF FlushRedirects, ReplayAlone, NoBranch
<1>4. ZeroIsConstant  BY DEF ZeroIsConstant, Booted
<1>5. SpecMap
  <2>1. Base = comTag
    <3>1. \A i \in Port : ~comUOp[i].valid  BY BootedEmpty DEF NoRATWrite
    <3>2. comTag \in [Reg -> Tag]  BY <1>1 DEF RaisedInv, WindowInv, TypeOK, RATTypeOK
    <3> QED  BY BootedEmpty, <3>1, <3>2, NothingWritten DEF Base
  <2>2. \A r \in Reg \ {0} : MapsTo(Uops, InFlight, r, Base[r], specTag[r])
    BY BootedEmpty, <2>1 DEF MapsTo, Booted
  <2> QED  BY BootedEmpty, <2>2 DEF SpecMap
<1>6. SourceMap /\ UnavailablePending  BY BootedEmpty DEF SourceMap, UnavailablePending
<1>7. PendingUnavailable /\ PendingUnread /\ ProducedAvailable
  BY BootedEmpty DEF PendingUnavailable, PendingUnread, ProducedAvailable
<1>8. QED  BY <1>1, <1>2, <1>3, <1>4, <1>5, <1>6, <1>7 DEF MapInv

\* The registers are what the map says.
LEMMA BootedCore ==
  ASSUME CoInit
  PROVE  /\ Booted /\ ExecInit /\ rf \in [RFTag -> Val]
         /\ \E x \in [Reg -> Val] : SimInit(x) /\ x = [r \in Reg |-> ReadTag(rf, comTag[r])]
<1>1. ExecInit  BY DEF CoInit
<1>2. TAG_ZERO - TAG_ZERO = 0 /\ TAG_ZERO \notin RFTag
  <2>1. TAG_ZERO \in Int  BY IncludeAssumption, SMT DEF TAG_ZERO
  <2>2. TAG_ZERO - TAG_ZERO = 0  BY <2>1, SMT
  <2> QED  BY <2>2, ImmediatesAreNoRegisters
<1>3. CASE Reset /\ SimInit(NoRegs)
  <2>1. Booted /\ rf = [t \in RFTag |-> 0] /\ comTag = [r \in Reg |-> TAG_ZERO]
    BY <1>3, ResetBoots DEF Reset, Init, RATInit
  <2>2. rf \in [RFTag -> Val] /\ NoRegs \in [Reg -> Val]  BY <2>1, RegsAgree DEF NoRegs
  <2>3. NoRegs = [r \in Reg |-> ReadTag(rf, comTag[r])]
    BY <1>2, <2>1 DEF NoRegs, ReadTag
  <2> QED  BY <1>1, <1>3, <2>1, <2>2, <2>3
<1>4. ASSUME NEW r \in BootRegs, NEW v \in Val \ {0},
             WriteRegister(r, v), SimInit([NoRegs EXCEPT ![r] = v])
      PROVE  /\ Booted /\ rf \in [RFTag -> Val]
             /\ \E x \in [Reg -> Val] : SimInit(x) /\ x = [q \in Reg |-> ReadTag(rf, comTag[q])]
  <2>1. Booted /\ r \in Reg /\ r # 0 /\ 0 \in RFTag  BY <1>4, WriteRegisterBoots
  <2>2. rf = [t \in RFTag |-> IF t = 0 THEN v ELSE 0]
        /\ comTag = [q \in Reg |-> IF q = r THEN 0 ELSE TAG_ZERO]
    BY <1>4 DEF WriteRegister
  <2>3. rf \in [RFTag -> Val]  BY <2>2, RegsAgree
  <2> DEFINE x == [NoRegs EXCEPT ![r] = v]
  <2>4. x = [q \in Reg |-> IF q = r THEN v ELSE 0]  BY <2>1 DEF NoRegs
  <2>5. \A q \in Reg : ReadTag(rf, comTag[q]) = IF q = r THEN v ELSE 0
    BY <1>2, <2>1, <2>2 DEF ReadTag
  <2>6. x \in [Reg -> Val]  BY <2>4, RegsAgree
  <2>7. x = [q \in Reg |-> ReadTag(rf, comTag[q])]  BY <2>4, <2>5
  <2> QED  BY <1>4, <2>1, <2>3, <2>6, <2>7
<1>5. QED  BY <1>1, <1>3, <1>4 DEF CoInit

\* The invariant holds at the start.
LEMMA InitCo == CoInit => CoInv
<1> SUFFICES ASSUME CoInit  PROVE CoInv
  OBVIOUS
<1>1. Booted /\ ExecInit /\ rf \in [RFTag -> Val]  BY BootedCore
<1>2. PICK x \in [Reg -> Val] : SimInit(x) /\ x = [r \in Reg |-> ReadTag(rf, comTag[r])]
  BY BootedCore
<1>3. /\ prog \in Programs /\ issuedInterrupt = FALSE /\ fetchPC = 0 /\ dstPC = 0 /\ minstret = 0
      /\ de = [i \in Port |-> NoFetch] /\ rnInstr = [i \in Port |-> NoFetch]
      /\ slot = [k \in RobIdxs |-> NoFetch]
  BY <1>1 DEF ExecInit, Handler
<1>4. /\ arch = [pc |-> 0, reg |-> x, minstret |-> 0, res |-> FALSE] /\ spike = arch
      /\ doRestore = FALSE /\ err = 0
      /\ tbPd = [i \in Port |-> NoInst] /\ tbDe = [i \in Port |-> NoInst]
      /\ insts = [s \in SqNs |-> NoInst] /\ phyRF = [t \in RFTag |-> 0]
  BY <1>2 DEF SimInit, FreshSpike, Handler
<1>5. /\ branch.taken = FALSE /\ trapUOp.valid = FALSE /\ intRes = {}
      /\ Pos(lastIndex) = 0 /\ InFlight = 0
      /\ \A i \in Port : rnUOp[i].valid = FALSE /\ comUOp[i].valid = FALSE /\ de[i].valid = FALSE
  <2>1. intRes = {}  BY <1>1 DEF Booted
  <2>2. branch.taken = FALSE /\ trapUOp.valid = FALSE
    BY <1>1, BootedEmpty DEF NoBranch, NoTrapUOp
  <2>3. \A i \in Port : rnUOp[i].valid = FALSE /\ comUOp[i].valid = FALSE /\ de[i].valid = FALSE
    BY <1>1, <1>3, BootedEmpty DEF NoRUOp, NoRATWrite, NoFetch
  <2>4. Pos(lastIndex) = 0 /\ InFlight = 0  BY <1>1, BootedEmpty
  <2> QED  BY <2>1, <2>2, <2>3, <2>4
<1>6. MapInv  BY <1>1, BootedMap
<1>7. 0 \in PCs(prog)
  <2>1. prog \in Seq(Instr) /\ Len(prog) > 0  BY <1>3, ISAAssumption
  <2> QED  BY <2>1, SMT DEF PCs
<1>8. CoTypeOK
  <2>1. NoFetch \in Fetched  BY DEF NoFetch, Fetched
  <2>2. NoInst \in Inst  BY RegsAgree, TagType DEF NoInst, Inst, Flags
  <2>3. 0 \in 0 .. MinstretMod - 1  BY ISAAssumption, SMT
  <2>4. arch \in [pc : PCs(prog), reg : [Reg -> Val], minstret : 0 .. MinstretMod - 1,
                  res : BOOLEAN]
    BY <1>2, <1>4, <1>7, <2>3
  <2>5. phyRF \in [RFTag -> Val]  BY <1>4, RegsAgree
  <2>6. tbPd \in [Port -> Inst] /\ tbDe \in [Port -> Inst] /\ insts \in [SqNs -> Inst]
    BY <1>4, <2>2
  <2>7. de \in [Port -> Fetched] /\ rnInstr \in [Port -> Fetched] /\ slot \in [RobIdxs -> Fetched]
    BY <1>3, <2>1
  <2> QED  BY <1>1, <1>3, <1>4, <1>7, <2>3, <2>4, <2>5, <2>6, <2>7 DEF CoTypeOK
<1>9. FrontInv  BY <1>5 DEF FrontInv
<1>10. UopsInv /\ OperandInv  BY <1>1, BootedEmpty DEF UopsInv, OperandInv
<1>11. FlagsInv  BY <1>1, BootedEmpty DEF FlagsInv
<1>12. RaisedInTime  BY <1>5 DEF RaisedInTime
<1>13. Live = 0 /\ Front = 0
  <2>1. 0 \in Port  BY WidthType, SMT DEF Port
  <2> QED  BY <1>3, <1>5, <2>1 DEF Live, Front
<1>14. \A q \in 0 .. Live - 1 : FALSE
  <2>1. \A q \in 0 .. 0 - 1 : FALSE  BY SMT
  <2> QED  BY <1>13, <2>1
<1>15. PathInv /\ ValueInv  BY <1>14 DEF PathInv, ValueInv
<1>16. ShadowInv  BY <1>1, <1>5, BootedEmpty DEF ShadowInv
<1>17. CommitInv
  <2>1. Committing = {}  BY <1>5 DEF Committing
  <2>2. ComCount = 0  BY <2>1, FS_EmptySet DEF ComCount
  <2>3. \A i \in Port : ~(i < 0)  BY WidthType, SMT DEF Port
  <2>4. \A k \in 0 .. ComCount - 1 : FALSE
    <3>1. \A q \in 0 .. 0 - 1 : FALSE  BY SMT
    <3> QED  BY <2>2, <3>1
  <2>5. NextAddr(-1) = 0
    <3>1. ~(-1 + 1 < 0)  BY SMT
    <3> QED  BY <1>13, <3>1 DEF NextAddr
  <2> QED  BY <1>4, <1>5, <2>1, <2>2, <2>3, <2>4, <2>5 DEF CommitInv
<1>18. ArchInv
  <2>1. At(prog, 0).op # "SC"
    <3>1. ReservesFirst(prog)  BY <1>3, CoSimAssumption
    <3> QED  BY <1>7, <3>1 DEF ReservesFirst, Handler
  <2> QED  BY <1>2, <1>3, <1>4, <2>1 DEF ArchInv
<1>19. QED
  BY <1>4, <1>6, <1>8, <1>9, <1>10, <1>11, <1>12, <1>15, <1>16, <1>17, <1>18 DEF CoInv

-----------------------------------------------------------------------------
(* The theorems. *)

\* The invariant holds at all times.
LEMMA CoInvariant == CoSpec => []CoInv
<1>1. CoInit => CoInv  BY InitCo
<1>2. CoInv /\ [CoNext]_coVars => CoInv'  BY NextCo
<1>3. QED  BY <1>1, <1>2, PTL DEF CoSpec

\* The copies are those of the uops in the buffer.
LEMMA CoInvShadow == CoInv => ShadowFollowsCore
<1> SUFFICES ASSUME CoInv, NEW s \in SqNs, InROB(s)
             PROVE  /\ insts[s].valid /\ insts[s].pc = SlotOf(s).pc
                    /\ insts[s].tag = entries[RobIdx(s)].tag
                    /\ insts[s].rd = entries[RobIdx(s)].rd
  BY DEF ShadowFollowsCore
<1> DEFINE q == Pos(s)
<1>1. /\ q \in Nat /\ q < Pos(lastIndex) /\ s = Plus(baseIndex, q)
      /\ Uops[q].rd = entries[RobIdx(s)].rd /\ Uops[q].tag = entries[RobIdx(s)].tag
  BY UopInROB DEF CoInv
<1>2. Pos(lastIndex) \in Nat  BY FlightType, MapParts DEF CoInv
<1> HIDE DEF q
<1>3. q \in 0 .. Pos(lastIndex) - 1  BY <1>1, <1>2, SMT
<1>4. LET inst == insts[Plus(baseIndex, q)]
      IN  inst.valid /\ inst.pc = Fetch(q).pc /\ inst.tag = Uops[q].tag /\ inst.rd = Uops[q].rd
  BY <1>3 DEF CoInv, ShadowInv
<1>5. Fetch(q) = SlotOf(s)  BY <1>1 DEF Fetch, SlotOf, Slot
<1>6. QED  BY <1>1, <1>4, <1>5

\* The state of the abstract machine is that of the reference.
LEMMA ArchIsMachine ==
  ASSUME CoInv
  PROVE  Arch!Machine = arch /\ arch \in Machines(prog) /\ arch.minstret = minstret
         /\ arch.reg = [r \in Reg |-> ReadTag(rf, comTag[r])]
<1>1. arch \in Machines(prog)  BY DEF CoInv, CoTypeOK, Machines
<1>2. arch = [pc |-> arch.pc, reg |-> arch.reg, minstret |-> arch.minstret, res |-> arch.res]
  BY <1>1 DEF Machines
<1>3. arch.reg = [r \in Reg |-> ReadTag(rf, comTag[r])] /\ arch.minstret = minstret
  BY DEF CoInv, ArchInv
<1>4. Arch!Machine = [pc |-> arch.pc, reg |-> arch.reg, minstret |-> arch.minstret,
                      res |-> arch.res]
  BY <1>3 DEF Arch!Machine
<1>5. QED  BY <1>1, <1>2, <1>3, <1>4

\* The abstract machine starts where the core does ...
LEMMA InitInOrder == CoInit => Arch!ISAInit
<1> SUFFICES ASSUME CoInit  PROVE Arch!ISAInit
  OBVIOUS
<1>1. CoInv  BY InitCo
<1>2. prog \in Programs /\ minstret = 0  BY DEF CoInit, ExecInit
<1>3. arch.pc = Handler /\ arch.res = FALSE  BY DEF CoInit, SimInit, FreshSpike
<1>4. [r \in Reg |-> ReadTag(rf, comTag[r])] \in [XReg -> Val]
  BY <1>1, ArchIsMachine, RegsAgree DEF Machines
<1>5. [r \in Reg |-> ReadTag(rf, comTag[r])][0] = 0
  <2>1. TAG_ZERO \in Int  BY IncludeAssumption, SMT DEF TAG_ZERO
  <2>2. TAG_ZERO - TAG_ZERO = 0  BY <2>1, SMT
  <2>3. comTag[0] = TAG_ZERO  BY <1>1, MapParts DEF CoInv, ZeroIsConstant
  <2> QED  BY <2>2, <2>3, RegsAgree, ImmediatesAreNoRegisters DEF ReadTag
<1>6. QED
  BY <1>2, <1>3, <1>4, <1>5
     DEF Arch!ISAInit, Arch!Handler, Handler, Arch!XReg, XReg, Arch!Val, Val

\* ... and what a cycle commits is what it executes next; a cycle that commits nothing, and
\* the restore of a backup, are stuttering steps.
LEMMA StepInOrder == CoInv /\ CoInv' /\ [CoNext]_coVars => [Arch!ISANext]_(Arch!archVars)
<1> SUFFICES ASSUME CoInv, CoInv', [CoNext]_coVars  PROVE [Arch!ISANext]_(Arch!archVars)
  OBVIOUS
<1>1. /\ Arch!Machine = arch /\ arch.minstret = minstret
      /\ arch.reg = [r \in Reg |-> ReadTag(rf, comTag[r])]
  BY ArchIsMachine
<1>2. arch'.minstret = minstret' /\ arch'.reg = [r \in Reg |-> ReadTag(rf', comTag'[r])]
  BY DEF CoInv, ArchInv, ReadTag
<1>3. ASSUME prog' = prog, arch' = arch  PROVE UNCHANGED Arch!archVars
  BY <1>1, <1>2, <1>3 DEF Arch!archVars
<1>4. CASE ClockCycle
  <2>1. PICK F, R, pd, keep, n : Tick(F, R, pd, keep, n)  BY <1>4, ClockTicks
  <2>2. prog' = prog  BY <2>1, TickIsCycle
  <2>3. CASE Committing = {}
    <3>1. arch' = arch  BY <2>1, <2>3, SimMoves
    <3> QED  BY <1>3, <2>2, <3>1
  <2>4. CASE Committing # {}
    <3>1. ComCount \in 1 .. Width /\ arch' \in Arch!After(prog, arch, ComCount)
      BY <2>1, <2>4, SimMoves
    <3>2. Arch!ISANext
      BY <1>1, <1>2, <2>2, <3>1 DEF Arch!ISANext
    <3> QED  BY <3>2
  <2> QED  BY <2>3, <2>4
<1>5. CASE SaveRestore
  <2>1. prog' = prog /\ arch' = arch  BY <1>5, StaysParts DEF SaveRestore, CoreStays
  <2> QED  BY <1>3, <2>1
<1>6. CASE UNCHANGED coVars
  <2>1. prog' = prog /\ arch' = arch  BY <1>6 DEF coVars, execVars, simVars
  <2> QED  BY <1>3, <2>1
<1>7. QED  BY <1>4, <1>5, <1>6 DEF CoNext

\* The core that executes a program, the reference and the copies of the testbench stay in
\* their ranges (CoreExec, LogInstructions), for every program and every size of the core.
THEOREM CoTypeCorrect == CoSpec => []CoTypeOK
<1>1. CoInv => CoTypeOK  BY DEF CoInv
<1>2. QED  BY <1>1, CoInvariant, PTL

\* The co-simulation never reports an error: no check of cosim_instr (Top_tb.cpp, LogCommit)
\* fails, whatever is predicted, executed out of order, squashed or interrupted, and however
\* often a backup is restored, for every program and every size of the core.
THEOREM NoCosimErrorCorrect == CoSpec => []NoCosimError
<1>1. CoInv => NoCosimError  BY DEF CoInv, NoCosimError
<1>2. QED  BY <1>1, CoInvariant, PTL

\* The testbench knows every instruction in the ROB by its address, its register and its tag
\* (Top_tb.cpp LogRename, Branch Taken), for every program and every size of the core.
THEOREM ShadowFollowsCoreCorrect == CoSpec => []ShadowFollowsCore
  BY CoInvariant, CoInvShadow, PTL

\* The core implements the in-order machine: the committed registers and the retire counter
\* only move on by the instructions of the program, in order (ROB.sv commit, RenameTable.sv,
\* TrapHandler.sv), for every program and every size of the core.
THEOREM ImplementsInOrderCorrect == CoSpec => ImplementsInOrder
<1>1. CoInit => Arch!ISAInit  BY InitInOrder
<1>2. CoInv /\ CoInv' /\ [CoNext]_coVars => [Arch!ISANext]_(Arch!archVars)  BY StepInOrder
<1>3. QED  BY <1>1, <1>2, CoInvariant, PTL DEF CoSpec, ImplementsInOrder, Arch!ISASpec

=============================================================================
