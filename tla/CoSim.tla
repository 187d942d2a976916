------------------------------- MODULE CoSim -------------------------------
(***************************************************************************)
(* The co-simulation: the core next to a reference model that executes the *)
(* same program, and the testbench (src/sim/Top_tb.cpp) that watches the   *)
(* wires of the core, keeps its own copy of every instruction in flight,   *)
(* and has the reference model (src/sim/Simif.cpp) execute each            *)
(* instruction that commits.  Whatever the reference disagrees with ends   *)
(* the simulation with an error.                                           *)
(*                                                                         *)
(* The testbench looks at the wires after each rising clock edge: it sees  *)
(* the registers of the state and the wires of the cycle that begins.      *)
(***************************************************************************)
EXTENDS CoreExec

CONSTANTS
  BootRegs,  \* the registers that may be set before the program starts
  Backups    \* the programs that may be backed up and restarted

\* The reservation is not kept by the core's side of the model, so every store-conditional
\* has to follow a load-reserved, also after a backup is restored.
ReservesFirst(p) ==
  \A a \in PCs(p) : At(p, a).op = "SC" =>
    a # Handler /\ \A b \in PCs(p), v \in Val : NextPC(p, b, v) = a => At(p, b).op = "LR"

ASSUME CoSimAssumption ==
  /\ BootRegs \subseteq XReg \ {0} /\ Backups \subseteq Programs
  /\ NumXRegs = NumRegs
  /\ {u \in D_UOp : (u.mispred => u.fu = "INT") /\ (u.fu = "TRAP" => u.rd = 0)} \subseteq DUOps
  /\ ~AllowTimeout     \* every unit answers
  /\ \A p \in Programs : ReservesFirst(p)
  /\ \A p \in Backups : \A a \in PCs(p) : At(p, a).op # "LR"

VARIABLES
  tbPd, tbDe,  \* state.pd, state.de: the instructions in decode and before rename
  insts,       \* state.insts: the instruction of every sequence number
  phyRF,       \* state.phyRF: results by tag
  spike,       \* the reference model
  doRestore,   \* the reference has to take over the state of the core
  err,         \* what cosim_instr found wrong first, 0 if nothing
  arch         \* history: the reference as the last commit left it

simVars == <<tbPd, tbDe, insts, phyRF, spike, doRestore, err, arch>>
coVars  == <<vars, execVars, simVars>>

\* Inst, as far as the checks use it.  The retirement of an instruction, its
\* result and the interrupt taken with it are filled in when it commits.
Inst   == [valid : BOOLEAN, pc : Nat, rd : Reg, tag : Tag, flags : Flags \ {"NX"}]
NoInst == [valid |-> FALSE, pc |-> 0, rd |-> 0, tag |-> TAG_ZERO, flags |-> "NONE"]

\* The state of the reference after its construction, with registers x.
FreshSpike(x) == [pc |-> Handler, reg |-> x, minstret |-> 0, res |-> FALSE]

NoRegs == [r \in Reg |-> 0]

SimInit(x) ==
  /\ tbPd = [i \in Port |-> NoInst] /\ tbDe = [i \in Port |-> NoInst]
  /\ insts = [s \in SqNs |-> NoInst]
  /\ phyRF = [t \in RFTag |-> 0]
  /\ spike = FreshSpike(x) /\ arch = spike
  /\ doRestore = FALSE /\ err = 0

\* The core after reset; WriteRegister(r, v) has given register r the first free tag.
Reset == Init /\ rf = [t \in RFTag |-> 0]

WriteRegister(r, v) ==
  /\ comTag = [x \in Reg |-> IF x = r THEN 0 ELSE TAG_ZERO] /\ specTag = comTag
  /\ tagAvail = {0}
  /\ free = RFTag \ {0} /\ freeCom = free
  /\ mispredWait = FALSE /\ issueTag = [i \in Port |-> NoTag]
  /\ RNInit /\ ROBInit
  /\ branch = NoBranch /\ backend = [k \in RobIdxs |-> NoBackendUOp]
  /\ intRes = {} /\ memRes = {}
  /\ rf = [t \in RFTag |-> IF t = 0 THEN v ELSE 0]

CoInit ==
  /\ ExecInit
  /\ \/ Reset /\ SimInit(NoRegs)
     \/ \E r \in BootRegs, v \in Val \ {0} :
          WriteRegister(r, v) /\ SimInit([NoRegs EXCEPT ![r] = v])

-----------------------------------------------------------------------------
\* The committed registers as the testbench reads them: ovr holds the tags that
\* commits of this cycle have put in place of what comTag still says.
NoOverride == [r \in Reg |-> NoTag]

\* Fault: what was committed earlier in the cycle is not seen.
ReadCommitted(ovr, r) == ReadTag(rf, comTag[r])

ReadRegister(ovr, r) == ReadTag(rf, IF ovr[r] # NoTag THEN ovr[r] ELSE comTag[r])

\* Results and flags of the cycle are recorded before its commits are looked at.
LogFlags(flagUOps) ==
  [s \in SqNs |->
     LET F == {u \in flagUOps : u.sqN = s /\ ~u.doNotCommit}
     IN  IF F # {} THEN [insts[s] EXCEPT !.flags = (CHOOSE u \in F : TRUE).flags]
         ELSE insts[s]]

LogResults(results) == WithResults(phyRF, results)

-----------------------------------------------------------------------------
\* What happens with the commit on port i: an interrupt takes the place of the
\* fake instruction (IR_SQUASH) or comes right after an instruction (IR_KEEP).
IsInterrupt(i) == LET s == ComSqN(i)
                  IN  TrapAt(s) /\ trapUOp.flags = "TRAP" /\ SlotOf(s).irq
IsKept(i, keep) == TrapAt(ComSqN(i)) /\ trapUOp.flags = "ORDERING" /\ keep

WritesGPR(inst) == inst.rd # 0 /\ inst.flags \notin Exception

\* is_pass_thru_inst: the reference takes over what the core has read.
IsPassThru(inst) == At(prog, inst.pc).op = "RDCSR"

\* The reference executes one instruction.  m is its state, ovr what ReadRegister
\* sees with this instruction committed, result what its tag holds.
SpikeStep(m, inst, ovr, result, kept) ==
  LET failedSC == At(prog, m.pc).op = "SC" /\ ReadRegister(ovr, inst.rd) # 0
      stepped  == Stepped(prog, IF failedSC THEN [m EXCEPT !.res = FALSE] ELSE m)
      passed   == IF IsPassThru(inst) /\ WritesGPR(inst)
                  THEN [stepped EXCEPT !.reg = SetReg(@, inst.rd, result)] ELSE stepped
  IN  IF kept THEN Interrupted(passed) ELSE passed

\* The first check that fails, by the number cosim_instr returns.
CoSimError(m, next, inst, ovr, counted) ==
  CASE inst.pc # m.pc                                      -> 1
    [] \E r \in Reg : next.reg[r] # ReadRegister(ovr, r)   -> 4
    [] next.minstret # counted                             -> 6
    [] OTHER                                               -> 0

\* restore_from_top: the reference takes over the registers and counters of the core.
Restored(m, inst, ovr) ==
  [m EXCEPT !.pc = inst.pc, !.reg = [r \in Reg |-> ReadRegister(ovr, r)], !.minstret = minstret]

\* One commit.  c is what the commits on lower ports have left: the reference's
\* state, the overrides, how many instructions have retired, and the error.
LogCommit(c, i, inst, result, keep) ==
  LET from == IF doRestore /\ i = 0 THEN Restored(c.spike, inst, c.ovr) ELSE c.spike
  IN
  IF IsInterrupt(i) THEN [c EXCEPT !.spike = Interrupted(from)]
  ELSE LET ret  == c.ret + (IF i \in RetiredPorts THEN 1 ELSE 0)
           ovr  == IF WritesGPR(inst) THEN [c.ovr EXCEPT ![inst.rd] = inst.tag] ELSE c.ovr
           next == SpikeStep(from, inst, ovr, result, IsKept(i, keep))
       IN  [spike |-> next, ovr |-> ovr, ret |-> ret,
            err |-> IF c.err # 0 THEN c.err
                    ELSE CoSimError(from, next, inst, ovr, (minstret + ret) % MinstretMod)]

\* The commits of a cycle, in the order of the ports.
LogCommits(logged, phy, keep) ==
  LET n == Cardinality(Committing)
      start == [spike |-> spike, ovr |-> NoOverride, ret |-> 0, err |-> err]
      done[k \in 0 .. n] ==
        IF k = 0 THEN start
        ELSE LET inst == logged[ComSqN(k - 1)]
             IN  LogCommit(done[k - 1], k - 1, inst, ReadTag(phy, inst.tag), keep)
  IN  done[n]

-----------------------------------------------------------------------------
\* Fault: the tag of the previous instruction with this number stays.
RenameKeepsTag(logged) ==
  [s \in SqNs |->
     LET P == {i \in Port : rnUOp[i].valid /\ rnUOp[i].sqN = s}
     IN  IF P = {} THEN logged[s] ELSE [tbDe[CHOOSE j \in P : TRUE] EXCEPT !.tag = logged[s].tag]]

\* Rename: the instruction that was in de gets its number and its tag.
LogRename(logged) ==
  [s \in SqNs |->
     LET P == {i \in Port : rnUOp[i].valid /\ rnUOp[i].sqN = s}
     IN  IF P = {} THEN logged[s]
         ELSE LET i == CHOOSE j \in P : TRUE
              IN  [tbDe[i] EXCEPT !.tag = rnUOp[i].tagDst]]

LogDecode ==
  [i \in Port |-> IF de[i].valid THEN [tbPd[i] EXCEPT !.rd = deUOp[i].rd]
                  ELSE [tbDe[i] EXCEPT !.valid = FALSE]]

LogPredec(pd) ==
  [i \in Port |-> IF pd[i].valid THEN [tbPd[i] EXCEPT !.valid = TRUE, !.flags = "NONE",
                                                      !.pc = pd[i].pc]
                  ELSE [tbPd[i] EXCEPT !.valid = FALSE]]

\* LogInstructions, once per clock cycle.
LogInstructions(flagUOps, results, pd, keep) ==
  LET flagged == LogFlags(flagUOps)
      phy     == LogResults(results)
      done    == LogCommits(flagged, phy, keep)
      retired == [s \in SqNs |-> IF \E i \in Committing : ComSqN(i) = s
                                 THEN [flagged[s] EXCEPT !.valid = FALSE] ELSE flagged[s]]
  IN  /\ phyRF' = phy
      /\ spike' = done.spike
      /\ err' = done.err
      /\ doRestore' = (doRestore /\ Committing = {})
      /\ arch' = IF Committing = {} THEN arch ELSE done.spike
      /\ insts' = IF branch.taken THEN retired ELSE LogRename(retired)
      /\ IF branch.taken \/ ~FrontReady THEN UNCHANGED <<tbPd, tbDe>>
         ELSE tbDe' = LogDecode /\ tbPd' = LogPredec(pd)

ClockCycle ==
  /\ err = 0
  /\ \E flagUOps \in ExecCompletions :
     \E results \in Results(flagUOps) :
     \E pd \in IF FrontReady THEN Bundles ELSE {[i \in Port |-> NoFetch]} :
     \E keep \in IF trapUOp.valid /\ trapUOp.flags = "ORDERING" THEN BOOLEAN ELSE {FALSE} :
       /\ ExecCycle(flagUOps, results, pd, keep)
       /\ LogInstructions(flagUOps, results, pd, keep)

\* Save and later Restore in another process: the core and the state of the testbench
\* are as they were, the reference is constructed anew.  (Backups are made while the clock
\* is low, so between two cycles.)
SaveRestore ==
  /\ err = 0 /\ prog \in Backups
  /\ spike' = FreshSpike(NoRegs)
  /\ doRestore' = TRUE
  /\ UNCHANGED <<vars, execVars, tbPd, tbDe, insts, phyRF, err, arch>>

CoNext == ClockCycle \/ SaveRestore

CoSpec == CoInit /\ [][CoNext]_coVars

-----------------------------------------------------------------------------
(***************************************************************************)
(* Properties.                                                             *)
(***************************************************************************)

CoTypeOK ==
  /\ prog \in Programs /\ fetchPC \in PCs(prog) /\ dstPC \in PCs(prog)
  /\ issuedInterrupt \in BOOLEAN
  /\ de \in [Port -> Fetched] /\ rnInstr \in [Port -> Fetched]
  /\ slot \in [RobIdxs -> Fetched]
  /\ rf \in [RFTag -> Val] /\ phyRF \in [RFTag -> Val]
  /\ minstret \in 0 .. MinstretMod - 1
  /\ tbPd \in [Port -> Inst] /\ tbDe \in [Port -> Inst] /\ insts \in [SqNs -> Inst]
  /\ spike \in [pc : PCs(prog), reg : [Reg -> Val], minstret : 0 .. MinstretMod - 1,
                res : BOOLEAN]
  /\ arch \in [pc : PCs(prog), reg : [Reg -> Val], minstret : 0 .. MinstretMod - 1,
               res : BOOLEAN]
  /\ doRestore \in BOOLEAN
  /\ err \in {0, 1, 4, 6}

\* Every instruction that commits is the one the program executes next, and it
\* leaves the registers and the count of retired instructions the program asks
\* for: the co-simulation never reports an error (LogCommit, cosim_instr).
NoCosimError == err = 0

\* The testbench's copy of the instructions in flight follows the core through
\* renaming and redirects: every instruction in the ROB is known by its address
\* and by the register it will write (LogInstructions, Rename and Branch Taken).
ShadowFollowsCore ==
  \A s \in SqNs : InROB(s) =>
    /\ insts[s].valid
    /\ insts[s].pc = SlotOf(s).pc
    /\ insts[s].tag = entries[RobIdx(s)].tag
    /\ flags[RobIdx(s)] # "TRAP" => insts[s].rd = entries[RobIdx(s)].rd

\* The core implements the in-order machine: each cycle its committed registers
\* and its retire counter move on by some instructions of the program, whatever
\* was executed out of order, speculatively, or thrown away on the way.
Arch == INSTANCE InOrder WITH
          RetireWidth <- Width, pc <- arch.pc, reservation <- arch.res,
          reg <- [r \in Reg |-> ReadTag(rf, comTag[r])]
ImplementsInOrder == Arch!ISASpec

=============================================================================
