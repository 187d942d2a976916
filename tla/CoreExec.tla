------------------------------ MODULE CoreExec ------------------------------
(***************************************************************************)
(* The core executing a program: RenameCommit with the data it moves.  A   *)
(* front end fetches and predicts (src/src/IFetch.sv, InstrDecoder.sv),    *)
(* the units compute on the register file (src/src/Core.sv), branches      *)
(* compare the outcome with the prediction (src/src/IntALU.sv), the trap   *)
(* handler redirects fetch (src/src/TrapHandler.sv), and the CSRs count    *)
(* retired instructions.                                                   *)
(*                                                                         *)
(* Here mispred of an uop means that it is a branch which has not been     *)
(* resolved; whether its prediction is wrong is decided by its operand.    *)
(***************************************************************************)
EXTENDS RenameCommit, ISA

VARIABLES
  prog,      \* the program in memory
  fetchPC,   \* where fetch goes on
  issuedInterrupt,  \* fetch has sent the fake instruction of an interrupt
  de,        \* DE_uop: the decoded instructions that wait for rename
  rnInstr,   \* the instructions of rnUOp
  slot,      \* the instruction of every ROB slot
  rf,        \* rf.mem: the physical registers
  dstPC,     \* where the redirect in branch sends fetch
  minstret

execVars == <<prog, fetchPC, issuedInterrupt, de, rnInstr, slot, rf, dstPC, minstret>>

\* A fetched instruction: where it is, where fetch went on after it, and whether
\* it is the fake instruction that stands for an interrupt.
Fetched == [valid : BOOLEAN, irq : BOOLEAN, pc : Nat, predPC : Nat]
NoFetch == [valid |-> FALSE, irq |-> FALSE, pc |-> 0, predPC |-> 0]

InstrOf(d) == At(prog, d.pc)
IsBranch(d) == ~d.irq /\ InstrOf(d).op \in {"BEQZ", "JALR"}

ExecInit ==
  /\ prog \in Programs
  /\ issuedInterrupt = FALSE
  /\ fetchPC = Handler /\ dstPC = 0 /\ minstret = 0
  /\ de = [i \in Port |-> NoFetch] /\ rnInstr = [i \in Port |-> NoFetch]
  /\ slot = [k \in RobIdxs |-> NoFetch]

-----------------------------------------------------------------------------
\* Fetch, prediction and decode.

\* The next instruction fetch may deliver from address a: any prediction.
FetchAt(a) ==
  {[valid |-> TRUE, irq |-> TRUE, pc |-> a, predPC |-> a]} \cup
  {[valid |-> TRUE, irq |-> FALSE, pc |-> a, predPC |-> q] :
     q \in CASE At(prog, a).op = "BEQZ" -> {Seq1(prog, a), At(prog, a).target}
             [] At(prog, a).op = "JALR" -> PCs(prog)
             [] OTHER -> {Seq1(prog, a)}}

\* The instructions delivered in one cycle, from fetchPC on.  After the fake
\* instruction of an interrupt fetch waits for a redirect.
Bundles ==
  LET from[n \in 0 .. Width] ==
        [a \in PCs(prog) |->
           IF n = 0 THEN {<<>>}
           ELSE {<<>>} \cup
                UNION {{<<f>> \o rest : rest \in IF f.irq \/ f.predPC # Seq1(prog, a) THEN {<<>>}
                                                 ELSE from[n - 1][f.predPC]} : f \in FetchAt(a)}]
  IN  IF issuedInterrupt THEN {[i \in Port |-> NoFetch]}
      ELSE {[i \in Port |-> IF i < Len(b) THEN b[i + 1] ELSE NoFetch] : b \in from[Width][fetchPC]}

Last(pd) == CHOOSE i \in Port : pd[i].valid /\ \A j \in Port : j > i => ~pd[j].valid

DecodedUOp(d) ==
  IF d.irq THEN [fu |-> "TRAP", rd |-> 0, rs |-> 0, mispred |-> FALSE]
  ELSE LET i == InstrOf(d)
       IN  [fu |-> CASE i.op = "LI" -> "RN" [] i.op = "ECALL" -> "TRAP"
                     [] i.op = "LR" -> "LOAD" [] i.op = "SC" -> "SC" [] OTHER -> "INT",
            rd |-> i.rd, rs |-> i.rs, mispred |-> IsBranch(d)]

deUOp == [i \in Port |-> IF de[i].valid THEN DecodedUOp(de[i]) ELSE NoDUOp]

\* Core.sv RN_stall, and the enable of decode and of what is before it.
RNStall == de[0].valid /\ (mispredFlush \/ Stall(deUOp))
FrontReady == FrontendEn /\ ~RNStall
RNTakes == FrontReady /\ de[0].valid

RenameOrIdle(flagUOps) ==
  IF RNTakes THEN RNAccept(mispredFlush, deUOp, comUOp, flagUOps)
  ELSE RNIdle(mispredFlush, comUOp, flagUOps)

FrontStep(pd) ==
  /\ rnInstr' = IF RNTakes THEN de ELSE [i \in Port |-> NoFetch]
  /\ IF branch.taken
     THEN /\ de' = [i \in Port |-> NoFetch]
          /\ fetchPC' = dstPC
          /\ issuedInterrupt' = FALSE
     ELSE IF FrontReady
     THEN /\ de' = pd
          /\ fetchPC' = IF pd[0].valid THEN pd[Last(pd)].predPC ELSE fetchPC
          /\ issuedInterrupt' = (issuedInterrupt \/ \E i \in Port : pd[i].irq)
     ELSE UNCHANGED <<de, fetchPC, issuedInterrupt>>

-----------------------------------------------------------------------------
\* Execution.

SlotOf(s) == slot[RobIdx(s)]
OpOf(s) == InstrOf(SlotOf(s)).op

\* What reading tag t from table x yields: a small immediate is in the tag itself.
ReadTag(x, t) == IF t \in RFTag THEN x[t] ELSE t - TAG_ZERO

Operand(s) == ReadTag(rf, Unit(s).tag)

\* Fault: only the direction of a branch is checked, not the target of a jump.
MispredictsDirection(s) ==
  OpOf(s) = "BEQZ" /\ NextPC(prog, SlotOf(s).pc, Operand(s)) # SlotOf(s).predPC

Mispredicts(s) == NextPC(prog, SlotOf(s).pc, Operand(s)) # SlotOf(s).predPC

\* The reports of this cycle, restricted to what the instruction can do.
ExecReports(s) ==
  IF MayExecute(s) /\ Unit(s).mispred
  THEN IF Mispredicts(s) THEN {} ELSE {BranchReport(s)}
  ELSE {u \in Reports(s) : u.flags = CASE OpOf(s) = "CSRW" -> "ORDERING"
                                      [] OpOf(s) = "ILL"  -> "ILLEGAL"
                                      [] OTHER            -> "NONE"}

ExecCompletions ==
  LET others == UNION {ExecReports(s) : s \in SqNs}
  IN  {{BranchReport(s) : s \in intRes} \cup F :
         F \in {G \in SUBSET others : Cardinality(G) <= MaxWB}}

\* The results on the result busses: what each report writes.  A counter reads anything.
Results(flagUOps) ==
  {w \in [{u \in flagUOps : u.tagDst \in RFTag} -> Val] :
     \A u \in DOMAIN w : OpOf(u.sqN) # "RDCSR" =>
       w[u] = ResultOf(InstrOf(SlotOf(u.sqN)), SlotOf(u.sqN).pc, Operand(u.sqN), TRUE)}

\* Register table x with the results w written.
WithResults(x, w) ==
  [t \in RFTag |-> IF \E u \in DOMAIN w : u.tagDst = t
                   THEN w[CHOOSE u \in DOMAIN w : u.tagDst = t] ELSE x[t]]

-----------------------------------------------------------------------------
\* Redirects.  The units resolve the branches they execute, a store-conditional
\* may fail, the trap handler goes to the handler or past the instruction that
\* asked for the flush; an interrupt that is pending then is taken at once.

\* Fault: fetch goes on past the end of memory.
TrapDstUnwrapped(keep) ==
  IF trapUOp.flags = "ORDERING" /\ ~keep THEN SlotOf(trapUOp.sqN).pc + 1 ELSE Handler

TrapDst(keep) ==
  IF trapUOp.flags = "ORDERING" /\ ~keep THEN Seq1(prog, SlotOf(trapUOp.sqN).pc) ELSE Handler

ExecRedirect(flagUOps, keep) ==
  \E B \in {C \in SUBSET {s \in BranchCandidates : Mispredicts(s)} :
              Cardinality(C) <= NumBranchPorts} :
  \E M \in {{}} \cup {{s} : s \in MemCandidates(flagUOps)} :
    /\ branch' = SelectBranch(B, M)
    /\ intRes' = B /\ memRes' = M
    /\ dstPC' = CASE trapUOp.valid -> TrapDst(keep)
                  [] B # {} /\ branch' = IntBranch(Oldest(B)) ->
                       NextPC(prog, SlotOf(Oldest(B)).pc, Operand(Oldest(B)))
                  [] branch'.isSCFail -> SlotOf(Plus(branch'.sqN, 1)).pc
                  [] OTHER -> 0

-----------------------------------------------------------------------------
\* Commit.

\* The port of a commit names the instruction; the ROB has already moved on.
Committing == IF mispredFlush THEN {} ELSE {i \in Port : comUOp[i].valid}
ComSqN(i) == Minus(baseIndex, Cardinality(Committing) - i)

TrapAt(s) == trapUOp.valid /\ trapUOp.sqN = s

\* ROB_perfcInfo: the ports whose instruction has retired.
RetiredPorts ==
  {i \in Committing : ~(TrapAt(ComSqN(i)) /\ trapUOp.flags \in Exception)}

SlotStep ==
  slot' = [k \in RobIdxs |->
             LET e == Enqueued(k, rnUOp, branch)
             IN  IF e # {} THEN rnInstr[CHOOSE i \in e : TRUE] ELSE slot[k]]

\* One clock cycle of the core.
ExecCycle(flagUOps, results, pd, keep) ==
  /\ BackendStep(flagUOps)
  /\ ExecRedirect(flagUOps, keep)
  /\ FrontStep(pd)
  /\ SlotStep
  /\ rf' = WithResults(rf, results)
  /\ minstret' = (minstret + Cardinality(RetiredPorts)) % MinstretMod
  /\ UNCHANGED prog
  /\ \/ RedirectCycle(flagUOps)
     \/ /\ ~branch.taken
        /\ RenameOrIdle(flagUOps)
        /\ \/ ROBReplay(branch, rnUOp, flagUOps)
           \/ ROBStop(branch, rnUOp, flagUOps)
           \/ \E n \in 0 .. Width : ROBCommit(branch, rnUOp, flagUOps, n, FALSE)

=============================================================================
