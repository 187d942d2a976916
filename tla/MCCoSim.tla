------------------------------ MODULE MCCoSim ------------------------------
(***************************************************************************)
(* Instances of CoSim for TLC.                                             *)
(***************************************************************************)
EXTENDS CoSim

I(op, rd, rs, target) == [op |-> op, rd |-> rd, rs |-> rs, target |-> target]

\* A loop that branches on what it computes.
Branching == << I("ADD1", 1, 1, 0), I("BEQZ", 0, 1, 1) >>
\* An indirect branch that links.
Linking == << I("ADD1", 1, 1, 0), I("JALR", 1, 1, 0) >>
\* A store-conditional that may fail.
Reserving == << I("LR", 1, 0, 0), I("SC", 1, 0, 0) >>
\* A flush after an instruction, an exception found in execution, one found in decode.
Flushing == << I("LI", 1, 0, 0), I("CSRW", 1, 0, 0) >>
Trapping == << I("ADD1", 1, 1, 0), I("ILL", 1, 0, 0) >>
Calling == << I("RDCSR", 1, 0, 0), I("ECALL", 0, 0, 0) >>

MCBackups == {Branching, Trapping, Flushing}
MCPrograms == {Branching, Linking, Reserving, Flushing, Trapping, Calling}

CoUOps == {u \in D_UOp : (u.mispred => u.fu = "INT") /\ (u.fu = "TRAP" => u.rd = 0)}
CoOutcome == [f \in FuncUnit |-> IF f = "INT" THEN {"NONE", "ORDERING", "ILLEGAL"} ELSE {"NONE"}]

(***************************************************************************)
(* CoView: what tells two states apart.  As MCView of MCRenameCommit, with *)
(* sequence numbers relative to baseIndex and without what is not read     *)
(* again: slots outside the buffer, operands of completed uops, values of  *)
(* registers nobody holds, the testbench's entries of instructions that    *)
(* are gone.  minstret matters relative to the reference's.                *)
(***************************************************************************)
Rotated(s, origin) == (s - origin) % Ring

UOpView(r) == IF r = NoRUOp \/ r = NoBranch \/ r = NoTrapUOp THEN r
              ELSE [r EXCEPT !.sqN = Rotated(@, baseIndex), !.loadSqN = Rotated(@, loadSqN_r),
                             !.storeSqN = Rotated(@, storeSqN_r)]

SlotView(k) ==
  <<entries[k], flags[k], slot[k], backend[k].fu, backend[k].mispred, backend[k].early,
    IF flags[k] = "NX" THEN <<backend[k].tag, backend[k].avail>> ELSE <<>> >>

Held(t) == \/ \E r \in Reg : comTag[r] = t
           \/ \E i \in Port : comUOp[i].valid /\ comUOp[i].tag = t
           \/ \E s \in SqNs : InROB(s) /\ entries[RobIdx(s)].tag = t

CoView ==
  <<ratVars, tbVars, failSc, mispredFlush, stop, comUOp, prog, fetchPC, issuedInterrupt, de, rnInstr,
    IF branch.taken THEN dstPC ELSE 0, [t \in RFTag |-> IF Held(t) THEN rf[t] ELSE 0],
    IF doRestore THEN 0 ELSE (minstret - spike.minstret) % MinstretMod,
    [spike EXCEPT !.minstret = 0], doRestore, arch.pc, arch.res, err,
    Rotated(counterSqN, baseIndex), Rotated(lastIndex, baseIndex),
    Rotated(counterLoadSqN, loadSqN_r), Rotated(counterStoreSqN, storeSqN_r),
    [i \in Port |-> UOpView(rnUOp[i])], UOpView(trapUOp), UOpView(branch),
    IF trapUOp.valid THEN SlotOf(trapUOp.sqN) ELSE NoFetch,
    {Rotated(s, baseIndex) : s \in intRes}, {Rotated(s, baseIndex) : s \in memRes},
    IF misprReplay_r.valid THEN <<Rotated(misprReplay_r.iterSqN, baseIndex),
                                  Rotated(misprReplay_r.endSqN, baseIndex)>> ELSE <<>>,
    [d \in {Rotated(s, baseIndex) : s \in {t \in SqNs : InROB(t)}} |->
       <<SlotView(RobIdx(Plus(baseIndex, d))), insts[Plus(baseIndex, d)]>>],
    [i \in Committing |-> insts[ComSqN(i)]],
    [i \in Port |-> IF rnUOp[i].valid THEN tbDe[i] ELSE NoInst],
    [i \in Port |-> IF de[i].valid THEN tbPd[i] ELSE NoInst]>>
=============================================================================
