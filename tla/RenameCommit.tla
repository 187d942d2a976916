---------------------------- MODULE RenameCommit ----------------------------
(***************************************************************************)
(* The speculative core: rename (Rename, TagBuffer, RenameTable) and the   *)
(* reorder buffer, connected as src/src/Core.sv connects them, with the    *)
(* redirect network (src/src/BranchSelector.sv) and the redirects of the   *)
(* trap handler (src/src/TrapHandler.sv).                                  *)
(*                                                                         *)
(* One step is one clock cycle.  The front end may present any uops, and   *)
(* the back end (issue queues and functional units) may complete any uops  *)
(* whose operand is available, in any order and with any outcome.          *)
(***************************************************************************)
EXTENDS Rename, ROB

CONSTANTS
  DUOps,        \* the uops decode may present
  Outcome,      \* per functional unit, the flags its uops may complete with
  MaxWB,        \* bound: uops that complete in one cycle
  NumBranchPorts,  \* NUM_BRANCH_PORTS: integer ports that resolve branches
  AllowTimeout  \* whether the hang detection may fire

ASSUME RenameCommitAssumption ==
  /\ DUOps \subseteq D_UOp
  /\ \A u \in DUOps : u.mispred => u.fu = "INT"
  /\ \A u \in DUOps : u.fu = "TRAP" => u.rd = 0
  /\ Outcome \in [FuncUnit -> SUBSET (Flags \ {"NX"})]
  /\ \A f \in FuncUnit : "TRAP" \notin Outcome[f]     \* only the ROB sets FLAGS_TRAP
  /\ MaxWB \in Nat /\ NumBranchPorts \in Nat
  /\ AllowTimeout \in BOOLEAN

VARIABLES
  branch,     \* the redirect being distributed (BranchSelector's OUT_branch)
  backend,    \* what issue queues and units hold about the uop of a ROB slot
  intRes,     \* mispredicted branches whose redirect was raised in the last cycle
  memRes      \* the store whose redirect was raised in the last cycle, if any

vars == <<ratVars, tbVars, rnVars, robVars, branch, backend, intRes, memRes>>

BackendUOp == [fu : FuncUnit, tagDst : Tag, tag : Tag, avail : BOOLEAN,
               early : BOOLEAN, mispred : BOOLEAN, loadSqN : SqNs, storeSqN : SqNs]
NoBackendUOp == [fu |-> "INT", tagDst |-> TAG_ZERO, tag |-> TAG_ZERO, avail |-> FALSE,
                 early |-> FALSE, mispred |-> FALSE, loadSqN |-> 0, storeSqN |-> 0]

TypeOK ==
  /\ RATTypeOK /\ TBTypeOK /\ RNTypeOK /\ ROBTypeOK
  /\ branch \in BranchProv
  /\ backend \in [RobIdxs -> BackendUOp]
  /\ intRes \subseteq SqNs /\ memRes \subseteq SqNs

Init ==
  /\ RATInit /\ TBInit /\ RNInit /\ ROBInit
  /\ branch = NoBranch
  /\ backend = [k \in RobIdxs |-> NoBackendUOp]
  /\ intRes = {} /\ memRes = {}

-----------------------------------------------------------------------------
\* The back end.

Unit(s) == backend[RobIdx(s)]

\* Renamed, sent to an issue queue, and not completed yet.
Waiting(s) == InROB(s) /\ flags[RobIdx(s)] = "NX"

\* A store-conditional issues only once everything older has been committed.
MayExecute(s) == /\ Waiting(s) /\ Unit(s).avail
                 /\ Unit(s).fu = "SC" => s = baseIndex

\* The reports a waiting uop may make.  An atomic first reports that its
\* register holds the loaded value, later that it is done; a fault takes the
\* place of the first report.
Reports(s) ==
  LET u == Unit(s)
      report(fl, dnc) == [sqN |-> s, tagDst |-> u.tagDst, flags |-> fl, doNotCommit |-> dnc]
  IN  IF ~MayExecute(s) \/ u.mispred THEN {}
      ELSE IF u.fu = "ATOMIC"
      THEN IF u.early THEN {report("NONE", FALSE)}
           ELSE {report(fl, fl = "NONE") : fl \in Outcome["ATOMIC"]}
      ELSE {report(fl, FALSE) : fl \in Outcome[u.fu]}

\* The result of a branch that raised its redirect in the last cycle.  One that
\* links is indirect, one that does not is conditional and updates the predictor.
BranchReport(s) ==
  [sqN |-> s, tagDst |-> Unit(s).tagDst,
   flags |-> IF entries[RobIdx(s)].rd = 0 THEN "PRED" ELSE "NONE", doNotCommit |-> FALSE]

\* The sets of completions one cycle may bring: the pending branch results and
\* up to MaxWB others, one per uop.
Completions ==
  LET others == UNION {Reports(s) : s \in SqNs}
  IN  {{BranchReport(s) : s \in intRes} \cup F :
         F \in {G \in SUBSET others : /\ Cardinality(G) <= MaxWB
                                      /\ \A u, v \in G : u.sqN = v.sqN => u = v}}

\* Fault: a branch that is being squashed still redirects.
BranchCandidatesUnchecked ==
  {s \in SqNs : MayExecute(s) /\ Unit(s).mispred /\ s \notin intRes}

\* Branches that may find out in this cycle that they were mispredicted.
BranchCandidates ==
  {s \in SqNs : /\ MayExecute(s) /\ Unit(s).mispred
                /\ s \notin intRes /\ ~Squashed(s, branch)}

IntBranch(s) == [taken |-> TRUE, sqN |-> s, flush |-> FALSE, isSCFail |-> FALSE,
                 loadSqN |-> Unit(s).loadSqN, storeSqN |-> Unit(s).storeSqN]

\* The load buffer's redirect (LoadBuffer.sv): a store whose address shows that
\* a younger load went ahead of it, or a store-conditional without reservation,
\* which is rolled back itself.
MemBranch(s) ==
  IF Unit(s).fu = "SC"
  THEN [taken |-> TRUE, sqN |-> Minus(s, 1), flush |-> FALSE, isSCFail |-> TRUE,
        loadSqN |-> Unit(s).loadSqN, storeSqN |-> Minus(Unit(s).storeSqN, 1)]
  ELSE [taken |-> TRUE, sqN |-> s, flush |-> FALSE, isSCFail |-> FALSE,
        loadSqN |-> IF Unit(s).fu = "ATOMIC" THEN Plus(Unit(s).loadSqN, 1) ELSE Unit(s).loadSqN,
        storeSqN |-> Unit(s).storeSqN]

YoungerLoad(s) == \E k \in SqNs : InROB(k) /\ Diff(k, s) > 0 /\ IsLd(Unit(k).fu)

\* At most one of these wins in LoadBuffer.sv.  The check of an atomic's address
\* is taken together with its first report.
MemCandidates(flagUOps) ==
  {u.sqN : u \in {v \in flagUOps :
     /\ ~Squashed(v.sqN, branch)
     /\ \/ Unit(v.sqN).fu = "SC" /\ v.flags = "NONE"
        \/ Unit(v.sqN).fu = "STORE" /\ v.flags \in {"NONE", "ORDERING"} /\ YoungerLoad(v.sqN)
        \/ Unit(v.sqN).fu = "ATOMIC" /\ v.doNotCommit /\ YoungerLoad(v.sqN)}}

\* An uop enters its issue queue; a result reported in this cycle wakes it up.
Entered(u, wb) ==
  [fu |-> u.fu, tagDst |-> u.tagDst, tag |-> u.tag, avail |-> u.avail \/ u.tag \in wb,
   early |-> FALSE, mispred |-> u.mispred, loadSqN |-> u.loadSqN, storeSqN |-> u.storeSqN]

\* Issue queue enqueue, wakeup, and what a report changes.
BackendStep(flagUOps) ==
  LET wb == WrittenBack(flagUOps)
      enq(k) == Enqueued(k, rnUOp, branch)
      resolved(k) == \E s \in intRes : RobIdx(s) = k /\ branch.taken /\ branch.sqN = s
                                       /\ ~branch.flush /\ ~branch.isSCFail
      waiting(k) == [backend[k] EXCEPT
                       !.avail = @ \/ backend[k].tag \in wb,
                       !.early = @ \/ \E u \in flagUOps : RobIdx(u.sqN) = k /\ u.doNotCommit,
                       !.mispred = @ /\ ~resolved(k)]
  IN  backend' = [k \in RobIdxs |->
                    IF enq(k) # {} THEN Entered(rnUOp[CHOOSE i \in enq(k) : TRUE], wb)
                    ELSE waiting(k)]

-----------------------------------------------------------------------------
\* The redirect network.

\* Fault: a store that faulted keeps its store number.
TrapBranchCountsStore ==
  [taken |-> TRUE, sqN |-> trapUOp.sqN, flush |-> TRUE, isSCFail |-> FALSE,
   loadSqN |-> trapUOp.loadSqN, storeSqN |-> trapUOp.storeSqN]

\* TrapHandler.sv: a store that faulted does not take its store number.
TrapBranch ==
  [taken |-> TRUE, sqN |-> trapUOp.sqN, flush |-> TRUE, isSCFail |-> FALSE,
   loadSqN |-> trapUOp.loadSqN,
   storeSqN |-> IF trapUOp.flags = "ST_FAULT" THEN Minus(trapUOp.storeSqN, 1)
                ELSE trapUOp.storeSqN]

\* Fault: the ports are compared the wrong way round.
Youngest(B) == CHOOSE s \in B : \A t \in B : Diff(s, t) >= 0

\* The older of the integer ports' redirects.
Oldest(B) == CHOOSE s \in B : \A t \in B : Diff(s, t) <= 0

\* Fault: the load buffer always wins.
SelectMemFirst(B, M) ==
  IF trapUOp.valid THEN TrapBranch
  ELSE IF M # {} THEN CHOOSE b \in {MemBranch(s) : s \in M} : TRUE
  ELSE IF B # {} THEN IntBranch(Oldest(B))
  ELSE NoBranch

\* BranchSelector.sv: B are the mispredicted branches of this cycle, M holds
\* the store the load buffer complains about, if any.
SelectBranch(B, M) ==
  LET mem == CHOOSE b \in {MemBranch(s) : s \in M} : TRUE
  IN  IF trapUOp.valid THEN TrapBranch
      ELSE IF B # {} /\ (M = {} \/ Diff(Oldest(B), mem.sqN) < 0) THEN IntBranch(Oldest(B))
      ELSE IF M # {} THEN mem
      ELSE NoBranch

RedirectStep(flagUOps) ==
  \E B \in {C \in SUBSET BranchCandidates : Cardinality(C) <= NumBranchPorts} :
  \E M \in {{}} \cup {{s} : s \in MemCandidates(flagUOps)} :
    /\ branch' = SelectBranch(B, M)
    /\ intRes' = B /\ memRes' = M

-----------------------------------------------------------------------------
OUT_maxSqN == Plus(baseIndex, ROBSize - 1)

\* Fault: room for less than one cycle's uops is enough.
SqNStallLate == Diff(counterSqN, OUT_maxSqN) > 0

\* Core.sv: rename must leave room for the uops of a whole cycle.
SqNStall == Diff(counterSqN, OUT_maxSqN) > - Width
FrontendEn == ~SqNStall /\ ~branch.taken

RenameStep(flagUOps) ==
  \/ /\ FrontendEn
     /\ \E uop \in DecodedUOps(DUOps) : /\ Decoded(uop, 0)
                                        /\ RNAccept(mispredFlush, uop, comUOp, flagUOps)
  \/ RNIdle(mispredFlush, comUOp, flagUOps)

\* A redirect takes effect: rename drops what follows, the ROB starts to replay.
RedirectCycle(flagUOps) ==
  /\ branch.taken
  /\ RNRedirect(branch, mispredFlush, comUOp, flagUOps)
  /\ ROBReplay(branch, rnUOp, flagUOps)

\* The replay goes on.
ReplayCycle(flagUOps) ==
  /\ ~branch.taken
  /\ RNIdle(mispredFlush, comUOp, flagUOps)
  /\ ROBReplay(branch, rnUOp, flagUOps)

\* The cycle after a trap was sent.
TrapCycle(flagUOps) ==
  /\ ~branch.taken
  /\ RenameStep(flagUOps)
  /\ ROBStop(branch, rnUOp, flagUOps)

\* Normal operation.
CommitCycle(flagUOps) ==
  /\ ~branch.taken
  /\ RenameStep(flagUOps)
  /\ \E n \in 0 .. Width, hang \in {FALSE, AllowTimeout} :
       ROBCommit(branch, rnUOp, flagUOps, n, hang)

Cycle(flagUOps) ==
  /\ BackendStep(flagUOps)
  /\ RedirectStep(flagUOps)
  /\ \/ RedirectCycle(flagUOps)
     \/ ReplayCycle(flagUOps)
     \/ TrapCycle(flagUOps)
     \/ CommitCycle(flagUOps)

Next == \E flagUOps \in Completions : Cycle(flagUOps)

Spec == Init /\ [][Next]_vars

\* The clock ticks.
ClockSpec == Spec /\ WF_vars(Next)

-----------------------------------------------------------------------------
(***************************************************************************)
(* Properties.                                                             *)
(***************************************************************************)

\* The uops of the ROB, oldest first, are named InROB(s); the ones rename has
\* just handed over follow them.
InRename(i) == rnUOp[i].valid /\ ~branch.taken

\* No redirect or replay is in progress and no trap is on its way.
Settled == ~branch.taken /\ ~mispredFlush /\ ~trapUOp.valid

\* RAT writes of the uops in flight: a decode-time trap writes no register.
DestReg(s) == IF flags[RobIdx(s)] = "TRAP" THEN 0 ELSE entries[RobIdx(s)].rd

NewestInRename(i, r) == /\ InRename(i) /\ rnUOp[i].rd = r
                        /\ \A j \in Port : j > i /\ InRename(j) => rnUOp[j].rd # r
NewestInROB(s, r)    == /\ InROB(s) /\ DestReg(s) = r
                        /\ \A k \in SqNs : InROB(k) /\ Diff(k, s) > 0 => DestReg(k) # r

\* The tag of r that the program order of the uops in flight asks for.
ProgramOrderTag(r) ==
  IF \E i \in Port : NewestInRename(i, r)
  THEN rnUOp[CHOOSE i \in Port : NewestInRename(i, r)].tagDst
  ELSE IF \E s \in SqNs : NewestInROB(s, r)
  THEN entries[RobIdx(CHOOSE s \in SqNs : NewestInROB(s, r))].tag
  ELSE Written(comTag, comUOp)[r]

\* Once a redirect has been replayed, rename maps every register to its newest
\* surviving writer in program order (RenameTable.sv, ROB.sv replay).
SpecMapRecovered == Settled => \A r \in Reg \ {0} : specTag[r] = ProgramOrderTag(r)

\* Who holds physical register t.
Holders(t) ==
  {<<"rob", s>> : s \in {k \in SqNs : InROB(k) /\ entries[RobIdx(k)].tag = t}}
    \cup {<<"rename", i>> : i \in {j \in Port : InRename(j) /\ rnUOp[j].tagDst = t}}
    \cup {<<"commit", i>> : i \in {j \in Port : comUOp[j].valid /\ comUOp[j].tag = t}}
    \cup {<<"ready", i>> : i \in {j \in Port : issueTag[j] = t}}
    \cup {<<"arch", r>> : r \in {q \in Reg : comTag[q] = t}}
    \cup (IF t \in free THEN {<<"free", 0>>} ELSE {})

\* Every physical register is held exactly once: none is allocated twice, and
\* none is lost by a commit, a redirect, a replay or a trap (TagBuffer.sv).
TagPartition == Settled => \A t \in RFTag : Cardinality(Holders(t)) = 1

\* The free list that a flush falls back to is the complement of the committed
\* map at all times, also in the middle of a replay (TagBuffer.sv freeCom).
CommittedFreeList == freeCom = RFTag \ {comTag[r] : r \in Reg}

\* Exceptions are precise: the committed map only names values that have been
\* produced, so an uop that trapped or timed out never gets into it (ROB.sv commit).
CommittedProduced == \A r \in Reg : comTag[r] \in tagAvail \cup ImmTag

\* A uop that has not executed reads a register that still belongs to an older
\* uop or to the committed state, never one that was freed or given away.
SourceTagLive ==
  Settled => \A s \in SqNs :
    Waiting(s) /\ Unit(s).tag \in RFTag =>
      \E h \in Holders(Unit(s).tag) :
        \/ h[1] = "rob" /\ Diff(h[2], s) < 0
        \/ h[1] \in {"commit", "arch"}

\* p has written no result back: it has not executed, or all it has reported is
\* the fault that it will trap for.
ResultMissing(p) ==
  InROB(p) /\ flags[RobIdx(p)] \in {"NX"} \cup MemFault /\ ~Unit(p).early

\* A value is not used before it has been computed, through squash, replay and
\* the reuse of registers: while the result of a uop is missing, rename's table
\* does not call its destination available (RenameTable.sv tagAvail), and no uop
\* that reads it can report a result or redirect.
WakeupSound ==
  \A p \in SqNs : ResultMissing(p) /\ Unit(p).tagDst \in RFTag =>
    /\ entries[RobIdx(p)].rd # 0 => Unit(p).tagDst \notin tagAvail
    /\ \A s \in SqNs : Unit(s).tag = Unit(p).tagDst => ~MayExecute(s)

\* No wakeup is lost: an operand that still looks unavailable is that of an
\* older uop without result (Rename.sv lookup, issue queues).
WakeupComplete ==
  Settled => \A s \in SqNs :
    Waiting(s) /\ ~Unit(s).avail =>
      \E p \in SqNs : /\ ResultMissing(p) /\ Diff(p, s) < 0
                      /\ Unit(p).tagDst = Unit(s).tag

StoresUpTo(s) == {k \in SqNs : InROB(k) /\ Diff(k, s) <= 0 /\ entries[RobIdx(k)].isSt}
LoadsBefore(s) == {k \in SqNs : InROB(k) /\ Diff(k, s) < 0 /\ entries[RobIdx(k)].isLd}

\* Rename numbers loads and stores ahead, the ROB recovers the numbers from the
\* instruction stream: both agree on every uop and on the next number to give.
LsqSqNAgree ==
  /\ \A s \in SqNs : InROB(s) /\ ~trapUOp.valid /\ ~branch.flush =>
       /\ backend[RobIdx(s)].storeSqN = Plus(storeSqN_r, Cardinality(StoresUpTo(s)))
       /\ backend[RobIdx(s)].loadSqN = Plus(loadSqN_r, Cardinality(LoadsBefore(s)))
  /\ Settled =>
       /\ counterStoreSqN = Plus(storeSqN_r,
            Cardinality({s \in SqNs : InROB(s) /\ entries[RobIdx(s)].isSt})
              + Cardinality({i \in Port : rnUOp[i].valid /\ IsSt(rnUOp[i].fu)}))
       /\ counterLoadSqN = Plus(loadSqN_r,
            Cardinality({s \in SqNs : InROB(s) /\ entries[RobIdx(s)].isLd})
              + Cardinality({i \in Port : rnUOp[i].valid /\ IsLd(rnUOp[i].fu)}))

\* The ROB never holds more than fits, redirects stay inside it (nothing that
\* was committed is squashed), a flush finds the trapping uop as the last one
\* committed, and rename is held off as long as a replay runs.
Window ==
  /\ Diff(lastIndex, baseIndex) \in 0 .. ROBSize - 1
  /\ ~branch.taken => /\ Diff(counterSqN, lastIndex) = Cardinality({i \in Port : rnUOp[i].valid})
                      /\ Diff(counterSqN, baseIndex) \in 0 .. ROBSize - 1
  /\ branch.taken => Diff(branch.sqN, baseIndex) \in -1 .. Diff(lastIndex, baseIndex) - 1
  /\ branch.flush => baseIndex = Plus(branch.sqN, 1)
  /\ trapUOp.valid => stop /\ baseIndex = Plus(trapUOp.sqN, 1)
  /\ misprReplay_r.valid => mispredFlush

\* Whatever redirects were raised in one cycle, the one that is distributed
\* squashes at least what each of them asked for (BranchSelector.sv).
RedirectCovers ==
  \A s \in intRes \cup memRes : branch.taken /\ Diff(branch.sqN, s) <= 0

\* A mispredicted branch that has executed has had its redirect: no later or
\* younger redirect can have taken its place (BranchSelector.sv).
MispredictResolved ==
  \A s \in SqNs : InROB(s) /\ backend[RobIdx(s)].mispred => flags[RobIdx(s)] = "NX"

\* Every redirect is followed by a cycle in which rename may go on: the replay
\* ends, also when further redirects hit it (ROB.sv misprReplayEnd).
RecoveryCompletes == branch.taken ~> (~branch.taken /\ ~mispredFlush)

=============================================================================
