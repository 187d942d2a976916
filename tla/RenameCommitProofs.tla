------------------------- MODULE RenameCommitProofs -------------------------
(***************************************************************************)
(* Proofs about RenameCommit for every size of the machine.                *)
(***************************************************************************)
EXTENDS RenameCommit, NatProofs

-----------------------------------------------------------------------------
(* The arithmetic of sequence numbers, for every size of the ring. *)

\* The ring of sequence numbers has two numbers for every ROB entry.
LEMMA RingType == /\ Ring \in Nat /\ ROBSize \in Nat /\ ROBSize > 1
                  /\ Ring = 2 * ROBSize
  BY ROBSizeAssumption, SMT DEF Ring

\* Advancing by at most one round stays in the ring.
LEMMA PlusType ==
  ASSUME NEW a \in SqNs, NEW n \in Nat, n <= Ring
  PROVE  Plus(a, n) \in SqNs
  BY RingType, SMT DEF Plus, SqNs

\* Going back by at most one round stays in the ring.
LEMMA MinusType ==
  ASSUME NEW a \in SqNs, NEW n \in Nat, n <= Ring
  PROVE  Minus(a, n) \in SqNs
  BY RingType, SMT DEF Minus, SqNs

\* The difference fits a two's complement number of one bit more than an index.
LEMMA DiffType ==
  ASSUME NEW a \in SqNs, NEW b \in SqNs
  PROVE  /\ Diff(a, b) \in Int
         /\ - ROBSize <= Diff(a, b) /\ Diff(a, b) < ROBSize
  BY RingType, SMT DEF Diff, SqNs

\* A sequence number names an entry of the buffer.
LEMMA RobIdxType ==
  ASSUME NEW s \in SqNs
  PROVE  RobIdx(s) \in RobIdxs
  BY RingType, SMT DEF RobIdx, RobIdxs, SqNs

\* The first sequence number and the first entry.
LEMMA ZeroType == 0 \in SqNs /\ 1 \in Nat /\ 1 <= Ring /\ 0 \in RobIdxs
  BY RingType, SMT DEF SqNs, RobIdxs

\* Among numbers that are not older than a common base, the order that
\* $signed(a - b) <= 0 defines agrees with the distance from the base.
LEMMA DiffByDistance ==
  ASSUME NEW base \in SqNs, NEW s \in SqNs, NEW t \in SqNs,
         0 <= Diff(s, base), 0 <= Diff(t, base)
  PROVE  /\ Diff(s, t) = Diff(s, base) - Diff(t, base)
         /\ Diff(s, t) <= 0 <=> Diff(s, base) <= Diff(t, base)
  BY RingType, SMT DEF Diff, SqNs

\* Advancing a number advances its distance from a base, as long as the distance
\* fits.
LEMMA DiffPlus ==
  ASSUME NEW a \in SqNs, NEW b \in SqNs, NEW n \in Nat, n < ROBSize,
         Diff(a, b) + n < ROBSize
  PROVE  Diff(Plus(a, n), b) = Diff(a, b) + n
  BY RingType, SMT DEF Diff, Plus, SqNs

\* Going back reduces it.
LEMMA DiffMinus ==
  ASSUME NEW a \in SqNs, NEW b \in SqNs, NEW n \in Nat, n < ROBSize,
         - ROBSize <= Diff(a, b) - n
  PROVE  Diff(Minus(a, n), b) = Diff(a, b) - n
  BY RingType, SMT DEF Diff, Minus, SqNs

\* When the base advances, distances from it shrink.
LEMMA DiffAdvance ==
  ASSUME NEW a \in SqNs, NEW b \in SqNs, NEW n \in Nat, n < ROBSize,
         - ROBSize <= Diff(a, b) - n
  PROVE  Diff(a, Plus(b, n)) = Diff(a, b) - n
  BY RingType, SMT DEF Diff, Plus, SqNs

\* Two numbers differ by the difference of their distances from a base, when it fits.
LEMMA DiffChain ==
  ASSUME NEW a \in SqNs, NEW b \in SqNs, NEW base \in SqNs,
         - ROBSize <= Diff(a, base) - Diff(b, base),
         Diff(a, base) - Diff(b, base) < ROBSize
  PROVE  Diff(a, b) = Diff(a, base) - Diff(b, base)
  BY RingType, SMT DEF Diff, SqNs

\* The number at the distance of s from the base is s.
LEMMA PlusDiff ==
  ASSUME NEW s \in SqNs, NEW base \in SqNs, 0 <= Diff(s, base)
  PROVE  Plus(base, Diff(s, base)) = s
  BY RingType, SMT DEF Diff, Plus, SqNs

\* Numbers that lie in one window of the size of the buffer share no entry of it.
LEMMA RobIdxInjective ==
  ASSUME NEW s \in SqNs, NEW t \in SqNs, NEW base \in SqNs,
         0 <= Diff(s, base), 0 <= Diff(t, base), RobIdx(s) = RobIdx(t)
  PROVE  s = t
  BY RingType, SMT DEF Diff, RobIdx, SqNs

\* The number before the successor is the number itself.
LEMMA PlusMinusOne ==
  ASSUME NEW s \in SqNs
  PROVE  Diff(s, Plus(s, 1)) = -1 /\ Diff(s, s) = 0
  BY RingType, SMT DEF Diff, Plus, SqNs

-----------------------------------------------------------------------------
(* Sizes and ports. *)

\* A cycle handles at least one uop and never fills the whole buffer.
LEMMA WidthType == Width \in Nat /\ Width > 0 /\ Width < ROBSize /\ Width < Ring
  BY RingType, IncludeAssumption, SMT

\* Registers and immediates are tags, "no register" is not.
LEMMA TagType ==
  /\ TAG_ZERO \in Tag /\ TAG_ONE \in Tag /\ RFTag \subseteq Tag /\ ImmTag \subseteq Tag
  /\ NoTag \notin Tag /\ 0 \in Reg
  BY IncludeAssumption, SMT DEF TAG_ZERO, TAG_ONE, Tag, ImmTag, RFTag, NoTag, Reg

\* A set of ports is finite and no larger than Width.
LEMMA PortCard ==
  ASSUME NEW S, S \subseteq Port
  PROVE  /\ Cardinality(S) \in Nat
         /\ Cardinality(S) <= Width
         /\ Cardinality(S) <= Ring
<1>1. IsFiniteSet(Port) /\ Cardinality(Port) = Width
  <2>1. 0 \in Int /\ Width - 1 \in Int /\ ~(0 > Width - 1) /\ Width - 1 - 0 + 1 = Width
    BY WidthType, SMT
  <2> QED  BY <2>1, FS_Interval DEF Port
<1>2. IsFiniteSet(S) /\ Cardinality(S) <= Cardinality(Port)
  BY <1>1, FS_Subset
<1>3. Cardinality(S) \in Nat
  BY <1>2, FS_CardinalityType
<1>4. QED  BY <1>1, <1>2, <1>3, WidthType, RingType, SMT

\* A sequence number advanced by a number of ports is a sequence number.
LEMMA PlusPorts ==
  ASSUME NEW a \in SqNs, NEW S, S \subseteq Port
  PROVE  Plus(a, Cardinality(S)) \in SqNs
  BY PortCard, PlusType

\* The number of port i of a cycle is a sequence number.
LEMMA PlusPort ==
  ASSUME NEW a \in SqNs, NEW i \in 0 .. Width
  PROVE  Plus(a, i) \in SqNs
<1>1. i \in Nat /\ i <= Ring  BY WidthType, RingType, SMT
<1>2. QED  BY <1>1, PlusType

\* The numbers next to a sequence number are sequence numbers.
LEMMA NextType ==
  ASSUME NEW a \in SqNs
  PROVE  Plus(a, 1) \in SqNs /\ Minus(a, 1) \in SqNs
  BY PlusType, MinusType, ZeroType

-----------------------------------------------------------------------------
(* The rename structures. *)

\* Writing the ports of one cycle to an alias table leaves an alias table (RenameTable.sv).
LEMMA WrittenType ==
  ASSUME NEW table \in [Reg -> Tag], NEW w \in [Port -> RATWrite]
  PROVE  Written(table, w) \in [Reg -> Tag]
<1> SUFFICES ASSUME NEW r \in Reg
             PROVE  Written(table, w)[r] \in Tag
  BY DEF Written
<1>1. CASE \E i \in Port : LastWriter(i, r, w)
  <2>1. (CHOOSE i \in Port : LastWriter(i, r, w)) \in Port  BY <1>1
  <2>2. w[CHOOSE i \in Port : LastWriter(i, r, w)].tag \in Tag  BY <2>1 DEF RATWrite
  <2> QED  BY <1>1, <2>2 DEF Written
<1>2. CASE ~ \E i \in Port : LastWriter(i, r, w)
  BY <1>2 DEF Written
<1>3. QED  BY <1>1, <1>2

\* The speculative table stays a table, on a mispredict and during a replay too.
LEMMA NextSpecTagType ==
  ASSUME RATTypeOK, NEW m \in BOOLEAN, NEW f \in BOOLEAN,
         NEW issue \in [Port -> RATWrite], NEW commit \in [Port -> RATWrite]
  PROVE  NextSpecTag(m, f, issue, commit) \in [Reg -> Tag]
<1> DEFINE start == IF m THEN comTag ELSE Written(specTag, issue)
<1>1. start \in [Reg -> Tag]  BY WrittenType DEF RATTypeOK
<1>2. Written(start, commit) \in [Reg -> Tag]  BY <1>1, WrittenType
<1>3. QED  BY <1>1, <1>2 DEF NextSpecTag

\* A clock edge keeps the rename table well-typed.
LEMMA RATClockType ==
  ASSUME RATTypeOK, NEW m \in BOOLEAN, NEW f \in BOOLEAN,
         NEW issue \in [Port -> RATWrite], NEW commit \in [Port -> RATWrite],
         NEW wb \in SUBSET RFTag,
         RATClock(m, f, issue, commit, wb)
  PROVE  RATTypeOK'
<1>1. comTag' \in [Reg -> Tag]  BY WrittenType DEF RATTypeOK, RATClock
<1>2. specTag' \in [Reg -> Tag]  BY NextSpecTagType DEF RATClock
<1>3. tagAvail' \subseteq RFTag  BY DEF RATTypeOK, RATClock
<1>4. QED  BY <1>1, <1>2, <1>3 DEF RATTypeOK

\* A clock edge keeps the free lists well-typed; a port only gets a free register.
LEMMA TBClockType ==
  ASSUME TBTypeOK, NEW m \in BOOLEAN, NEW f \in BOOLEAN, NEW used \in SUBSET Port,
         NEW commit \in [Port -> RATWrite],
         TBClock(m, f, used, commit)
  PROVE  TBTypeOK'
<1> DEFINE refills == Refills(used, m \/ mispredWait \/ f)
           kept    == IF m THEN free \cup freeCom
                      ELSE free \ {Refill(i) : i \in refills}
<1>1. \A list : Committed(list, commit) \subseteq RFTag  BY DEF Committed
<1>2. kept \subseteq RFTag  BY DEF TBTypeOK
<1>3. free' \subseteq RFTag  BY <1>1, <1>2 DEF TBClock
<1>4. freeCom' \subseteq RFTag  BY <1>1 DEF TBClock, TBTypeOK
<1>5. mispredWait' \in BOOLEAN  BY DEF TBClock
<1>6. issueTag' \in [Port -> RFTag \cup {NoTag}]
  <2>1. ASSUME NEW i \in refills
        PROVE  Refill(i) \in RFTag
    <3>1. \E t \in RFTag : Candidate(i, t)  BY <2>1 DEF Refills
    <3> QED  BY <3>1 DEF Refill
  <2>2. issueTag' = [i \in Port |-> IF i \in refills THEN Refill(i)
                                    ELSE IF m \/ i \in used THEN NoTag ELSE issueTag[i]]
    BY DEF TBClock
  <2> HIDE DEF refills
  <2> QED  BY <2>1, <2>2 DEF TBTypeOK
<1>7. QED  BY <1>3, <1>4, <1>5, <1>6 DEF TBTypeOK

-----------------------------------------------------------------------------
(* Rename. *)

\* What decode presents on a port is a uop or nothing.
LEMMA DecodedUOpsType ==
  ASSUME NEW uop \in DecodedUOps(DUOps), NEW i \in Port
  PROVE  /\ Decoded(uop, i) => uop[i] \in D_UOp
         /\ ~Decoded(uop, i) => uop[i] = NoDUOp
<1>1. uop[i] \in DUOps \cup {NoDUOp}  BY DEF DecodedUOps
<1>2. QED  BY <1>1, RenameCommitAssumption DEF Decoded

\* A cycle without uops writes nothing.
LEMMA NoDUOpsType == Issue(NoDUOps) \in [Port -> RATWrite]
<1>1. NoRATWrite \in RATWrite  BY TagType DEF NoRATWrite, RATWrite
<1>2. QED  BY <1>1 DEF Issue, NoDUOps, Decoded

\* Rename never hands out a tag it does not have: it stalls instead.
LEMMA NewTagType ==
  ASSUME TBTypeOK, NEW uop \in DecodedUOps(DUOps), ~Stall(uop), NEW i \in Port
  PROVE  NewTag(uop, i) \in Tag
<1>1. CASE TagNeeded(uop[i])
  <2>1. issueTag[i] # NoTag  BY <1>1 DEF Stall
  <2>2. issueTag[i] \in RFTag  BY <2>1 DEF TBTypeOK
  <2> QED  BY <1>1, <2>2, TagType DEF NewTag
<1>2. CASE ~TagNeeded(uop[i])
  BY <1>2, TagType DEF NewTag
<1>3. QED  BY <1>1, <1>2

\* The alias table writes of a cycle in which rename does not stall.
LEMMA IssueType ==
  ASSUME TBTypeOK, NEW uop \in DecodedUOps(DUOps), ~Stall(uop)
  PROVE  Issue(uop) \in [Port -> RATWrite]
<1> SUFFICES ASSUME NEW i \in Port
             PROVE  Issue(uop)[i] \in RATWrite
  BY DEF Issue
<1>1. CASE Decoded(uop, i)
  <2>1. uop[i].rd \in Reg  BY <1>1, DecodedUOpsType DEF D_UOp
  <2> QED  BY <1>1, <2>1, NewTagType DEF Issue, RATWrite
<1>2. CASE ~Decoded(uop, i)
  BY <1>2, TagType DEF Issue, NoRATWrite, RATWrite
<1>3. QED  BY <1>1, <1>2

\* An operand lookup returns a tag, also for a register renamed in the same cycle.
LEMMA LookupType ==
  ASSUME RATTypeOK, NEW issue \in [Port -> RATWrite], NEW i \in Port, NEW r \in Reg
  PROVE  LookupSpecTag(i, r, issue) \in Tag
<1>1. CASE \E j \in Port : OlderIssue(i, j, r, issue)
  <2>1. (CHOOSE j \in Port : OlderIssue(i, j, r, issue)) \in Port  BY <1>1
  <2> QED  BY <1>1, <2>1 DEF LookupSpecTag, RATWrite
<1>2. CASE ~ \E j \in Port : OlderIssue(i, j, r, issue)
  BY <1>2 DEF LookupSpecTag, RATTypeOK
<1>3. QED  BY <1>1, <1>2

\* An operand is available or it is not.
LEMMA LookupAvailType ==
  ASSUME NEW i, NEW r, NEW issue, NEW wb
  PROVE  LookupAvail(i, r, issue, wb) \in BOOLEAN
<1>1. CASE \E j \in Port : OlderIssue(i, j, r, issue)
  <2>1. LookupAvail(i, r, issue, wb) = (LookupSpecTag(i, r, issue) \in ImmTag)
    BY <1>1, Zenon DEF LookupAvail
  <2> QED  BY <2>1
<1>2. CASE ~ \E j \in Port : OlderIssue(i, j, r, issue)
  <2>1. LookupAvail(i, r, issue, wb) = (specTag[r] \in tagAvail \cup ImmTag \cup wb)
    BY <1>2, Zenon DEF LookupAvail
  <2> QED  BY <2>1
<1>3. QED  BY <1>1, <1>2

\* Load and store numbers of the ports of a cycle.
LEMMA LsqSqNsType ==
  ASSUME RNTypeOK, NEW uop, NEW i \in 0 .. Width
  PROVE  StoreSqNs(uop, i) \in SqNs /\ LoadSqNs(uop, i) \in SqNs
<1>1. StoresBelow(uop, i) \subseteq Port /\ LoadsBelow(uop, i) \subseteq Port
  BY DEF StoresBelow, LoadsBelow
<1>2. QED  BY <1>1, PlusPorts DEF StoreSqNs, LoadSqNs, RNTypeOK

\* A renamed uop is complete.
LEMMA RenamedType ==
  ASSUME RATTypeOK, TBTypeOK, RNTypeOK, NEW wb,
         NEW uop \in DecodedUOps(DUOps), ~Stall(uop),
         NEW i \in Port, Decoded(uop, i)
  PROVE  Renamed(uop, i, wb) \in R_UOp
<1>1. uop[i] \in D_UOp  BY DecodedUOpsType
<1>2. uop[i].rd \in Reg /\ uop[i].rs \in Reg /\ uop[i].mispred \in BOOLEAN
      /\ uop[i].fu \in FuncUnit
  BY <1>1 DEF D_UOp
<1>3. (IF ScFails(uop, i) THEN "RN" ELSE uop[i].fu) \in FuncUnit
  BY <1>2 DEF FuncUnit
<1>4. NewTag(uop, i) \in Tag  BY NewTagType
<1>5. LookupSpecTag(i, uop[i].rs, Issue(uop)) \in Tag  BY <1>2, IssueType, LookupType
<1>6. LookupAvail(i, uop[i].rs, Issue(uop), wb) \in BOOLEAN  BY LookupAvailType
<1>7. i \in 0 .. Width /\ i + 1 \in 0 .. Width  BY WidthType, SMT DEF Port
<1>8. StoreSqNs(uop, i + 1) \in SqNs /\ LoadSqNs(uop, i) \in SqNs  BY <1>7, LsqSqNsType
<1>9. Plus(counterSqN, i) \in SqNs  BY <1>7, PlusPort DEF RNTypeOK
<1>10. QED  BY <1>2, <1>3, <1>4, <1>5, <1>6, <1>8, <1>9 DEF Renamed, R_UOp

\* Results are reported for registers.
LEMMA WrittenBackType ==
  ASSUME NEW F  PROVE  WrittenBack(F) \in SUBSET RFTag
  BY DEF WrittenBack

\* The empty rename port.
LEMMA NoRUOpType == NoRUOp \in R_UOp
  BY TagType, ZeroType DEF NoRUOp, R_UOp, FuncUnit

\* A cycle in which rename takes uops keeps its state well-typed.
LEMMA RNAcceptType ==
  ASSUME RATTypeOK, TBTypeOK, RNTypeOK, NEW f \in BOOLEAN,
         NEW uop \in DecodedUOps(DUOps), NEW commit \in [Port -> RATWrite], NEW F,
         RNAccept(f, uop, commit, F)
  PROVE  RATTypeOK' /\ TBTypeOK' /\ RNTypeOK'
<1>1. ~Stall(uop)  BY DEF RNAccept
<1>2. RATTypeOK'
  <2>1. RATClock(FALSE, f, Issue(uop), commit, WrittenBack(F))  BY DEF RNAccept
  <2> QED  BY <1>1, <2>1, IssueType, WrittenBackType, RATClockType
<1>3. TBTypeOK'
  <2>1. TBClock(FALSE, f, {i \in Port : TagNeeded(uop[i])}, commit)  BY DEF RNAccept
  <2> QED  BY <2>1, TBClockType
<1>4. RNTypeOK'
  <2>1. rnUOp' \in [Port -> R_UOp]
    <3>1. rnUOp' = [i \in Port |-> IF Decoded(uop, i) THEN Renamed(uop, i, WrittenBack(F))
                                   ELSE NoRUOp]
      BY DEF RNAccept
    <3> QED  BY <1>1, <3>1, RenamedType, NoRUOpType
  <2>2. counterSqN' \in SqNs
    <3>1. counterSqN' = Plus(counterSqN, Cardinality({i \in Port : Decoded(uop, i)}))
      BY DEF RNAccept
    <3> QED  BY <3>1, PlusPorts DEF RNTypeOK
  <2>3. counterStoreSqN' \in SqNs /\ counterLoadSqN' \in SqNs
    <3>1. Width \in 0 .. Width  BY WidthType, SMT
    <3> QED  BY <3>1, LsqSqNsType DEF RNAccept
  <2>4. failSc' \in BOOLEAN  BY DEF RNAccept
  <2> QED  BY <2>1, <2>2, <2>3, <2>4 DEF RNTypeOK
<1>5. QED  BY <1>2, <1>3, <1>4

\* A cycle in which rename takes nothing keeps its state well-typed.
LEMMA RNIdleType ==
  ASSUME RATTypeOK, TBTypeOK, RNTypeOK, NEW f \in BOOLEAN,
         NEW commit \in [Port -> RATWrite], NEW F,
         RNIdle(f, commit, F)
  PROVE  RATTypeOK' /\ TBTypeOK' /\ RNTypeOK'
<1>1. RATTypeOK'
  <2>1. RATClock(FALSE, f, Issue(NoDUOps), commit, WrittenBack(F))  BY DEF RNIdle
  <2> QED  BY <2>1, NoDUOpsType, WrittenBackType, RATClockType
<1>2. TBTypeOK'
  <2>1. TBClock(FALSE, f, {}, commit)  BY DEF RNIdle
  <2> QED  BY <2>1, TBClockType
<1>3. RNTypeOK'  BY NoRUOpType DEF RNIdle, RNTypeOK
<1>4. QED  BY <1>1, <1>2, <1>3

\* A redirect keeps the state of rename well-typed.
LEMMA RNRedirectType ==
  ASSUME RATTypeOK, TBTypeOK, RNTypeOK, NEW b \in BranchProv, NEW f \in BOOLEAN,
         NEW commit \in [Port -> RATWrite], NEW F,
         RNRedirect(b, f, commit, F)
  PROVE  RATTypeOK' /\ TBTypeOK' /\ RNTypeOK'
<1>1. RATTypeOK'
  <2>1. RATClock(TRUE, f, Issue(NoDUOps), commit, WrittenBack(F))  BY DEF RNRedirect
  <2> QED  BY <2>1, NoDUOpsType, WrittenBackType, RATClockType
<1>2. TBTypeOK'
  <2>1. TBClock(TRUE, f, {}, commit)  BY DEF RNRedirect
  <2> QED  BY <2>1, TBClockType
<1>3. RNTypeOK'
  <2>1. b.sqN \in SqNs /\ b.storeSqN \in SqNs /\ b.loadSqN \in SqNs /\ b.isSCFail \in BOOLEAN
    BY DEF BranchProv
  <2>2. Plus(b.sqN, 1) \in SqNs  BY <2>1, NextType
  <2> QED  BY <2>1, <2>2, NoRUOpType DEF RNRedirect, RNTypeOK
<1>4. QED  BY <1>1, <1>2, <1>3

-----------------------------------------------------------------------------
(* The reorder buffer. *)

\* The entry a commit port looks at exists.
LEMMA DeqType ==
  ASSUME ROBTypeOK, NEW i \in Port
  PROVE  Deq(i) \in RobIdxs /\ Plus(baseIndex, i) \in SqNs
<1>1. i \in 0 .. Width  BY WidthType, SMT DEF Port
<1>2. QED  BY <1>1, PlusPort, RobIdxType DEF Deq, ROBTypeOK

\* The load and store numbers recovered at commit.
LEMMA LsqSqNAtType ==
  ASSUME ROBTypeOK, NEW i
  PROVE  StoreSqNAt(i) \in SqNs /\ LoadSqNAt(i) \in SqNs
  BY PlusPorts DEF StoreSqNAt, LoadSqNAt, ROBTypeOK

\* The empty commit port.
LEMMA NoRATWriteType == NoRATWrite \in RATWrite
  BY TagType DEF NoRATWrite, RATWrite

\* The empty trap port.
LEMMA NoTrapUOpType == NoTrapUOp \in Trap_UOp
  BY ZeroType DEF NoTrapUOp, Trap_UOp, Flags

\* Committing up to Width uops keeps the ROB well-typed.
LEMMA CommitStepType ==
  ASSUME ROBTypeOK, NEW n \in 0 .. Width, NEW hang \in BOOLEAN,
         CommitStep(n, hang)
  PROVE  /\ baseIndex' \in SqNs /\ storeSqN_r' \in SqNs /\ loadSqN_r' \in SqNs
         /\ misprReplay_r' \in Replay
         /\ mispredFlush' \in BOOLEAN /\ stop' \in BOOLEAN
         /\ comUOp' \in [Port -> RATWrite]
         /\ trapUOp' \in Trap_UOp
<1>1. baseIndex' \in SqNs  BY PlusPort DEF CommitStep, ROBTypeOK
<1>2. storeSqN_r' \in SqNs /\ loadSqN_r' \in SqNs  BY LsqSqNAtType DEF CommitStep
<1>3. misprReplay_r' \in Replay /\ mispredFlush' \in BOOLEAN  BY DEF CommitStep, ROBTypeOK
<1>4. comUOp' \in [Port -> RATWrite]
  <2>1. comUOp' = [i \in Port |-> IF i < n THEN CommittedUOp(i, hang) ELSE NoRATWrite]
    BY DEF CommitStep
  <2>2. ASSUME NEW i \in Port
        PROVE  CommittedUOp(i, hang) \in RATWrite
    <3>1. entries[Deq(i)] \in ROBEntry  BY DeqType DEF ROBTypeOK
    <3>2. entries[Deq(i)].rd \in Reg /\ entries[Deq(i)].tag \in Tag  BY <3>1 DEF ROBEntry
    <3> QED  BY <3>2, TagType DEF CommittedUOp, RATWrite
  <2> QED  BY <2>1, <2>2, NoRATWriteType
<1>5. stop' \in BOOLEAN
  <2>1. stop' = (n > 0 /\ SendsTrap(n - 1, hang))  BY DEF CommitStep
  <2> QED  BY <2>1
<1>6. trapUOp' \in Trap_UOp
  <2>1. CASE n > 0 /\ SendsTrap(n - 1, hang)
    <3>1. trapUOp' = TrapOf(n - 1, hang)  BY <2>1 DEF CommitStep
    <3>2. n - 1 \in Port  BY <2>1, WidthType, SMT DEF Port
    <3>3. flags[Deq(n - 1)] \in Flags /\ Plus(baseIndex, n - 1) \in SqNs
      BY <3>2, DeqType DEF ROBTypeOK
    <3>4. TimedOut(n - 1, hang) \in BOOLEAN  BY DEF TimedOut
    <3>5. LoadSqNAt(n - 1) \in SqNs /\ StoreSqNAt(n - 1 + 1) \in SqNs  BY LsqSqNAtType
    <3> QED  BY <3>1, <3>3, <3>4, <3>5 DEF TrapOf, Trap_UOp
  <2>2. CASE ~(n > 0 /\ SendsTrap(n - 1, hang))
    <3>1. trapUOp' = NoTrapUOp  BY <2>2 DEF CommitStep
    <3> QED  BY <3>1, NoTrapUOpType
  <2> QED  BY <2>1, <2>2
<1>7. QED  BY <1>1, <1>2, <1>3, <1>4, <1>5, <1>6

\* A replay that starts or goes on.
LEMMA ReplayingType ==
  ASSUME ROBTypeOK, NEW b \in BranchProv
  PROVE  Replaying(b) \in Replay
  BY DEF Replaying, ROBTypeOK, Replay, BranchProv

\* A cycle of replay keeps the ROB well-typed.
LEMMA ReplayStepType ==
  ASSUME ROBTypeOK, NEW r \in Replay, ReplayStep(r)
  PROVE  /\ baseIndex' \in SqNs /\ storeSqN_r' \in SqNs /\ loadSqN_r' \in SqNs
         /\ misprReplay_r' \in Replay
         /\ mispredFlush' \in BOOLEAN /\ stop' \in BOOLEAN
         /\ comUOp' \in [Port -> RATWrite]
         /\ trapUOp' \in Trap_UOp
<1>1. baseIndex' \in SqNs /\ storeSqN_r' \in SqNs /\ loadSqN_r' \in SqNs
  BY DEF ReplayStep, ROBTypeOK
<1>2. r.iterSqN \in SqNs /\ r.endSqN \in SqNs /\ r.valid \in BOOLEAN  BY DEF Replay
<1>3. misprReplay_r' \in Replay
  <2>1. Width \in 0 .. Width  BY WidthType, SMT
  <2>2. Plus(r.iterSqN, Width) \in SqNs  BY <1>2, <2>1, PlusPort
  <2>3. [r EXCEPT !.iterSqN = Plus(@, Width)] \in Replay  BY <2>2 DEF Replay
  <2>4. NoReplay \in Replay  BY ZeroType DEF NoReplay, Replay
  <2> QED  BY <2>3, <2>4 DEF ReplayStep
<1>4. mispredFlush' \in BOOLEAN
  <2>1. mispredFlush' = (\E i \in Port : Survives(r, i))  BY DEF ReplayStep
  <2> QED  BY <2>1
<1>5. comUOp' \in [Port -> RATWrite]
  <2>1. comUOp' = [i \in Port |-> ReplayedUOp(r, i)]  BY DEF ReplayStep
  <2>2. ASSUME NEW i \in Port
        PROVE  ReplayedUOp(r, i) \in RATWrite
    <3> DEFINE k == RobIdx(Plus(r.iterSqN, i))
    <3>1. i \in 0 .. Width  BY WidthType, SMT DEF Port
    <3>2. k \in RobIdxs  BY <1>2, <3>1, PlusPort, RobIdxType
    <3>3. entries[k] \in ROBEntry  BY <3>2 DEF ROBTypeOK
    <3>4. (IF flags[k] = "TRAP" THEN 0 ELSE entries[k].rd) \in Reg /\ entries[k].tag \in Tag
      BY <3>3, TagType DEF ROBEntry
    <3> HIDE DEF k
    <3>5. ReplayedUOp(r, i) = IF Survives(r, i)
                              THEN [valid |-> TRUE,
                                    rd |-> IF flags[k] = "TRAP" THEN 0 ELSE entries[k].rd,
                                    tag |-> entries[k].tag]
                              ELSE NoRATWrite
      BY DEF ReplayedUOp, k
    <3> QED  BY <3>4, <3>5, NoRATWriteType DEF RATWrite
  <2> QED  BY <2>1, <2>2
<1>6. stop' \in BOOLEAN /\ trapUOp' \in Trap_UOp  BY NoTrapUOpType DEF ReplayStep
<1>7. QED  BY <1>1, <1>3, <1>4, <1>5, <1>6

\* The last of the ports that hold a renamed uop.
LEMMA LastValidPort ==
  ASSUME NEW uop, \E i \in Port : uop[i].valid
  PROVE  \E i \in Port : uop[i].valid /\ \A j \in Port : j > i => ~uop[j].valid
<1> DEFINE T == {Width - 1 - i : i \in {j \in Port : uop[j].valid}}
<1>1. T \subseteq Nat /\ T # {}  BY WidthType, SMT DEF Port
<1>2. PICK x \in T : \A y \in T : x <= y  BY <1>1, LeastNat
<1>3. PICK i \in {j \in Port : uop[j].valid} : x = Width - 1 - i  OBVIOUS
<1>4. ASSUME NEW j \in Port, j > i, uop[j].valid
      PROVE  FALSE
  <2>1. Width - 1 - j \in T  BY <1>4
  <2>2. Width - 1 - i <= Width - 1 - j  BY <1>2, <1>3, <2>1
  <2> QED  BY <1>4, <1>3, <2>2, WidthType, SMT DEF Port
<1>5. QED  BY <1>3, <1>4

\* Enqueue and completion keep the ROB well-typed.
LEMMA EnqueueStepType ==
  ASSUME ROBTypeOK, RNTypeOK, NEW b \in BranchProv, NEW F \in SUBSET FlagsUOp,
         EnqueueStep(rnUOp, F, b)
  PROVE  /\ entries' \in [RobIdxs -> ROBEntry]
         /\ flags' \in [RobIdxs -> Flags]
         /\ lastIndex' \in SqNs
<1> DEFINE enq(k) == rnUOp[CHOOSE i \in Enqueued(k, rnUOp, b) : TRUE]
           done(k) == CHOOSE u \in Completed(k, F, b) : TRUE
<1>1. ASSUME NEW k \in RobIdxs, Enqueued(k, rnUOp, b) # {}
      PROVE  enq(k) \in R_UOp
  <2>1. (CHOOSE i \in Enqueued(k, rnUOp, b) : TRUE) \in Port  BY <1>1 DEF Enqueued
  <2> QED  BY <2>1 DEF RNTypeOK
<1>2. ASSUME NEW k \in RobIdxs, Completed(k, F, b) # {}
      PROVE  done(k) \in FlagsUOp
  BY <1>2 DEF Completed
<1>3. entries' \in [RobIdxs -> ROBEntry]
  <2>1. entries' = [k \in RobIdxs |-> IF Enqueued(k, rnUOp, b) # {} THEN EntryOf(enq(k))
                                      ELSE entries[k]]
    BY DEF EnqueueStep
  <2>2. ASSUME NEW u \in R_UOp
        PROVE  EntryOf(u) \in ROBEntry
    BY DEF EntryOf, ROBEntry, R_UOp, IsLd, IsSt
  <2> HIDE DEF enq
  <2> QED  BY <1>1, <2>1, <2>2 DEF ROBTypeOK
<1>4. flags' \in [RobIdxs -> Flags]
  <2>1. flags' = [k \in RobIdxs |-> IF Completed(k, F, b) # {} THEN done(k).flags
                                    ELSE IF Enqueued(k, rnUOp, b) # {} THEN InitialFlags(enq(k).fu)
                                    ELSE flags[k]]
    BY DEF EnqueueStep
  <2>2. \A fu : InitialFlags(fu) \in Flags  BY DEF InitialFlags, Flags, Exception
  <2>3. \A u \in FlagsUOp : u.flags \in Flags  BY DEF FlagsUOp
  <2> HIDE DEF enq, done
  <2> QED  BY <1>2, <2>1, <2>2, <2>3 DEF ROBTypeOK
<1>5. lastIndex' \in SqNs
  <2> DEFINE last == CHOOSE i \in Port : /\ rnUOp[i].valid
                                         /\ \A j \in Port : j > i => ~rnUOp[j].valid
  <2>1. CASE b.taken
    <3>1. b.sqN \in SqNs  BY DEF BranchProv
    <3> QED  BY <2>1, <3>1, NextType DEF EnqueueStep
  <2>2. CASE ~b.taken /\ \E i \in Port : rnUOp[i].valid
    <3>1. PICK i \in Port : rnUOp[i].valid /\ \A j \in Port : j > i => ~rnUOp[j].valid
      BY <2>2, LastValidPort
    <3>2. last \in Port  BY <3>1
    <3>3. rnUOp[last].sqN \in SqNs  BY <3>2 DEF RNTypeOK, R_UOp
    <3>4. lastIndex' = Plus(rnUOp[last].sqN, 1)  BY <2>2 DEF EnqueueStep
    <3> HIDE DEF last
    <3> QED  BY <3>3, <3>4, NextType
  <2>3. CASE ~b.taken /\ ~ \E i \in Port : rnUOp[i].valid
    BY <2>3 DEF EnqueueStep, ROBTypeOK
  <2> QED  BY <2>1, <2>2, <2>3
<1>6. QED  BY <1>3, <1>4, <1>5

-----------------------------------------------------------------------------
(* The back end and the redirect network. *)

\* What the back end knows about a uop.
LEMMA UnitType ==
  ASSUME TypeOK, NEW s \in SqNs
  PROVE  Unit(s) \in BackendUOp
  BY RobIdxType DEF TypeOK, Unit

\* The reports of a branch whose prediction turns out to be right: it stays marked
\* as not resolved until then, and no redirect precedes its report.
PredictedReports(s) == IF MayExecute(s) /\ Unit(s).mispred THEN {BranchReport(s)} ELSE {}

\* Completions without a bound on their number, and with such branches.  The core
\* that executes a program (CoreExec) takes its completions from these.
AnyCompletions ==
  LET others == UNION {Reports(s) \cup PredictedReports(s) : s \in SqNs}
  IN  {{BranchReport(s) : s \in intRes} \cup F :
         F \in {G \in SUBSET others : \A u, v \in G : u.sqN = v.sqN => u = v}}

\* What is proved about the steps of RenameCommit holds with these as well, but for
\* MispredictResolved.
AnyNext == \E F \in AnyCompletions : Cycle(F)

\* The completions of RenameCommit are among them.
LEMMA CompletionsAreAny == Completions \subseteq AnyCompletions
<1> SUFFICES ASSUME NEW F \in Completions  PROVE F \in AnyCompletions
  OBVIOUS
<1>1. PICK G \in SUBSET UNION {Reports(s) : s \in SqNs} :
        /\ F = {BranchReport(s) : s \in intRes} \cup G
        /\ \A u, v \in G : u.sqN = v.sqN => u = v
  BY DEF Completions
<1>2. G \in SUBSET UNION {Reports(s) \cup PredictedReports(s) : s \in SqNs}  OBVIOUS
<1>3. QED  BY <1>1, <1>2 DEF AnyCompletions

\* What completes has executed in this cycle, or raised its redirect in the last one.
LEMMA ReportSource ==
  ASSUME NEW F \in AnyCompletions, NEW u \in F
  PROVE  \/ \E t \in SqNs : u \in Reports(t)
         \/ \E t \in SqNs : u = BranchReport(t) /\ MayExecute(t) /\ Unit(t).mispred
         \/ \E t \in intRes : u = BranchReport(t)
<1>1. PICK G \in SUBSET UNION {Reports(t) \cup PredictedReports(t) : t \in SqNs} :
        F = {BranchReport(t) : t \in intRes} \cup G
  BY DEF AnyCompletions
<1>2. CASE u \in G
  <2>1. PICK t \in SqNs : u \in Reports(t) \cup PredictedReports(t)  BY <1>1, <1>2
  <2> QED  BY <2>1 DEF PredictedReports
<1>3. CASE u \notin G
  BY <1>1, <1>3
<1>4. QED  BY <1>2, <1>3

\* Its steps are.
LEMMA NextIsAny == [Next]_vars => [AnyNext]_vars
  BY CompletionsAreAny DEF Next, AnyNext

\* Every completion the back end may report is one.
LEMMA CompletionsType ==
  ASSUME TypeOK, NEW F \in AnyCompletions
  PROVE  F \in SUBSET FlagsUOp
<1>1. ASSUME NEW s \in SqNs, NEW u \in Reports(s)
      PROVE  u \in FlagsUOp
  <2> DEFINE rep(fl, dnc) == [sqN |-> s, tagDst |-> Unit(s).tagDst, flags |-> fl,
                              doNotCommit |-> dnc]
  <2>1. Unit(s).tagDst \in Tag /\ Unit(s).fu \in FuncUnit
    BY UnitType DEF BackendUOp
  <2>2. Outcome[Unit(s).fu] \subseteq Flags \ {"NX"} /\ Outcome["ATOMIC"] \subseteq Flags \ {"NX"}
    BY <2>1, RenameCommitAssumption DEF FuncUnit
  <2>3. \A fl \in Flags \ {"NX"}, dnc \in BOOLEAN : rep(fl, dnc) \in FlagsUOp
    BY <2>1 DEF FlagsUOp
  <2>4. \/ u = rep("NONE", FALSE)
        \/ \E fl \in Outcome["ATOMIC"] : u = rep(fl, fl = "NONE")
        \/ \E fl \in Outcome[Unit(s).fu] : u = rep(fl, FALSE)
    BY DEF Reports
  <2>5. "NONE" \in Flags \ {"NX"}  BY DEF Flags
  <2> HIDE DEF rep
  <2> QED  BY <2>2, <2>3, <2>4, <2>5
<1>2. ASSUME NEW s \in SqNs
      PROVE  BranchReport(s) \in FlagsUOp
  <2>1. Unit(s).tagDst \in Tag  BY UnitType DEF BackendUOp
  <2> QED  BY <2>1 DEF BranchReport, FlagsUOp, Flags
<1> DEFINE others == UNION {Reports(s) \cup PredictedReports(s) : s \in SqNs}
<1>3. \E G \in SUBSET others : F = {BranchReport(s) : s \in intRes} \cup G
  BY DEF AnyCompletions
<1>4. others \subseteq FlagsUOp  BY <1>1, <1>2 DEF PredictedReports
<1> HIDE DEF others
<1>5. \A s \in intRes : s \in SqNs  BY DEF TypeOK
<1>6. QED  BY <1>2, <1>3, <1>4, <1>5

\* Issue queue enqueue and wakeup keep the back end well-typed.
LEMMA BackendStepType ==
  ASSUME TypeOK, NEW F \in SUBSET FlagsUOp, BackendStep(F)
  PROVE  backend' \in [RobIdxs -> BackendUOp]
<1> DEFINE wb == WrittenBack(F)
           enq(k) == Enqueued(k, rnUOp, branch)
           woken(k) == backend[k].avail \/ backend[k].tag \in wb
           first(k) == backend[k].early \/ \E u \in F : RobIdx(u.sqN) = k /\ u.doNotCommit
           wrong(k) == backend[k].mispred
                         /\ ~ \E s \in intRes : RobIdx(s) = k /\ branch.taken /\ branch.sqN = s
                                                /\ ~branch.flush /\ ~branch.isSCFail
           waiting(k) == [backend[k] EXCEPT !.avail = woken(k), !.early = first(k),
                                            !.mispred = wrong(k)]
<1>1. backend' = [k \in RobIdxs |->
                    IF enq(k) # {} THEN Entered(rnUOp[CHOOSE i \in enq(k) : TRUE], wb)
                    ELSE waiting(k)]
  BY DEF BackendStep
<1>2. ASSUME NEW u \in R_UOp
      PROVE  Entered(u, wb) \in BackendUOp
  <2>1. (u.avail \/ u.tag \in wb) \in BOOLEAN  OBVIOUS
  <2> QED  BY <2>1 DEF Entered, R_UOp, BackendUOp
<1>3. ASSUME NEW k \in RobIdxs, enq(k) # {}
      PROVE  rnUOp[CHOOSE i \in enq(k) : TRUE] \in R_UOp
  <2>1. (CHOOSE i \in enq(k) : TRUE) \in Port  BY <1>3 DEF Enqueued
  <2> QED  BY <2>1 DEF TypeOK, RNTypeOK
<1>4. ASSUME NEW k \in RobIdxs
      PROVE  waiting(k) \in BackendUOp
  <2>1. backend[k] \in BackendUOp  BY DEF TypeOK
  <2>2. woken(k) \in BOOLEAN /\ first(k) \in BOOLEAN /\ wrong(k) \in BOOLEAN  OBVIOUS
  <2> HIDE DEF woken, first, wrong
  <2> QED  BY <2>1, <2>2 DEF BackendUOp
<1> HIDE DEF enq, waiting, wb
<1>5. QED  BY <1>1, <1>2, <1>3, <1>4

\* One of several branches in the buffer is the oldest.
LEMMA OldestExists ==
  ASSUME TypeOK, NEW B \in SUBSET BranchCandidates, B # {}
  PROVE  \E o \in B : \A t \in B : Diff(o, t) <= 0
<1>1. \A s \in B : s \in SqNs /\ 0 <= Diff(s, baseIndex)
  BY DEF BranchCandidates, MayExecute, Waiting, InROB
<1>2. baseIndex \in SqNs  BY DEF TypeOK, ROBTypeOK
<1> DEFINE T == {Diff(s, baseIndex) : s \in B}
<1>3. T \subseteq Nat /\ T # {}
  <2>1. \A s \in B : Diff(s, baseIndex) \in Nat  BY <1>1, <1>2, DiffType
  <2> QED  BY <2>1
<1>4. PICK x \in T : \A y \in T : x <= y  BY <1>3, LeastNat
<1>5. PICK s \in B : x = Diff(s, baseIndex)  OBVIOUS
<1>6. \A t \in B : Diff(s, t) <= 0
  <2> SUFFICES ASSUME NEW t \in B
               PROVE  Diff(s, t) <= 0
    OBVIOUS
  <2>1. Diff(s, baseIndex) <= Diff(t, baseIndex)  BY <1>4, <1>5
  <2> QED  BY <1>1, <1>2, <2>1, DiffByDistance
<1>7. QED  BY <1>6

\* Selecting the oldest branch selects one that was raised.
LEMMA OldestType ==
  ASSUME TypeOK, NEW B \in SUBSET BranchCandidates, B # {}
  PROVE  Oldest(B) \in B
  BY OldestExists DEF Oldest

\* The redirect that is distributed is one.
LEMMA RedirectStepType ==
  ASSUME TypeOK, NEW F \in SUBSET FlagsUOp, RedirectStep(F)
  PROVE  branch' \in BranchProv /\ intRes' \subseteq SqNs /\ memRes' \subseteq SqNs
<1>1. PICK B \in SUBSET BranchCandidates,
           M \in {{}} \cup {{s} : s \in MemCandidates(F)} :
             branch' = SelectBranch(B, M) /\ intRes' = B /\ memRes' = M
  BY DEF RedirectStep
<1>2. BranchCandidates \subseteq SqNs  BY DEF BranchCandidates
<1>3. \A s \in MemCandidates(F) : s \in SqNs  BY DEF MemCandidates, FlagsUOp
<1>4. M \subseteq SqNs  BY <1>3
<1>5. ASSUME NEW s \in SqNs
      PROVE  IntBranch(s) \in BranchProv
  BY <1>5, UnitType DEF IntBranch, BranchProv, BackendUOp
<1>6. ASSUME NEW s \in SqNs
      PROVE  MemBranch(s) \in BranchProv
  <2>1. Unit(s).loadSqN \in SqNs /\ Unit(s).storeSqN \in SqNs  BY UnitType DEF BackendUOp
  <2>2. /\ Minus(s, 1) \in SqNs /\ Minus(Unit(s).storeSqN, 1) \in SqNs
        /\ Plus(Unit(s).loadSqN, 1) \in SqNs
    BY <2>1, NextType
  <2>3. (IF Unit(s).fu = "ATOMIC" THEN Plus(Unit(s).loadSqN, 1) ELSE Unit(s).loadSqN) \in SqNs
    BY <2>1, <2>2
  <2> QED  BY <2>1, <2>2, <2>3 DEF MemBranch, BranchProv
<1>7. TrapBranch \in BranchProv
  <2>1. trapUOp.sqN \in SqNs /\ trapUOp.loadSqN \in SqNs /\ trapUOp.storeSqN \in SqNs
    BY DEF TypeOK, ROBTypeOK, Trap_UOp
  <2>2. Minus(trapUOp.storeSqN, 1) \in SqNs  BY <2>1, NextType
  <2> QED  BY <2>1, <2>2 DEF TrapBranch, BranchProv
<1>8. NoBranch \in BranchProv  BY ZeroType DEF NoBranch, BranchProv
<1>9. B # {} => IntBranch(Oldest(B)) \in BranchProv
  BY <1>2, <1>5, OldestType
<1>10. M # {} => (CHOOSE b \in {MemBranch(s) : s \in M} : TRUE) \in BranchProv
  BY <1>4, <1>6
<1>11. SelectBranch(B, M) \in BranchProv
  BY <1>7, <1>8, <1>9, <1>10 DEF SelectBranch
<1>12. QED  BY <1>1, <1>2, <1>4, <1>11

-----------------------------------------------------------------------------
(* Type correctness. *)

\* The state after reset is well-typed.
LEMMA InitType == Init => TypeOK
<1> SUFFICES ASSUME Init  PROVE  TypeOK
  OBVIOUS
<1>1. RATTypeOK  BY TagType DEF Init, RATInit, RATTypeOK
<1>2. TBTypeOK  BY DEF Init, TBInit, TBTypeOK
<1>3. RNTypeOK  BY NoRUOpType, ZeroType, NextType DEF Init, RNInit, RNTypeOK
<1>4. ROBTypeOK
  <2>1. NoEntry \in ROBEntry  BY TagType DEF NoEntry, ROBEntry
  <2>2. NoReplay \in Replay  BY ZeroType DEF NoReplay, Replay
  <2> QED  BY <2>1, <2>2, NoRATWriteType, NoTrapUOpType, ZeroType, NextType
           DEF Init, ROBInit, ROBTypeOK
<1>5. branch \in BranchProv  BY ZeroType DEF Init, NoBranch, BranchProv
<1>6. backend \in [RobIdxs -> BackendUOp]
  <2>1. NoBackendUOp \in BackendUOp
    BY TagType, ZeroType DEF NoBackendUOp, BackendUOp, FuncUnit
  <2> QED  BY <2>1 DEF Init
<1>7. intRes \subseteq SqNs /\ memRes \subseteq SqNs  BY DEF Init
<1>8. QED  BY <1>1, <1>2, <1>3, <1>4, <1>5, <1>6, <1>7 DEF TypeOK

\* Rename and the reorder buffer in one of the four kinds of cycle.
LEMMA CoreCycleType ==
  ASSUME TypeOK, NEW F \in SUBSET FlagsUOp,
         RedirectCycle(F) \/ ReplayCycle(F) \/ TrapCycle(F) \/ CommitCycle(F)
  PROVE  RATTypeOK' /\ TBTypeOK' /\ RNTypeOK' /\ ROBTypeOK'
<1> USE DEF TypeOK
<1>1. mispredFlush \in BOOLEAN /\ comUOp \in [Port -> RATWrite] /\ branch \in BranchProv
  BY DEF ROBTypeOK
<1>2. ASSUME RenameStep(F)
      PROVE  RATTypeOK' /\ TBTypeOK' /\ RNTypeOK'
  <2>1. CASE RNIdle(mispredFlush, comUOp, F)
    BY <1>1, <2>1, RNIdleType
  <2>2. CASE \E uop \in DecodedUOps(DUOps) : RNAccept(mispredFlush, uop, comUOp, F)
    BY <1>1, <2>2, RNAcceptType
  <2> QED  BY <1>2, <2>1, <2>2 DEF RenameStep
<1>3. ASSUME ROBReplay(branch, rnUOp, F)
      PROVE  ROBTypeOK'
  <2>1. ReplayStep(Replaying(branch)) /\ EnqueueStep(rnUOp, F, branch)
    BY <1>3 DEF ROBReplay
  <2>2. Replaying(branch) \in Replay  BY ReplayingType
  <2> QED  BY <2>1, <2>2, ReplayStepType, EnqueueStepType DEF ROBTypeOK
<1>4. ASSUME NEW n \in 0 .. Width, NEW hang \in BOOLEAN,
             CommitStep(n, hang), EnqueueStep(rnUOp, F, branch)
      PROVE  ROBTypeOK'
  BY <1>4, CommitStepType, EnqueueStepType DEF ROBTypeOK
<1>5. CASE RedirectCycle(F)
  BY <1>1, <1>3, <1>5, RNRedirectType DEF RedirectCycle
<1>6. CASE ReplayCycle(F)
  BY <1>1, <1>3, <1>6, RNIdleType DEF ReplayCycle
<1>7. CASE TrapCycle(F)
  <2>1. CommitStep(0, FALSE) /\ EnqueueStep(rnUOp, F, branch)  BY <1>7 DEF TrapCycle, ROBStop
  <2>2. 0 \in 0 .. Width  BY WidthType, SMT
  <2> QED  BY <1>2, <1>4, <1>7, <2>1, <2>2 DEF TrapCycle
<1>8. CASE CommitCycle(F)
  <2>1. PICK n \in 0 .. Width, hang \in {FALSE, AllowTimeout} :
          CommitStep(n, hang) /\ EnqueueStep(rnUOp, F, branch)
    BY <1>8 DEF CommitCycle, ROBCommit
  <2>2. hang \in BOOLEAN  BY RenameCommitAssumption
  <2> QED  BY <1>2, <1>4, <1>8, <2>1, <2>2 DEF CommitCycle
<1>9. QED  BY <1>5, <1>6, <1>7, <1>8

\* TypeOK is inductive.
LEMMA NextTypeCorrect == TypeOK /\ [AnyNext]_vars => TypeOK'
<1> SUFFICES ASSUME TypeOK, [AnyNext]_vars  PROVE  TypeOK'
  OBVIOUS
<1>1. CASE AnyNext
  <2>1. PICK F \in AnyCompletions : Cycle(F)  BY <1>1 DEF AnyNext
  <2>2. F \in SUBSET FlagsUOp  BY CompletionsType
  <2>3. RATTypeOK' /\ TBTypeOK' /\ RNTypeOK' /\ ROBTypeOK'
    BY <2>1, <2>2, CoreCycleType DEF Cycle
  <2>4. backend' \in [RobIdxs -> BackendUOp]  BY <2>1, <2>2, BackendStepType DEF Cycle
  <2>5. branch' \in BranchProv /\ intRes' \subseteq SqNs /\ memRes' \subseteq SqNs
    BY <2>1, <2>2, RedirectStepType DEF Cycle
  <2> QED  BY <2>3, <2>4, <2>5 DEF TypeOK
<1>2. CASE UNCHANGED vars
  BY <1>2 DEF vars, ratVars, tbVars, rnVars, robVars, TypeOK, RATTypeOK, TBTypeOK, RNTypeOK,
              ROBTypeOK
<1>3. QED  BY <1>1, <1>2

\* Every signal stays in its range whatever the size of the machine; in
\* particular rename never passes on a tag it does not hold, and no redirect
\* selects a branch that is not there.
THEOREM TypeCorrect == Spec => []TypeOK
  BY InitType, NextTypeCorrect, NextIsAny, PTL DEF Spec

-----------------------------------------------------------------------------
(***************************************************************************)
(* The reorder buffer never overflows and no redirect reaches outside it   *)
(* (Window), for every size of the machine.                                *)
(*                                                                         *)
(* The argument is about positions, distances from baseIndex.  Rename has  *)
(* handed over the numbers right after lastIndex; a redirect names a uop   *)
(* that is waiting, so that it has not been committed, and that the        *)
(* redirect before it has not squashed.  From that follow that the redirect*)
(* taken covers all that were raised (RedirectCovers), and that no branch  *)
(* executes as mispredicted without one (MispredictResolved).              *)
(***************************************************************************)

Pos(s) == Diff(s, baseIndex)

\* The uops rename has handed over are numbered without a gap from lastIndex on.
RenamedInOrder ==
  \E m \in 0 .. Width :
    /\ \A i \in Port : /\ rnUOp[i].valid <=> i < m
                       /\ i < m => Pos(rnUOp[i].sqN) = Pos(lastIndex) + i
    /\ Pos(counterSqN) = Pos(lastIndex) + m

\* Only the integer units find mispredicted branches, also in the cycle in which
\* the branch writes back.
BranchesAreInt ==
  /\ \A i \in Port : rnUOp[i].mispred => rnUOp[i].fu = "INT"
  /\ \A k \in RobIdxs : backend[k].mispred => backend[k].fu = "INT"
  /\ \A s \in intRes : Unit(s).fu = "INT"

\* The redirect being distributed keeps what was committed.
BranchInWindow ==
  /\ branch.taken => -1 <= Pos(branch.sqN) /\ Pos(branch.sqN) < Pos(lastIndex)
  /\ branch.flush => baseIndex = Plus(branch.sqN, 1)

\* What the ROB remembers of a trap and of a replay.
RecoveryState ==
  /\ trapUOp.valid => stop /\ baseIndex = Plus(trapUOp.sqN, 1)
  /\ misprReplay_r.valid => mispredFlush

\* The inductive invariant.
WindowInv ==
  /\ TypeOK
  /\ 0 <= Pos(lastIndex)
  /\ RenamedInOrder
  /\ BranchesAreInt
  /\ BranchInWindow
  /\ RecoveryState

-----------------------------------------------------------------------------
(* Positions. *)

\* What the type invariant says about sequence numbers.
LEMMA SqNState ==
  ASSUME TypeOK
  PROVE  /\ baseIndex \in SqNs /\ lastIndex \in SqNs /\ counterSqN \in SqNs
         /\ branch.sqN \in SqNs /\ trapUOp.sqN \in SqNs
         /\ \A i \in Port : rnUOp[i].sqN \in SqNs
         /\ branch.taken \in BOOLEAN /\ trapUOp.valid \in BOOLEAN
<1>1. branch \in BranchProv /\ trapUOp \in Trap_UOp  BY DEF TypeOK, ROBTypeOK
<1>2. \A i \in Port : rnUOp[i] \in R_UOp  BY DEF TypeOK, RNTypeOK
<1>3. QED  BY <1>1, <1>2 DEF TypeOK, ROBTypeOK, RNTypeOK, BranchProv, Trap_UOp, R_UOp

\* Positions are small integers.
LEMMA PosType ==
  ASSUME TypeOK, NEW s \in SqNs
  PROVE  Pos(s) \in Int /\ - ROBSize <= Pos(s) /\ Pos(s) < ROBSize
  BY SqNState, DiffType DEF Pos

\* The ports of a cycle that are in use are a prefix of all ports.
LEMMA PrefixCard ==
  ASSUME NEW S, S \subseteq Port,
         \A i, j \in Port : i < j /\ j \in S => i \in S
  PROVE  \A i \in Port : i \in S <=> i < Cardinality(S)
<1> DEFINE T == {i \in Nat : i \notin S}
<1>1. Width \in T  BY WidthType, SMT DEF Port
<1>2. PICK x \in T : \A y \in T : x <= y  BY <1>1, LeastNat
<1>3. x \in Nat /\ x <= Width  BY <1>1, <1>2
<1>4. ASSUME NEW i \in Port
      PROVE  i \in S <=> i < x
  <2>1. i \in Nat /\ i < Width  BY WidthType, SMT DEF Port
  <2>2. CASE i < x
    <3>1. i \notin T  BY <1>2, <1>3, <2>1, <2>2, SMT
    <3> QED  BY <2>1, <2>2, <3>1
  <2>3. CASE i = x
    BY <1>2, <1>3, <2>3, SMT
  <2>4. CASE x < i
    <3>1. x \in Port  BY <1>3, <2>1, <2>4, WidthType, SMT DEF Port
    <3>2. x \notin S  BY <1>2
    <3>3. i \notin S  BY <2>4, <3>1, <3>2
    <3> QED  BY <1>3, <2>1, <2>4, <3>3, SMT
  <2> QED  BY <1>3, <2>1, <2>2, <2>3, <2>4, SMT
<1> HIDE DEF T
<1>5. S = 0 .. x - 1
  <2>1. ASSUME NEW i \in S  PROVE i \in 0 .. x - 1
    <3>1. i \in Port /\ i < x  BY <1>4
    <3> QED  BY <1>3, <3>1, WidthType, SMT DEF Port
  <2>2. ASSUME NEW i \in 0 .. x - 1  PROVE i \in S
    <3>1. i \in Port /\ i < x  BY <1>3, WidthType, SMT DEF Port
    <3> QED  BY <1>4, <3>1
  <2> QED  BY <2>1, <2>2
<1>6. Cardinality(S) = x
  <2>1. 0 \in Int /\ x - 1 \in Int /\ (0 > x - 1 => x = 0) /\ x - 1 - 0 + 1 = x
    BY <1>3, SMT
  <2> QED  BY <1>5, <2>1, FS_Interval
<1>7. QED  BY <1>4, <1>6

-----------------------------------------------------------------------------
(* Rename. *)

\* Decode fills the ports from 0 on.
LEMMA DecodedPrefix ==
  ASSUME NEW uop \in DecodedUOps(DUOps), NEW n, n = Cardinality({i \in Port : Decoded(uop, i)})
  PROVE  /\ n \in 0 .. Width
         /\ \A i \in Port : Decoded(uop, i) <=> i < n
<1> DEFINE S == {i \in Port : Decoded(uop, i)}
<1>1. \A i, j \in Port : i < j /\ j \in S => i \in S
  BY DEF DecodedUOps, Decoded
<1>2. S \subseteq Port  OBVIOUS
<1>3. \A i \in Port : i \in S <=> i < Cardinality(S)
  <2> HIDE DEF S
  <2> QED  BY <1>1, <1>2, PrefixCard
<1>4. Cardinality(S) \in Nat /\ Cardinality(S) <= Width  BY <1>2, PortCard
<1>5. n \in 0 .. Width  BY <1>4, WidthType, SMT
<1>6. QED  BY <1>3, <1>5

\* After a cycle of rename its uops are numbered from the old counter on, and the
\* buffer has room for them (SQN_STALL of Core.sv).
NumbersFrom(start) ==
  \E m \in 0 .. Width :
    /\ \A i \in Port : /\ rnUOp'[i].valid <=> i < m
                       /\ i < m => Pos(rnUOp'[i].sqN) = Pos(start) + i
    /\ Pos(counterSqN') = Pos(start) + m


\* Without SQN_STALL the numbers of one more cycle fit.
LEMMA RoomForACycle ==
  ASSUME TypeOK, 0 <= Pos(counterSqN), ~SqNStall
  PROVE  Pos(counterSqN) + Width < ROBSize
<1>1. baseIndex \in SqNs /\ counterSqN \in SqNs  BY SqNState
<1>2. ROBSize - 1 \in Nat /\ ROBSize - 1 < ROBSize /\ ROBSize - 1 <= Ring
  BY RingType, SMT
<1>3. Diff(baseIndex, baseIndex) = 0  BY <1>1, PlusMinusOne
<1>4. OUT_maxSqN \in SqNs  BY <1>1, <1>2, PlusType DEF OUT_maxSqN
<1>5. Pos(OUT_maxSqN) = ROBSize - 1
  <2>1. Diff(baseIndex, baseIndex) + (ROBSize - 1) < ROBSize  BY <1>2, <1>3, SMT
  <2>2. Diff(Plus(baseIndex, ROBSize - 1), baseIndex) = Diff(baseIndex, baseIndex) + (ROBSize - 1)
    BY <1>1, <1>2, <2>1, DiffPlus
  <2> QED  BY <1>2, <1>3, <2>2, SMT DEF Pos, OUT_maxSqN
<1>6. 0 <= Diff(counterSqN, baseIndex) /\ 0 <= Diff(OUT_maxSqN, baseIndex)
  BY <1>2, <1>5, SMT DEF Pos
<1>7. Diff(counterSqN, OUT_maxSqN) = Pos(counterSqN) - Pos(OUT_maxSqN)
  BY <1>1, <1>4, <1>6, DiffByDistance DEF Pos
<1>8. ~(Diff(counterSqN, OUT_maxSqN) > - Width)  BY DEF SqNStall
<1>9. QED  BY <1>1, <1>5, <1>7, <1>8, PosType, WidthType, RingType, SMT

\* A cycle in which rename takes uops.
LEMMA AcceptNumbers ==
  ASSUME TypeOK, 0 <= Pos(counterSqN), ~SqNStall,
         NEW uop \in DecodedUOps(DUOps), NEW F, RNAccept(mispredFlush, uop, comUOp, F)
  PROVE  NumbersFrom(counterSqN)
<1> DEFINE n == Cardinality({i \in Port : Decoded(uop, i)})
<1>1. n \in 0 .. Width /\ \A i \in Port : Decoded(uop, i) <=> i < n  BY DecodedPrefix
<1>2. rnUOp' = [i \in Port |-> IF Decoded(uop, i) THEN Renamed(uop, i, WrittenBack(F))
                               ELSE NoRUOp]
      /\ counterSqN' = Plus(counterSqN, n)
  BY DEF RNAccept
<1>3. counterSqN \in SqNs /\ baseIndex \in SqNs  BY SqNState
<1>4. ASSUME NEW k \in 0 .. Width
      PROVE  Pos(Plus(counterSqN, k)) = Pos(counterSqN) + k
  <2>1. k \in Nat /\ k < ROBSize  BY WidthType, RingType, SMT
  <2>2. Diff(counterSqN, baseIndex) + k < ROBSize
    BY <1>3, <2>1, RoomForACycle, PosType, WidthType, RingType, SMT DEF Pos
  <2> QED  BY <1>3, <2>1, <2>2, DiffPlus DEF Pos
<1> HIDE DEF n
<1>5. ASSUME NEW i \in Port
      PROVE  /\ rnUOp'[i].valid <=> i < n
             /\ i < n => Pos(rnUOp'[i].sqN) = Pos(counterSqN) + i
  <2>1. i \in 0 .. Width  BY WidthType, SMT DEF Port
  <2>2. CASE i < n
    <3>1. rnUOp'[i] = Renamed(uop, i, WrittenBack(F))  BY <1>1, <1>2, <2>2
    <3>2. rnUOp'[i].valid = TRUE /\ rnUOp'[i].sqN = Plus(counterSqN, i)
      BY <3>1 DEF Renamed
    <3> QED  BY <1>4, <2>1, <2>2, <3>2
  <2>3. CASE ~(i < n)
    <3>1. rnUOp'[i] = NoRUOp  BY <1>1, <1>2, <2>3
    <3> QED  BY <2>3, <3>1 DEF NoRUOp
  <2> QED  BY <2>2, <2>3
<1>6. QED  BY <1>1, <1>2, <1>4, <1>5 DEF NumbersFrom

\* A cycle in which rename hands over nothing.
LEMMA NoNumbers ==
  ASSUME TypeOK, rnUOp' = [i \in Port |-> NoRUOp], NEW start \in SqNs,
         Pos(counterSqN') = Pos(start)
  PROVE  NumbersFrom(start)
<1>1. 0 \in 0 .. Width /\ \A i \in Port : ~(i < 0)  BY WidthType, SMT DEF Port
<1>2. \A i \in Port : rnUOp'[i].valid = FALSE  BY DEF NoRUOp
<1>3. Pos(counterSqN') = Pos(start) + 0  BY PosType, SMT
<1>4. QED  BY <1>1, <1>2, <1>3 DEF NumbersFrom

\* Rename in a cycle without a redirect.
LEMMA RenameNumbers ==
  ASSUME TypeOK, 0 <= Pos(counterSqN), NEW F,
         RenameStep(F) \/ RNIdle(mispredFlush, comUOp, F)
  PROVE  NumbersFrom(counterSqN)
<1>1. CASE RNIdle(mispredFlush, comUOp, F)
  <2>1. counterSqN \in SqNs  BY SqNState
  <2> QED  BY <1>1, <2>1, NoNumbers DEF RNIdle
<1>2. CASE FrontendEn /\ \E uop \in DecodedUOps(DUOps) :
             Decoded(uop, 0) /\ RNAccept(mispredFlush, uop, comUOp, F)
  BY <1>2, AcceptNumbers DEF FrontendEn
<1>3. QED  BY <1>1, <1>2 DEF RenameStep

-----------------------------------------------------------------------------
(* The reorder buffer. *)

\* The counter of rename is not older than the end of the buffer.
LEMMA CounterPos ==
  ASSUME TypeOK, 0 <= Pos(lastIndex), RenamedInOrder
  PROVE  0 <= Pos(counterSqN) /\ Pos(lastIndex) <= Pos(counterSqN)
<1>1. PICK m \in 0 .. Width : Pos(counterSqN) = Pos(lastIndex) + m  BY DEF RenamedInOrder
<1>2. m \in Nat  BY WidthType, SMT
<1>3. QED  BY <1>1, <1>2, SqNState, PosType, SMT

\* What rename has handed over is in the buffer after the next clock edge.
LEMMA EnqueuedLast ==
  ASSUME TypeOK, 0 <= Pos(lastIndex), RenamedInOrder, ~branch.taken,
         NEW F, EnqueueStep(rnUOp, F, branch)
  PROVE  Pos(lastIndex') = Pos(counterSqN)
<1>1. PICK m \in 0 .. Width :
        /\ \A i \in Port : /\ rnUOp[i].valid <=> i < m
                           /\ i < m => Pos(rnUOp[i].sqN) = Pos(lastIndex) + i
        /\ Pos(counterSqN) = Pos(lastIndex) + m
  BY DEF RenamedInOrder
<1>2. m \in Nat /\ m <= Width  BY WidthType, SMT
<1>3. lastIndex \in SqNs /\ baseIndex \in SqNs /\ counterSqN \in SqNs  BY SqNState
<1>4. CASE m = 0
  <2>1. ~ \E i \in Port : rnUOp[i].valid  BY <1>1, <1>4, WidthType, SMT DEF Port
  <2>2. lastIndex' = lastIndex  BY <2>1 DEF EnqueueStep
  <2> QED  BY <1>1, <1>3, <1>4, <2>2, PosType, SMT
<1>5. CASE m # 0
  <2> DEFINE top(i) == rnUOp[i].valid /\ \A j \in Port : j > i => ~rnUOp[j].valid
  <2>1. m - 1 \in Port /\ m - 1 < m  BY <1>2, <1>5, WidthType, SMT DEF Port
  <2>2. top(m - 1)
    <3>1. \A j \in Port : j > m - 1 => ~(j < m)  BY <1>2, WidthType, SMT DEF Port
    <3> QED  BY <1>1, <2>1, <3>1
  <2>3. ASSUME NEW i \in Port, top(i)
        PROVE  i = m - 1
    <3>1. i < m /\ (m - 1 > i => ~(m - 1 < m))  BY <1>1, <2>1, <2>3
    <3> QED  BY <1>2, <2>1, <3>1, WidthType, SMT DEF Port
  <2>4. (CHOOSE i \in Port : top(i)) = m - 1  BY <2>1, <2>2, <2>3
  <2>5. lastIndex' = Plus(rnUOp[m - 1].sqN, 1)
    <3>1. \E i \in Port : rnUOp[i].valid  BY <2>1, <2>2
    <3>2. lastIndex' = Plus(rnUOp[CHOOSE i \in Port : top(i)].sqN, 1)  BY <3>1 DEF EnqueueStep
    <3> HIDE DEF top
    <3> QED  BY <2>4, <3>2
  <2>6. rnUOp[m - 1].sqN \in SqNs  BY <2>1, SqNState
  <2>7. Pos(rnUOp[m - 1].sqN) = Pos(lastIndex) + (m - 1)  BY <1>1, <2>1
  <2>8. Diff(rnUOp[m - 1].sqN, baseIndex) + 1 < ROBSize
    BY <1>1, <1>2, <1>3, <2>7, PosType, RingType, SMT DEF Pos
  <2>9. Pos(lastIndex') = Pos(rnUOp[m - 1].sqN) + 1
    BY <1>3, <2>5, <2>6, <2>8, DiffPlus, RingType DEF Pos
  <2> QED  BY <1>1, <1>2, <1>3, <2>7, <2>9, PosType, SMT
<1>6. QED  BY <1>4, <1>5


\* Commit takes uops that are in the buffer and have executed; only a uop that has
\* timed out leaves without, and then alone (ROB.sv).
LEMMA CommitsExecuted ==
  ASSUME TypeOK, 0 <= Pos(lastIndex), NEW n \in 0 .. Width, NEW hang \in BOOLEAN,
         Commits(n, hang)
  PROVE  /\ n <= Pos(lastIndex)
         /\ \A s \in SqNs : Waiting(s) /\ Pos(s) < n => Pos(s) = 0 /\ n = 1 /\ hang
<1>1. n \in Nat /\ n <= Width  BY WidthType, SMT
<1>2. Pos(lastIndex) \in Int  BY SqNState, PosType
<1>3. \A i \in Port : i < n => MayCommit(i, hang)  BY DEF Commits
<1>4. n <= Pos(lastIndex)
  <2>1. CASE n = 0
    BY <1>2, <2>1, SMT
  <2>2. CASE n # 0
    <3>1. n - 1 \in Port /\ n - 1 < n  BY <1>1, <2>2, WidthType, SMT DEF Port
    <3>2. n - 1 < Pos(lastIndex)  BY <1>3, <3>1 DEF MayCommit, Pos
    <3> QED  BY <1>1, <1>2, <3>2, SMT
  <2> QED  BY <2>1, <2>2
<1>5. ASSUME NEW s \in SqNs, Waiting(s), Pos(s) < n
      PROVE  Pos(s) = 0 /\ n = 1 /\ hang
  <2>1. 0 <= Pos(s) /\ flags[RobIdx(s)] = "NX"  BY <1>5 DEF Waiting, InROB, Pos
  <2>2. Pos(s) \in Port
    <3>1. Pos(s) \in Int  BY PosType
    <3> QED  BY <1>1, <1>5, <2>1, <3>1, WidthType, SMT DEF Port
  <2>3. Plus(baseIndex, Pos(s)) = s  BY <2>1, SqNState, PlusDiff DEF Pos
  <2>4. Deq(Pos(s)) = RobIdx(s)  BY <2>3 DEF Deq
  <2>5. MayCommit(Pos(s), hang)  BY <1>3, <1>5, <2>2
  <2>6. TimedOut(Pos(s), hang)  BY <2>1, <2>4, <2>5 DEF MayCommit
  <2>7. Pos(s) = 0 /\ hang  BY <2>6 DEF TimedOut
  <2>8. ~(1 < n)
    <3>1. SendsTrap(0, hang)  BY <2>6, <2>7 DEF SendsTrap
    <3>2. 0 \in Port /\ 0 + 1 = 1  BY WidthType, SMT DEF Port
    <3>3. 0 + 1 < n => ~SendsTrap(0, hang)  BY <3>2 DEF Commits
    <3> QED  BY <3>1, <3>2, <3>3
  <2> QED  BY <1>1, <1>5, <2>7, <2>8, SMT
<1>6. QED  BY <1>4, <1>5

\* How far the front of the buffer moves in a cycle.
Advances(n) ==
  /\ baseIndex' = Plus(baseIndex, n)
  /\ n <= Pos(lastIndex)
  /\ branch.taken \/ trapUOp.valid => n = 0
  /\ \A s \in SqNs : Waiting(s) /\ Pos(s) < n => Pos(s) = 0 /\ n = 1 /\ AllowTimeout

\* A cycle that commits nothing.
LEMMA AdvancesNone ==
  ASSUME TypeOK, 0 <= Pos(lastIndex), baseIndex' = baseIndex
  PROVE  0 \in 0 .. Width /\ Advances(0)
<1>1. baseIndex \in SqNs  BY SqNState
<1>2. Plus(baseIndex, 0) = baseIndex  BY <1>1, RingType, SMT DEF Plus, SqNs
<1>3. \A s \in SqNs : Waiting(s) => ~(Pos(s) < 0)
  <2> SUFFICES ASSUME NEW s \in SqNs, Waiting(s)
               PROVE  ~(Pos(s) < 0)
    OBVIOUS
  <2>1. 0 <= Pos(s)  BY DEF Waiting, InROB, Pos
  <2> QED  BY <2>1, PosType, SMT
<1>4. QED  BY <1>2, <1>3, WidthType, SMT DEF Advances

\* Every cycle moves the front of the buffer over executed uops only.
LEMMA BaseStep ==
  ASSUME WindowInv, NEW F,
         RedirectCycle(F) \/ ReplayCycle(F) \/ TrapCycle(F) \/ CommitCycle(F)
  PROVE  \E n \in 0 .. Width : Advances(n)
<1> USE DEF WindowInv
<1>1. CASE RedirectCycle(F) \/ ReplayCycle(F)
  <2>1. baseIndex' = baseIndex
    BY <1>1 DEF RedirectCycle, ReplayCycle, ROBReplay, ReplayStep
  <2> QED  BY <2>1, AdvancesNone
<1>2. CASE TrapCycle(F)
  <2>1. baseIndex' = Plus(baseIndex, 0)  BY <1>2 DEF TrapCycle, ROBStop, CommitStep
  <2>2. Plus(baseIndex, 0) = baseIndex  BY SqNState, RingType, SMT DEF Plus, SqNs
  <2> QED  BY <2>1, <2>2, AdvancesNone
<1>3. CASE CommitCycle(F)
  <2>1. PICK n \in 0 .. Width, hang \in {FALSE, AllowTimeout} :
          ROBCommit(branch, rnUOp, F, n, hang)
    BY <1>3 DEF CommitCycle
  <2>2. hang \in BOOLEAN /\ (hang => AllowTimeout)
    <3>1. hang = FALSE \/ hang = AllowTimeout  OBVIOUS
    <3>2. AllowTimeout \in BOOLEAN  BY RenameCommitAssumption
    <3>3. hang \in BOOLEAN  BY <3>2
    <3>4. hang => AllowTimeout
      <4>1. CASE hang = FALSE
        BY <4>1, Zenon
      <4>2. CASE hang = AllowTimeout
        BY <4>2, Zenon
      <4> QED  BY <3>1, <4>1, <4>2
    <3> QED  BY <3>3, <3>4
  <2>3. Commits(n, hang) /\ baseIndex' = Plus(baseIndex, n) /\ ~stop
    BY <2>1 DEF ROBCommit, CommitStep
  <2>4. ~branch.taken /\ ~trapUOp.valid
    BY <1>3, <2>3 DEF CommitCycle, RecoveryState
  <2>5. /\ n <= Pos(lastIndex)
        /\ \A s \in SqNs : Waiting(s) /\ Pos(s) < n => Pos(s) = 0 /\ n = 1 /\ hang
    BY <2>2, <2>3, CommitsExecuted
  <2>6. Advances(n)  BY <2>2, <2>3, <2>4, <2>5 DEF Advances
  <2> QED  BY <2>6
<1>4. QED  BY <1>1, <1>2, <1>3

\* The end of the buffer and the numbers rename hands over next, in every cycle.
LEMMA LastStep ==
  ASSUME WindowInv, NEW F \in SUBSET FlagsUOp,
         RedirectCycle(F) \/ ReplayCycle(F) \/ TrapCycle(F) \/ CommitCycle(F)
  PROVE  /\ lastIndex' \in SqNs
         /\ branch.taken => Pos(lastIndex') = Pos(branch.sqN) + 1
         /\ ~branch.taken => Pos(lastIndex') = Pos(counterSqN)
         /\ NumbersFrom(lastIndex')
<1> USE DEF WindowInv
<1>1. CASE RedirectCycle(F)
  <2>1. branch.taken /\ RNRedirect(branch, mispredFlush, comUOp, F)
        /\ EnqueueStep(rnUOp, F, branch)
    BY <1>1 DEF RedirectCycle, ROBReplay
  <2>2. lastIndex' = Plus(branch.sqN, 1)  BY <2>1 DEF EnqueueStep
  <2>3. lastIndex' \in SqNs  BY <2>2, SqNState, NextType
  <2>4. rnUOp' = [i \in Port |-> NoRUOp] /\ counterSqN' = lastIndex'
    BY <2>1, <2>2 DEF RNRedirect
  <2>5. NumbersFrom(lastIndex')  BY <2>3, <2>4, NoNumbers
  <2>6. Pos(lastIndex') = Pos(branch.sqN) + 1
    <3>1. Pos(branch.sqN) < Pos(lastIndex)  BY <2>1 DEF BranchInWindow
    <3>2. Diff(branch.sqN, baseIndex) + 1 < ROBSize
      BY <3>1, SqNState, PosType, RingType, SMT DEF Pos
    <3> QED  BY <2>2, <3>2, SqNState, DiffPlus, RingType DEF Pos
  <2> QED  BY <2>1, <2>3, <2>5, <2>6
<1>2. CASE ReplayCycle(F) \/ TrapCycle(F) \/ CommitCycle(F)
  <2>1. /\ ~branch.taken /\ EnqueueStep(rnUOp, F, branch)
        /\ RenameStep(F) \/ RNIdle(mispredFlush, comUOp, F)
    BY <1>2 DEF ReplayCycle, TrapCycle, CommitCycle, ROBReplay, ROBStop, ROBCommit
  <2>2. 0 <= Pos(counterSqN)  BY CounterPos
  <2>3. NumbersFrom(counterSqN)  BY <2>1, <2>2, RenameNumbers
  <2>4. Pos(lastIndex') = Pos(counterSqN)  BY <2>1, EnqueuedLast
  <2>5. lastIndex' \in SqNs
    <3>1. ROBTypeOK /\ RNTypeOK /\ branch \in BranchProv  BY DEF TypeOK
    <3> QED  BY <2>1, <3>1, EnqueueStepType
  <2>6. NumbersFrom(lastIndex')  BY <2>3, <2>4 DEF NumbersFrom
  <2> QED  BY <2>1, <2>4, <2>5, <2>6
<1>3. QED  BY <1>1, <1>2


\* Positions relative to the front of the buffer after the cycle.
LEMMA PosShift ==
  ASSUME TypeOK, NEW n \in 0 .. Width, Advances(n), NEW s \in SqNs, n - 1 <= Pos(s)
  PROVE  Diff(s, baseIndex') = Pos(s) - n
<1>1. n \in Nat /\ n < ROBSize  BY WidthType, RingType, SMT
<1>2. baseIndex \in SqNs  BY SqNState
<1>3. Diff(s, baseIndex) \in Int /\ - ROBSize <= Diff(s, baseIndex) - n
  BY <1>1, PosType, RingType, SMT DEF Pos
<1>4. Diff(s, Plus(baseIndex, n)) = Diff(s, baseIndex) - n  BY <1>1, <1>2, <1>3, DiffAdvance
<1>5. QED  BY <1>4 DEF Advances, Pos

\* Where the buffer ends after the cycle.
LastIs(last) ==
  /\ last \in SqNs
  /\ branch.taken => Pos(last) = Pos(branch.sqN) + 1
  /\ ~branch.taken => Pos(last) = Pos(counterSqN)

\* The buffer never shrinks below its front.
LEMMA LastAfter ==
  ASSUME WindowInv, NEW n \in 0 .. Width, Advances(n), NEW last, LastIs(last)
  PROVE  n <= Pos(last)
<1> USE DEF WindowInv
<1>1. n \in Int /\ Pos(lastIndex) \in Int /\ Pos(counterSqN) \in Int /\ Pos(branch.sqN) \in Int
  BY SqNState, PosType, WidthType, SMT
<1>2. CASE branch.taken
  <2>1. n = 0 /\ -1 <= Pos(branch.sqN)  BY <1>2 DEF Advances, BranchInWindow
  <2> QED  BY <1>1, <1>2, <2>1, SMT DEF LastIs
<1>3. CASE ~branch.taken
  <2>1. n <= Pos(lastIndex) /\ Pos(lastIndex) <= Pos(counterSqN)
    BY CounterPos DEF Advances
  <2> QED  BY <1>1, <1>3, <2>1, SMT DEF LastIs
<1>4. QED  BY <1>2, <1>3

\* A uop that is waiting and not being squashed stays in the buffer, or it has just
\* been timed out.
LEMMA WaitingStays ==
  ASSUME WindowInv, NEW n \in 0 .. Width, Advances(n), NEW last, LastIs(last),
         NEW s \in SqNs, Waiting(s), ~Squashed(s, branch)
  PROVE  /\ n - 1 <= Pos(s) /\ Pos(s) < Pos(last)
         /\ ~AllowTimeout => n <= Pos(s)
<1> USE DEF WindowInv
<1>1. n \in Int /\ Pos(lastIndex) \in Int /\ Pos(counterSqN) \in Int /\ Pos(branch.sqN) \in Int
      /\ Pos(s) \in Int /\ Pos(last) \in Int
  BY SqNState, PosType, WidthType, SMT DEF LastIs
<1>2. 0 <= Pos(s) /\ Pos(s) < Pos(lastIndex)  BY DEF Waiting, InROB, Pos
<1>3. Pos(s) < n => Pos(s) = 0 /\ n = 1 /\ AllowTimeout  BY DEF Advances
<1>4. n - 1 <= Pos(s)  BY <1>1, <1>2, <1>3, SMT
<1>5. ~AllowTimeout => n <= Pos(s)
  <2>1. ~AllowTimeout => ~(Pos(s) < n)  BY <1>3
  <2>2. ~(Pos(s) < n) => n <= Pos(s)  BY <1>1, SMT
  <2> QED  BY <2>1, <2>2
<1>6. Pos(s) < Pos(last)
  <2>1. CASE branch.taken
    <3>1. ~(Diff(s, branch.sqN) > 0)  BY <2>1 DEF Squashed
    <3>2. -1 <= Pos(branch.sqN)  BY <2>1 DEF BranchInWindow
    <3>3. /\ - ROBSize <= Diff(s, baseIndex) - Diff(branch.sqN, baseIndex)
          /\ Diff(s, baseIndex) - Diff(branch.sqN, baseIndex) <= ROBSize
      BY <1>1, <1>2, <3>2, SqNState, PosType, RingType, SMT DEF Pos
    <3>4. Pos(s) < Pos(lastIndex) /\ Pos(lastIndex) < ROBSize  BY <1>2, SqNState, PosType
    <3>5. Diff(s, baseIndex) - Diff(branch.sqN, baseIndex) < ROBSize
      BY <1>1, <3>2, <3>4, RingType, SMT DEF Pos
    <3>6. Diff(s, branch.sqN) = Pos(s) - Pos(branch.sqN)
      BY <3>3, <3>5, SqNState, DiffChain DEF Pos
    <3> QED  BY <1>1, <2>1, <3>1, <3>6, SMT DEF LastIs
  <2>2. CASE ~branch.taken
    <3>1. Pos(lastIndex) <= Pos(counterSqN)  BY CounterPos
    <3> QED  BY <1>1, <1>2, <2>2, <3>1, SMT DEF LastIs
  <2> QED  BY <2>1, <2>2
<1>7. QED  BY <1>4, <1>5, <1>6

-----------------------------------------------------------------------------
(* Redirects. *)

\* The uop of a redirect of the load buffer executes in this cycle.
LEMMA MemCandidateExecutes ==
  ASSUME WindowInv, NEW F \in AnyCompletions, NEW s \in MemCandidates(F)
  PROVE  /\ s \in SqNs /\ MayExecute(s) /\ ~Squashed(s, branch)
         /\ Unit(s).fu = "SC" => Outcome["SC"] # {}
<1>1. PICK u \in F : /\ u.sqN = s /\ ~Squashed(s, branch)
                     /\ Unit(s).fu \in {"SC", "STORE", "ATOMIC"}
  BY DEF MemCandidates
<1>2. \A t \in intRes : t \in SqNs  BY DEF WindowInv, TypeOK
<1>3. ASSUME NEW t \in SqNs, t \in intRes \/ Unit(t).mispred
      PROVE  u # BranchReport(t)
  <2> SUFFICES ASSUME u = BranchReport(t)  PROVE FALSE
    OBVIOUS
  <2>1. t = s  BY <1>1 DEF BranchReport
  <2>2. Unit(t).fu = "INT"  BY <1>3, RobIdxType DEF WindowInv, BranchesAreInt, Unit
  <2> QED  BY <1>1, <2>1, <2>2
<1>4. PICK t \in SqNs : u \in Reports(t)  BY <1>1, <1>2, <1>3, ReportSource
<1>5. u.sqN = t  BY <1>4 DEF Reports
<1>6. MayExecute(t)  BY <1>4 DEF Reports
<1>7. Unit(t).fu = "SC" => Outcome["SC"] # {}
  <2> SUFFICES ASSUME Unit(t).fu = "SC", Outcome["SC"] = {}
               PROVE  FALSE
    OBVIOUS
  <2>1. Reports(t) = {}  BY DEF Reports
  <2> QED  BY <1>4, <2>1
<1>8. QED  BY <1>1, <1>4, <1>5, <1>6, <1>7

\* A uop whose redirect is sent stays in the buffer or is the last one committed.
LEMMA RedirectOfWaiting ==
  ASSUME WindowInv, NEW n \in 0 .. Width, Advances(n), NEW last, LastIs(last),
         NEW s \in SqNs, Waiting(s), ~Squashed(s, branch)
  PROVE  -1 <= Diff(s, baseIndex') /\ Diff(s, baseIndex') < Diff(last, baseIndex')
<1> USE DEF WindowInv
<1>1. n - 1 <= Pos(s) /\ Pos(s) < Pos(last)  BY WaitingStays
<1>2. last \in SqNs /\ n - 1 <= Pos(last)
  <2>1. n \in Int /\ last \in SqNs  BY WidthType, SMT DEF LastIs
  <2> QED  BY <2>1, <1>1, PosType, SMT
<1>3. Diff(s, baseIndex') = Pos(s) - n /\ Diff(last, baseIndex') = Pos(last) - n
  BY <1>1, <1>2, PosShift
<1>4. n \in Int /\ Pos(s) \in Int /\ Pos(last) \in Int  BY <1>2, PosType, WidthType, SMT
<1>5. QED  BY <1>1, <1>3, <1>4, SMT


\* A store-conditional and the hang detection cannot hit the same uop in one cycle.
ScNeverTimesOut == AllowTimeout => Outcome["SC"] = {}

\* The redirect the load buffer sends.
LEMMA MemBranchInWindow ==
  ASSUME ScNeverTimesOut, WindowInv, NEW n \in 0 .. Width, Advances(n),
         NEW last, LastIs(last), NEW F \in AnyCompletions, NEW s \in MemCandidates(F)
  PROVE  LET d == Diff(MemBranch(s).sqN, baseIndex')
         IN  -1 <= d /\ d < Diff(last, baseIndex')
<1> USE DEF WindowInv
<1>1. /\ s \in SqNs /\ Waiting(s) /\ MayExecute(s) /\ ~Squashed(s, branch)
      /\ Unit(s).fu = "SC" => Outcome["SC"] # {}
  BY MemCandidateExecutes DEF MayExecute
<1>2. CASE Unit(s).fu # "SC"
  <2>1. MemBranch(s).sqN = s  BY <1>2 DEF MemBranch
  <2> QED  BY <1>1, <2>1, RedirectOfWaiting
<1>3. CASE Unit(s).fu = "SC"
  <2>1. ~AllowTimeout  BY <1>1, <1>3 DEF ScNeverTimesOut
  <2>2. s = baseIndex  BY <1>1, <1>3 DEF MayExecute
  <2>3. Pos(s) = 0  BY <1>1, <2>2, PlusMinusOne DEF Pos
  <2>4. n = 0
    <3>1. n <= Pos(s)  BY <1>1, <2>1, WaitingStays
    <3> QED  BY <2>3, <3>1, WidthType, SMT
  <2>5. MemBranch(s).sqN = Minus(s, 1)  BY <1>3 DEF MemBranch
  <2>6. Pos(Minus(s, 1)) = -1
    <3>1. 1 \in Nat /\ 1 < ROBSize /\ - ROBSize <= Diff(s, baseIndex) - 1
      BY <2>3, RingType, SMT DEF Pos
    <3>2. Diff(Minus(s, 1), baseIndex) = Diff(s, baseIndex) - 1
      BY <1>1, <3>1, SqNState, DiffMinus
    <3> QED  BY <2>3, <3>2, SMT DEF Pos
  <2>7. Minus(s, 1) \in SqNs  BY <1>1, NextType
  <2>8. Diff(Minus(s, 1), baseIndex') = -1
    <3>1. n - 1 <= Pos(Minus(s, 1))  BY <2>4, <2>6, SMT
    <3>2. Diff(Minus(s, 1), baseIndex') = Pos(Minus(s, 1)) - n  BY <2>7, <3>1, PosShift
    <3> QED  BY <2>4, <2>6, <3>2, SMT
  <2>9. -1 < Diff(last, baseIndex')
    <3>1. -1 <= Diff(s, baseIndex') /\ Diff(s, baseIndex') < Diff(last, baseIndex')
      BY <1>1, RedirectOfWaiting
    <3>2. Diff(s, baseIndex') = 0
      <4>1. n - 1 <= Pos(s)  BY <2>3, <2>4, SMT
      <4>2. Diff(s, baseIndex') = Pos(s) - n  BY <1>1, <4>1, PosShift
      <4> QED  BY <2>3, <2>4, <4>2, SMT
    <3>3. last \in SqNs /\ n \in Int /\ n - 1 <= Pos(last)
      <4>1. last \in SqNs /\ n <= Pos(last)  BY LastAfter DEF LastIs
      <4> QED  BY <4>1, PosType, WidthType, SMT
    <3>4. Diff(last, baseIndex') = Pos(last) - n /\ Pos(last) \in Int
      BY <3>3, PosShift, PosType
    <3> QED  BY <3>1, <3>2, <3>3, <3>4, SMT
  <2> QED  BY <2>5, <2>8, <2>9
<1>4. QED  BY <1>2, <1>3

\* Whatever the redirect network selects keeps what has been committed.
LEMMA RedirectInWindow ==
  ASSUME ScNeverTimesOut, WindowInv, NEW n \in 0 .. Width, Advances(n),
         LastIs(lastIndex'), NEW F \in AnyCompletions, RedirectStep(F)
  PROVE  BranchInWindow'
<1> USE DEF WindowInv
<1> DEFINE Inside(b) == /\ -1 <= Diff(b.sqN, baseIndex')
                        /\ Diff(b.sqN, baseIndex') < Diff(lastIndex', baseIndex')
<1>1. PICK B \in SUBSET BranchCandidates, M \in {{}} \cup {{s} : s \in MemCandidates(F)} :
        branch' = SelectBranch(B, M)
  BY DEF RedirectStep
<1>2. CASE trapUOp.valid
  <2>1. branch' = TrapBranch  BY <1>1, <1>2 DEF SelectBranch
  <2>2. n = 0 /\ baseIndex = Plus(trapUOp.sqN, 1)
    BY <1>2 DEF Advances, RecoveryState
  <2>3. baseIndex' = baseIndex
    BY <2>2, SqNState, RingType, SMT DEF Advances, Plus, SqNs
  <2>4. branch'.sqN = trapUOp.sqN  BY <2>1 DEF TrapBranch
  <2>5. Diff(trapUOp.sqN, baseIndex) = -1  BY <2>2, SqNState, PlusMinusOne
  <2>6. -1 < Diff(lastIndex', baseIndex)
    <3>1. 0 <= Pos(lastIndex')  BY <2>2, LastAfter
    <3>2. Pos(lastIndex') \in Int  BY PosType DEF LastIs
    <3> QED  BY <3>1, <3>2, SMT DEF Pos
  <2> QED  BY <2>2, <2>3, <2>4, <2>5, <2>6 DEF BranchInWindow, Pos
<1>3. CASE ~trapUOp.valid /\ B # {} /\ branch' = IntBranch(Oldest(B))
  <2>1. Oldest(B) \in BranchCandidates  BY <1>3, OldestType
  <2>2. Oldest(B) \in SqNs /\ Waiting(Oldest(B)) /\ ~Squashed(Oldest(B), branch)
    BY <2>1 DEF BranchCandidates, MayExecute
  <2>3. branch'.sqN = Oldest(B) /\ branch'.flush = FALSE  BY <1>3 DEF IntBranch
  <2>4. Inside(branch')  BY <2>2, <2>3, RedirectOfWaiting
  <2> QED  BY <2>3, <2>4 DEF BranchInWindow, Pos
<1>4. CASE ~trapUOp.valid /\ \E s \in MemCandidates(F) : branch' = MemBranch(s)
  <2>1. PICK s \in MemCandidates(F) : branch' = MemBranch(s)  BY <1>4
  <2>2. branch'.flush = FALSE  BY <2>1 DEF MemBranch
  <2>3. Inside(branch')  BY <2>1, MemBranchInWindow
  <2> QED  BY <2>2, <2>3 DEF BranchInWindow, Pos
<1>5. CASE branch' = NoBranch
  <2>1. branch'.flush = FALSE /\ branch'.taken = FALSE  BY <1>5 DEF NoBranch
  <2> QED  BY <2>1 DEF BranchInWindow
<1>6. \/ trapUOp.valid
      \/ ~trapUOp.valid /\ B # {} /\ branch' = IntBranch(Oldest(B))
      \/ ~trapUOp.valid /\ \E s \in MemCandidates(F) : branch' = MemBranch(s)
      \/ branch' = NoBranch
  <2>1. M # {} => \E s \in MemCandidates(F) :
                    (CHOOSE b \in {MemBranch(t) : t \in M} : TRUE) = MemBranch(s)
    OBVIOUS
  <2> QED  BY <1>1, <2>1 DEF SelectBranch
<1>7. QED  BY <1>2, <1>3, <1>4, <1>5, <1>6


-----------------------------------------------------------------------------
(* Who may be mispredicted. *)

\* Rename passes on what decode says about branches.
LEMMA RenamedBranchesAreInt ==
  ASSUME NEW F,
         RedirectCycle(F) \/ ReplayCycle(F) \/ TrapCycle(F) \/ CommitCycle(F)
  PROVE  \A i \in Port : rnUOp'[i].mispred => rnUOp'[i].fu = "INT"
<1>1. CASE rnUOp' = [i \in Port |-> NoRUOp]
  BY <1>1 DEF NoRUOp
<1>2. CASE \E uop \in DecodedUOps(DUOps) : RNAccept(mispredFlush, uop, comUOp, F)
  <2>1. PICK uop \in DecodedUOps(DUOps) : RNAccept(mispredFlush, uop, comUOp, F)
    BY <1>2
  <2>2. rnUOp' = [i \in Port |-> IF Decoded(uop, i) THEN Renamed(uop, i, WrittenBack(F))
                                 ELSE NoRUOp]
    BY <2>1 DEF RNAccept
  <2>3. ASSUME NEW i \in Port, rnUOp'[i].mispred
        PROVE  rnUOp'[i].fu = "INT"
    <3>1. CASE Decoded(uop, i)
      <4>1. rnUOp'[i] = Renamed(uop, i, WrittenBack(F))  BY <2>2, <3>1
      <4>2. uop[i].mispred /\ rnUOp'[i].fu = IF ScFails(uop, i) THEN "RN" ELSE uop[i].fu
        BY <2>3, <4>1 DEF Renamed
      <4>3. uop[i] \in DUOps  BY <3>1 DEF DecodedUOps, Decoded
      <4>4. uop[i].fu = "INT"  BY <4>2, <4>3, RenameCommitAssumption
      <4>5. ~ScFails(uop, i)  BY <4>4 DEF ScFails
      <4> QED  BY <4>2, <4>4, <4>5
    <3>2. CASE ~Decoded(uop, i)
      BY <2>2, <2>3, <3>2 DEF NoRUOp
    <3> QED  BY <3>1, <3>2
  <2> QED  BY <2>3
<1>3. \/ rnUOp' = [i \in Port |-> NoRUOp]
      \/ \E uop \in DecodedUOps(DUOps) : RNAccept(mispredFlush, uop, comUOp, F)
  BY DEF RedirectCycle, ReplayCycle, TrapCycle, CommitCycle, RenameStep, RNRedirect, RNIdle
<1>4. QED  BY <1>1, <1>2, <1>3

\* What rename hands over does not go to an entry that is in use.
LEMMA EntryNotOverwritten ==
  ASSUME WindowInv, NEW s \in SqNs, InROB(s)
  PROVE  Enqueued(RobIdx(s), rnUOp, branch) = {}
<1> USE DEF WindowInv
<1> SUFFICES ASSUME NEW i \in Port, rnUOp[i].valid, RobIdx(rnUOp[i].sqN) = RobIdx(s)
             PROVE  FALSE
  BY DEF Enqueued
<1>1. PICK m \in 0 .. Width :
        \A j \in Port : /\ rnUOp[j].valid <=> j < m
                        /\ j < m => Pos(rnUOp[j].sqN) = Pos(lastIndex) + j
  BY DEF RenamedInOrder
<1>2. Pos(rnUOp[i].sqN) = Pos(lastIndex) + i  BY <1>1
<1>3. rnUOp[i].sqN \in SqNs /\ baseIndex \in SqNs /\ lastIndex \in SqNs  BY SqNState
<1>4. 0 <= Pos(s) /\ Pos(s) < Pos(lastIndex)  BY DEF InROB, Pos
<1>5. i \in Nat /\ Pos(lastIndex) \in Int /\ Pos(s) \in Int
  BY <1>3, PosType, WidthType, SMT DEF Port
<1>6. 0 <= Pos(rnUOp[i].sqN)  BY <1>2, <1>5, SMT
<1>7. rnUOp[i].sqN = s  BY <1>3, <1>4, <1>6, RobIdxInjective DEF Pos
<1>8. QED  BY <1>2, <1>4, <1>5, <1>7, SMT

\* The back end keeps the kind of a uop with it.
LEMMA BackendBranchesAreInt ==
  ASSUME WindowInv, NEW F \in SUBSET FlagsUOp, BackendStep(F)
  PROVE  /\ \A k \in RobIdxs : backend'[k].mispred => backend'[k].fu = "INT"
         /\ \A k \in RobIdxs : Enqueued(k, rnUOp, branch) = {} => backend'[k].fu = backend[k].fu
<1> USE DEF WindowInv
<1> DEFINE enq(k) == Enqueued(k, rnUOp, branch)
           entered(k) == Entered(rnUOp[CHOOSE i \in enq(k) : TRUE], WrittenBack(F))
<1>1. ASSUME NEW k \in RobIdxs, enq(k) # {}
      PROVE  backend'[k] = entered(k)
  BY <1>1 DEF BackendStep
<1>2. ASSUME NEW k \in RobIdxs, enq(k) = {}
      PROVE  /\ backend'[k].fu = backend[k].fu
             /\ backend'[k].mispred => backend[k].mispred
  <2> DEFINE woken == backend[k].avail \/ backend[k].tag \in WrittenBack(F)
             first == backend[k].early \/ \E u \in F : RobIdx(u.sqN) = k /\ u.doNotCommit
             wrong == backend[k].mispred
                        /\ ~ \E s \in intRes : RobIdx(s) = k /\ branch.taken /\ branch.sqN = s
                                               /\ ~branch.flush /\ ~branch.isSCFail
  <2>1. backend'[k] = [backend[k] EXCEPT !.avail = woken, !.early = first, !.mispred = wrong]
    BY <1>2 DEF BackendStep
  <2>2. backend[k] \in BackendUOp  BY DEF TypeOK
  <2>3. backend'[k].fu = backend[k].fu /\ backend'[k].mispred = wrong
    <3> HIDE DEF woken, first, wrong
    <3> QED  BY <2>1, <2>2 DEF BackendUOp
  <2>4. wrong => backend[k].mispred  OBVIOUS
  <2> HIDE DEF wrong
  <2> QED  BY <2>3, <2>4
<1>3. ASSUME NEW k \in RobIdxs, enq(k) # {}, backend'[k].mispred
      PROVE  backend'[k].fu = "INT"
  <2> DEFINE i == CHOOSE j \in enq(k) : TRUE
  <2>1. i \in Port  BY <1>3 DEF Enqueued
  <2>2. backend'[k] = Entered(rnUOp[i], WrittenBack(F))  BY <1>1, <1>3
  <2> HIDE DEF i
  <2>3. backend'[k].fu = rnUOp[i].fu  BY <2>2 DEF Entered
  <2>4. rnUOp[i].mispred  BY <1>3, <2>2 DEF Entered
  <2> QED  BY <2>1, <2>3, <2>4 DEF BranchesAreInt
<1>4. ASSUME NEW k \in RobIdxs, enq(k) = {}, backend'[k].mispred
      PROVE  backend'[k].fu = "INT"
  BY <1>2, <1>4 DEF BranchesAreInt
<1>5. QED  BY <1>2, <1>3, <1>4

\* Only integer uops are mispredicted, in every stage.
LEMMA BranchesStayInt ==
  ASSUME WindowInv, NEW F \in AnyCompletions, Cycle(F)
  PROVE  BranchesAreInt'
<1>1. F \in SUBSET FlagsUOp  BY CompletionsType DEF WindowInv
<1>2. BackendStep(F) /\ RedirectStep(F)
      /\ (RedirectCycle(F) \/ ReplayCycle(F) \/ TrapCycle(F) \/ CommitCycle(F))
  BY DEF Cycle
<1>3. ASSUME NEW s \in intRes'
      PROVE  backend'[RobIdx(s)].fu = "INT"
  <2>1. s \in BranchCandidates  BY <1>2 DEF RedirectStep
  <2>2. s \in SqNs /\ InROB(s) /\ backend[RobIdx(s)].mispred
    BY <2>1 DEF BranchCandidates, MayExecute, Waiting, Unit
  <2>3. backend[RobIdx(s)].fu = "INT"  BY <2>2, RobIdxType DEF WindowInv, BranchesAreInt
  <2>4. Enqueued(RobIdx(s), rnUOp, branch) = {}  BY <2>2, EntryNotOverwritten
  <2> QED  BY <1>1, <1>2, <2>2, <2>3, <2>4, RobIdxType, BackendBranchesAreInt
<1>4. \A i \in Port : rnUOp'[i].mispred => rnUOp'[i].fu = "INT"
  BY <1>2, RenamedBranchesAreInt
<1>5. \A k \in RobIdxs : backend'[k].mispred => backend'[k].fu = "INT"
  BY <1>1, <1>2, BackendBranchesAreInt
<1>6. QED  BY <1>3, <1>4, <1>5 DEF BranchesAreInt, Unit


-----------------------------------------------------------------------------
(* The invariant. *)

\* After reset everything is empty.
LEMMA InitWindow == Init => WindowInv
<1> SUFFICES ASSUME Init  PROVE  WindowInv
  OBVIOUS
<1>1. TypeOK  BY InitType
<1>2. baseIndex = 0 /\ lastIndex = 0 /\ counterSqN = 0
  BY DEF Init, ROBInit, RNInit
<1>3. Pos(lastIndex) = 0 /\ Pos(counterSqN) = 0  BY <1>2, ZeroType, PlusMinusOne DEF Pos
<1>4. RenamedInOrder
  <2>1. 0 \in 0 .. Width /\ \A i \in Port : ~(i < 0)  BY WidthType, SMT DEF Port
  <2>2. \A i \in Port : rnUOp[i].valid = FALSE  BY DEF Init, RNInit, NoRUOp
  <2> QED  BY <1>3, <2>1, <2>2 DEF RenamedInOrder
<1>5. BranchesAreInt
  <2>1. \A i \in Port : rnUOp[i].mispred = FALSE  BY DEF Init, RNInit, NoRUOp
  <2>2. \A k \in RobIdxs : backend[k].mispred = FALSE  BY DEF Init, NoBackendUOp
  <2>3. intRes = {}  BY DEF Init
  <2> QED  BY <2>1, <2>2, <2>3 DEF BranchesAreInt
<1>6. BranchInWindow  BY DEF Init, NoBranch, BranchInWindow
<1>7. RecoveryState  BY DEF Init, ROBInit, NoTrapUOp, NoReplay, RecoveryState
<1>8. QED  BY <1>1, <1>3, <1>4, <1>5, <1>6, <1>7, SMT DEF WindowInv

\* A trap stops the ROB for a cycle; a replay that goes on keeps rename waiting.
LEMMA RecoveryStep ==
  ASSUME WindowInv, NEW F,
         RedirectCycle(F) \/ ReplayCycle(F) \/ TrapCycle(F) \/ CommitCycle(F)
  PROVE  RecoveryState'
<1> USE DEF WindowInv
<1>1. CASE RedirectCycle(F) \/ ReplayCycle(F)
  <2> DEFINE r == Replaying(branch)
  <2>1. ReplayStep(r)  BY <1>1 DEF RedirectCycle, ReplayCycle, ROBReplay
  <2> HIDE DEF r
  <2>2. trapUOp'.valid = FALSE  BY <2>1 DEF ReplayStep, NoTrapUOp
  <2>3. ReplayEnd(r) => misprReplay_r' = NoReplay  BY <2>1 DEF ReplayStep
  <2>4. ~ReplayEnd(r) => mispredFlush'
    <3>1. ~ReplayEnd(r) => Survives(r, Width - 1)  BY DEF ReplayEnd
    <3>2. Width - 1 \in Port  BY WidthType, SMT DEF Port
    <3>3. mispredFlush' = (\E i \in Port : Survives(r, i))  BY <2>1 DEF ReplayStep
    <3> QED  BY <3>1, <3>2, <3>3
  <2> QED  BY <2>2, <2>3, <2>4 DEF RecoveryState, NoReplay
<1>2. ASSUME ~branch.taken, ~Replaying(branch).valid, NEW n \in 0 .. Width, NEW hang,
             CommitStep(n, hang)
      PROVE  RecoveryState'
  <2>1. ~misprReplay_r'.valid  BY <1>2 DEF Replaying, CommitStep
  <2>2. CASE n > 0 /\ SendsTrap(n - 1, hang)
    <3>1. stop'
      <4>1. stop' = (n > 0 /\ SendsTrap(n - 1, hang))  BY <1>2 DEF CommitStep
      <4> QED  BY <2>2, <4>1
    <3>2. trapUOp' = TrapOf(n - 1, hang) /\ baseIndex' = Plus(baseIndex, n)
      BY <1>2, <2>2 DEF CommitStep
    <3>3. trapUOp'.sqN = Plus(baseIndex, n - 1)  BY <3>2 DEF TrapOf
    <3>4. Plus(baseIndex, n) = Plus(Plus(baseIndex, n - 1), 1)
      <4>1. n > 0  BY <2>2
      <4>2. n \in Int /\ 0 < n /\ n < Ring  BY <4>1, WidthType, RingType, SMT
      <4> QED  BY <4>2, SqNState, RingType, SMT DEF Plus, SqNs
    <3> QED  BY <2>1, <3>1, <3>2, <3>3, <3>4 DEF RecoveryState
  <2>3. CASE ~(n > 0 /\ SendsTrap(n - 1, hang))
    <3>1. trapUOp' = NoTrapUOp  BY <1>2, <2>3 DEF CommitStep
    <3> QED  BY <2>1, <3>1 DEF RecoveryState, NoTrapUOp
  <2> QED  BY <2>2, <2>3
<1>3. CASE TrapCycle(F)
  <2>1. ~branch.taken /\ ~Replaying(branch).valid /\ CommitStep(0, FALSE)
    BY <1>3 DEF TrapCycle, ROBStop
  <2>2. 0 \in 0 .. Width  BY WidthType, SMT
  <2> QED  BY <1>2, <2>1, <2>2
<1>4. CASE CommitCycle(F)
  <2>1. \E n \in 0 .. Width, hang \in {FALSE, AllowTimeout} :
          ~branch.taken /\ ~Replaying(branch).valid /\ CommitStep(n, hang)
    BY <1>4 DEF CommitCycle, ROBCommit
  <2> QED  BY <1>2, <2>1
<1>5. QED  BY <1>1, <1>3, <1>4

\* Positions of rename's uops, seen from the front of the buffer after the cycle.
LEMMA NumbersAfter ==
  ASSUME WindowInv, TypeOK', NEW n \in 0 .. Width, Advances(n),
         LastIs(lastIndex'), NumbersFrom(lastIndex')
  PROVE  (0 <= Pos(lastIndex))' /\ RenamedInOrder'
<1> USE DEF WindowInv
<1>1. PICK m \in 0 .. Width :
        /\ \A i \in Port : /\ rnUOp'[i].valid <=> i < m
                           /\ i < m => Pos(rnUOp'[i].sqN) = Pos(lastIndex') + i
        /\ Pos(counterSqN') = Pos(lastIndex') + m
  BY DEF NumbersFrom
<1>2. n <= Pos(lastIndex')  BY LastAfter
<1>3. lastIndex' \in SqNs /\ counterSqN' \in SqNs /\ \A i \in Port : rnUOp'[i].sqN \in SqNs
  <2>1. \A i \in Port : rnUOp'[i] \in R_UOp  BY DEF TypeOK, RNTypeOK
  <2> QED  BY <2>1 DEF LastIs, TypeOK, RNTypeOK, R_UOp
<1>4. n \in Int /\ m \in Nat /\ Pos(lastIndex') \in Int  BY <1>3, PosType, WidthType, SMT
<1>5. Diff(lastIndex', baseIndex') = Pos(lastIndex') - n
  <2>1. n - 1 <= Pos(lastIndex')  BY <1>2, <1>4, SMT
  <2> QED  BY <1>3, <2>1, PosShift
<1>6. Diff(counterSqN', baseIndex') = Diff(lastIndex', baseIndex') + m
  <2>1. n - 1 <= Pos(counterSqN')  BY <1>1, <1>2, <1>4, SMT
  <2>2. Diff(counterSqN', baseIndex') = Pos(counterSqN') - n  BY <1>3, <2>1, PosShift
  <2> QED  BY <1>1, <1>4, <1>5, <2>2, SMT
<1>7. ASSUME NEW i \in Port, i < m
      PROVE  Diff(rnUOp'[i].sqN, baseIndex') = Diff(lastIndex', baseIndex') + i
  <2>1. i \in Nat  BY WidthType, SMT DEF Port
  <2>2. Pos(rnUOp'[i].sqN) = Pos(lastIndex') + i  BY <1>1, <1>7
  <2>3. n - 1 <= Pos(rnUOp'[i].sqN)  BY <1>2, <1>4, <2>1, <2>2, SMT
  <2>4. Diff(rnUOp'[i].sqN, baseIndex') = Pos(rnUOp'[i].sqN) - n  BY <1>3, <2>3, PosShift
  <2> QED  BY <1>4, <1>5, <2>1, <2>2, <2>4, SMT
<1>8. RenamedInOrder'  BY <1>1, <1>6, <1>7 DEF RenamedInOrder, Pos
<1>9. (0 <= Pos(lastIndex))'  BY <1>2, <1>4, <1>5, SMT DEF Pos
<1>10. QED  BY <1>8, <1>9

\* WindowInv is inductive.
LEMMA NextWindow ==
  ASSUME ScNeverTimesOut
  PROVE  WindowInv /\ [AnyNext]_vars => WindowInv'
<1> SUFFICES ASSUME WindowInv, [AnyNext]_vars  PROVE  WindowInv'
  OBVIOUS
<1>1. TypeOK'  BY NextTypeCorrect DEF WindowInv
<1>2. CASE AnyNext
  <2>1. PICK F \in AnyCompletions : Cycle(F)  BY <1>2 DEF AnyNext
  <2>2. F \in SUBSET FlagsUOp  BY CompletionsType DEF WindowInv
  <2>3. RedirectCycle(F) \/ ReplayCycle(F) \/ TrapCycle(F) \/ CommitCycle(F)
    BY <2>1 DEF Cycle
  <2>4. PICK n \in 0 .. Width : Advances(n)  BY <2>3, BaseStep
  <2>5. LastIs(lastIndex') /\ NumbersFrom(lastIndex')  BY <2>2, <2>3, LastStep DEF LastIs
  <2>6. (0 <= Pos(lastIndex))' /\ RenamedInOrder'  BY <1>1, <2>4, <2>5, NumbersAfter
  <2>7. BranchInWindow'  BY <2>1, <2>4, <2>5, RedirectInWindow DEF Cycle
  <2>8. BranchesAreInt'  BY <2>1, BranchesStayInt
  <2>9. RecoveryState'  BY <2>3, RecoveryStep
  <2> QED  BY <1>1, <2>6, <2>7, <2>8, <2>9 DEF WindowInv
<1>3. CASE UNCHANGED vars
  BY <1>1, <1>3 DEF WindowInv, vars, ratVars, tbVars, rnVars, robVars, Pos, RenamedInOrder,
                    BranchesAreInt, BranchInWindow, RecoveryState, Unit
<1>4. QED  BY <1>2, <1>3

\* What the invariant says about the buffer.
LEMMA WindowFromInv == WindowInv => Window
<1> SUFFICES ASSUME WindowInv  PROVE  Window
  OBVIOUS
<1> USE DEF WindowInv
<1>1. PICK m \in 0 .. Width :
        /\ \A i \in Port : rnUOp[i].valid <=> i < m
        /\ Pos(counterSqN) = Pos(lastIndex) + m
  BY DEF RenamedInOrder
<1>2. /\ lastIndex \in SqNs /\ counterSqN \in SqNs /\ baseIndex \in SqNs
      /\ branch.sqN \in SqNs
  BY SqNState
<1>3. /\ Pos(lastIndex) \in Int /\ Pos(lastIndex) < ROBSize
      /\ Pos(counterSqN) \in Int /\ Pos(counterSqN) < ROBSize
      /\ Pos(branch.sqN) \in Int /\ m \in Nat /\ m <= Width
  BY <1>2, PosType, WidthType, SMT
<1>4. Diff(lastIndex, baseIndex) \in 0 .. ROBSize - 1
  BY <1>3, RingType, SMT DEF Pos
<1>5. Diff(counterSqN, baseIndex) \in 0 .. ROBSize - 1
  BY <1>1, <1>3, RingType, SMT DEF Pos
<1>6. Diff(counterSqN, lastIndex) = m
  <2>1. 0 <= Diff(counterSqN, baseIndex) /\ 0 <= Diff(lastIndex, baseIndex)
    BY <1>1, <1>3, SMT DEF Pos
  <2>2. Diff(counterSqN, lastIndex) = Diff(counterSqN, baseIndex) - Diff(lastIndex, baseIndex)
    BY <1>2, <2>1, DiffByDistance
  <2> QED  BY <1>1, <1>3, <2>2, SMT DEF Pos
<1>7. Cardinality({i \in Port : rnUOp[i].valid}) = m
  <2>1. {i \in Port : rnUOp[i].valid} = {i \in Port : i < m}  BY <1>1
  <2>2. {i \in Port : i < m} = 0 .. m - 1  BY <1>3, WidthType, SMT DEF Port
  <2>3. 0 \in Int /\ m - 1 \in Int /\ (0 > m - 1 => m = 0) /\ m - 1 - 0 + 1 = m
    BY <1>3, SMT
  <2> QED  BY <2>1, <2>2, <2>3, FS_Interval
<1>8. branch.taken => Diff(branch.sqN, baseIndex) \in -1 .. Diff(lastIndex, baseIndex) - 1
  <2>1. branch.taken => -1 <= Pos(branch.sqN) /\ Pos(branch.sqN) < Pos(lastIndex)
    BY DEF BranchInWindow
  <2> QED  BY <1>3, <2>1, SMT DEF Pos
<1>9. QED  BY <1>4, <1>5, <1>6, <1>7, <1>8 DEF Window, BranchInWindow, RecoveryState

\* The buffer never overflows, no redirect squashes what has been committed, a
\* flush finds the uop that trapped as the last one committed and rename waits for
\* every replay, for every size of the machine (ROB.sv, SQN_STALL of Core.sv).
THEOREM WindowCorrect ==
  ASSUME ScNeverTimesOut
  PROVE  Spec => []Window
<1>1. Init => WindowInv  BY InitWindow
<1>2. WindowInv /\ [Next]_vars => WindowInv'  BY NextWindow, NextIsAny
<1>3. WindowInv => Window  BY WindowFromInv
<1>4. QED  BY <1>1, <1>2, <1>3, PTL DEF Spec


-----------------------------------------------------------------------------
(* Arbitration. *)

\* The load buffer's redirect is at the uop that asked for it or right before it.
LEMMA MemBranchPos ==
  ASSUME WindowInv, NEW F \in AnyCompletions, NEW s \in MemCandidates(F)
  PROVE  /\ s \in SqNs /\ 0 <= Pos(s) /\ Pos(s) < Pos(lastIndex)
         /\ MemBranch(s).sqN \in SqNs
         /\ Pos(MemBranch(s).sqN) = Pos(s) \/ Pos(MemBranch(s).sqN) = Pos(s) - 1
<1> USE DEF WindowInv
<1>1. s \in SqNs /\ 0 <= Pos(s) /\ Pos(s) < Pos(lastIndex)
  BY MemCandidateExecutes DEF MayExecute, Waiting, InROB, Pos
<1>2. Minus(s, 1) \in SqNs  BY <1>1, NextType
<1>3. Pos(Minus(s, 1)) = Pos(s) - 1
  <2>1. 1 \in Nat /\ 1 < ROBSize /\ - ROBSize <= Diff(s, baseIndex) - 1
    BY <1>1, PosType, RingType, SMT DEF Pos
  <2> QED  BY <1>1, <2>1, SqNState, DiffMinus DEF Pos
<1>4. MemBranch(s).sqN = s \/ MemBranch(s).sqN = Minus(s, 1)  BY DEF MemBranch
<1>5. QED  BY <1>1, <1>2, <1>3, <1>4

\* Inside the window, being older is being nearer to the front.
LEMMA OlderByPos ==
  ASSUME WindowInv, NEW s \in SqNs, NEW t \in SqNs,
         -1 <= Pos(s), Pos(s) < Pos(lastIndex), -1 <= Pos(t), Pos(t) < Pos(lastIndex)
  PROVE  Diff(s, t) = Pos(s) - Pos(t)
<1>1. /\ Pos(s) \in Int /\ Pos(t) \in Int
      /\ Pos(lastIndex) \in Int /\ Pos(lastIndex) < ROBSize /\ baseIndex \in SqNs
  BY SqNState, PosType DEF WindowInv
<1>2. - ROBSize <= Diff(s, baseIndex) - Diff(t, baseIndex)
      /\ Diff(s, baseIndex) - Diff(t, baseIndex) < ROBSize
  BY <1>1, RingType, SMT DEF Pos
<1>3. QED  BY <1>1, <1>2, DiffChain DEF Pos

\* The selected redirect is not younger than any that was raised.
LEMMA RedirectCoversStep ==
  ASSUME WindowInv, NEW F \in AnyCompletions, RedirectStep(F)
  PROVE  RedirectCovers'
<1> USE DEF WindowInv
<1>1. PICK B \in SUBSET BranchCandidates, M \in {{}} \cup {{s} : s \in MemCandidates(F)} :
        branch' = SelectBranch(B, M) /\ intRes' = B /\ memRes' = M
  BY DEF RedirectStep
<1>2. \A s \in B : s \in SqNs /\ 0 <= Pos(s) /\ Pos(s) < Pos(lastIndex)
  BY DEF BranchCandidates, MayExecute, Waiting, InROB, Pos
<1>3. \A s \in M : s \in MemCandidates(F)  OBVIOUS
<1>4. \A s \in M : s \in SqNs /\ 0 <= Pos(s) /\ Pos(s) < Pos(lastIndex)
  BY <1>3, MemBranchPos
<1>5. SUFFICES ASSUME NEW s \in B \cup M
               PROVE  branch'.taken /\ Diff(branch'.sqN, s) <= 0
  BY <1>1 DEF RedirectCovers
<1>6. s \in SqNs /\ 0 <= Pos(s) /\ Pos(s) < Pos(lastIndex)  BY <1>2, <1>4
<1>7. Pos(s) \in Int /\ -1 <= Pos(s) /\ Pos(lastIndex) \in Int
  BY <1>6, SqNState, PosType, SMT
<1>8. CASE trapUOp.valid
  <2>1. branch'.taken /\ branch'.sqN = trapUOp.sqN
    BY <1>1, <1>8 DEF SelectBranch, TrapBranch
  <2>2. trapUOp.sqN \in SqNs /\ Pos(trapUOp.sqN) = -1
    BY <1>8, SqNState, PlusMinusOne DEF RecoveryState, Pos
  <2>3. -1 <= Pos(trapUOp.sqN) /\ Pos(trapUOp.sqN) < Pos(lastIndex)
    BY <1>6, <1>7, <2>2, SMT
  <2>4. Diff(trapUOp.sqN, s) = Pos(trapUOp.sqN) - Pos(s)
    BY <1>6, <1>7, <2>2, <2>3, OlderByPos
  <2> QED  BY <1>6, <1>7, <2>1, <2>2, <2>4, SMT
<1>9. B # {} => /\ Oldest(B) \in B
                /\ \A t \in B : Pos(Oldest(B)) <= Pos(t)
  <2> SUFFICES ASSUME B # {}
               PROVE  Oldest(B) \in B /\ \A t \in B : Pos(Oldest(B)) <= Pos(t)
    OBVIOUS
  <2>1. \E o \in B : \A t \in B : Diff(o, t) <= 0  BY OldestExists
  <2>2. Oldest(B) \in B /\ \A t \in B : Diff(Oldest(B), t) <= 0  BY <2>1 DEF Oldest
  <2>3. ASSUME NEW t \in B
        PROVE  Pos(Oldest(B)) <= Pos(t)
    BY <1>2, <2>2, SqNState, DiffByDistance DEF Pos
  <2> QED  BY <2>2, <2>3
<1>10. ASSUME NEW t \in SqNs, -1 <= Pos(t), Pos(t) < Pos(lastIndex), Pos(t) <= Pos(s)
       PROVE  Diff(t, s) <= 0
  <2>1. Diff(t, s) = Pos(t) - Pos(s)  BY <1>6, <1>7, <1>10, OlderByPos
  <2> QED  BY <1>7, <1>10, <2>1, PosType, SMT
<1> DEFINE mem == CHOOSE b \in {MemBranch(t) : t \in M} : TRUE
<1>11. ASSUME M # {}
       PROVE  /\ mem.taken
              /\ mem.sqN \in SqNs /\ -1 <= Pos(mem.sqN) /\ Pos(mem.sqN) < Pos(lastIndex)
              /\ \A t \in M : Pos(mem.sqN) <= Pos(t)
  <2>1. PICK t \in MemCandidates(F) : M = {t}  BY <1>11
  <2>2. mem = MemBranch(t)  BY <2>1
  <2> HIDE DEF mem
  <2>3. /\ t \in SqNs /\ 0 <= Pos(t) /\ Pos(t) < Pos(lastIndex) /\ mem.sqN \in SqNs
        /\ Pos(mem.sqN) = Pos(t) \/ Pos(mem.sqN) = Pos(t) - 1
    BY <2>2, MemBranchPos
  <2>4. Pos(t) \in Int  BY <2>3, PosType
  <2>5. -1 <= Pos(mem.sqN) /\ Pos(mem.sqN) < Pos(lastIndex) /\ Pos(mem.sqN) <= Pos(t)
    BY <1>7, <2>3, <2>4, SMT
  <2>6. mem.taken  BY <2>2 DEF MemBranch
  <2> QED  BY <2>1, <2>3, <2>5, <2>6
<1> HIDE DEF mem
<1>12. CASE ~trapUOp.valid /\ B # {} /\ (M = {} \/ Diff(Oldest(B), mem.sqN) < 0)
  <2>1. branch' = IntBranch(Oldest(B))  BY <1>1, <1>12 DEF SelectBranch, mem
  <2>2. branch'.taken /\ branch'.sqN = Oldest(B)  BY <2>1 DEF IntBranch
  <2>3. Oldest(B) \in SqNs /\ 0 <= Pos(Oldest(B)) /\ Pos(Oldest(B)) < Pos(lastIndex)
    BY <1>2, <1>9, <1>12
  <2>4. Pos(Oldest(B)) \in Int /\ -1 <= Pos(Oldest(B))  BY <2>3, PosType, SMT
  <2>5. Pos(Oldest(B)) <= Pos(s)
    <3>1. CASE s \in B
      BY <1>9, <1>12, <3>1
    <3>2. CASE s \in M
      <4>1. Diff(Oldest(B), mem.sqN) < 0  BY <1>12, <3>2
      <4>2. /\ mem.sqN \in SqNs /\ -1 <= Pos(mem.sqN) /\ Pos(mem.sqN) < Pos(lastIndex)
            /\ Pos(mem.sqN) <= Pos(s)
        BY <1>11, <3>2
      <4>3. Diff(Oldest(B), mem.sqN) = Pos(Oldest(B)) - Pos(mem.sqN)
        BY <2>3, <2>4, <4>2, OlderByPos
      <4>4. Pos(mem.sqN) \in Int  BY <4>2, PosType
      <4> QED  BY <1>7, <2>4, <4>1, <4>2, <4>3, <4>4, SMT
    <3> QED  BY <3>1, <3>2
  <2> QED  BY <1>10, <2>2, <2>3, <2>4, <2>5
<1>13. CASE ~trapUOp.valid /\ M # {} /\ (B # {} => ~(Diff(Oldest(B), mem.sqN) < 0))
  <2>1. branch' = mem  BY <1>1, <1>13 DEF SelectBranch, mem
  <2>2. /\ mem.taken
        /\ mem.sqN \in SqNs /\ -1 <= Pos(mem.sqN) /\ Pos(mem.sqN) < Pos(lastIndex)
    BY <1>11, <1>13
  <2>3. Pos(mem.sqN) <= Pos(s)
    <3>1. CASE s \in M
      BY <1>11, <1>13, <3>1
    <3>2. CASE s \in B
      <4>1. ~(Diff(Oldest(B), mem.sqN) < 0)  BY <1>13, <3>2
      <4>2. Oldest(B) \in SqNs /\ 0 <= Pos(Oldest(B)) /\ Pos(Oldest(B)) < Pos(lastIndex)
            /\ Pos(Oldest(B)) <= Pos(s)
        BY <1>2, <1>9, <3>2
      <4>3. Pos(Oldest(B)) \in Int /\ -1 <= Pos(Oldest(B)) /\ Pos(mem.sqN) \in Int
        BY <2>2, <4>2, PosType, SMT
      <4>4. Diff(Oldest(B), mem.sqN) = Pos(Oldest(B)) - Pos(mem.sqN)
        BY <2>2, <4>2, <4>3, OlderByPos
      <4> QED  BY <1>7, <4>1, <4>2, <4>3, <4>4, SMT
    <3> QED  BY <3>1, <3>2
  <2> QED  BY <1>10, <2>1, <2>2, <2>3
<1>14. QED  BY <1>8, <1>12, <1>13

\* Of the redirects of one cycle, the distributed one squashes at least what each of
\* them asked for (BranchSelector.sv), for every number of branch ports.
THEOREM RedirectCoversCorrect ==
  ASSUME ScNeverTimesOut
  PROVE  Spec => []RedirectCovers
<1>1. Init => WindowInv /\ RedirectCovers
  <2>1. Init => RedirectCovers  BY DEF Init, RedirectCovers
  <2> QED  BY <2>1, InitWindow
<1>2. WindowInv /\ RedirectCovers /\ [Next]_vars => (WindowInv /\ RedirectCovers)'
  <2> SUFFICES ASSUME WindowInv, RedirectCovers, [AnyNext]_vars
               PROVE  WindowInv' /\ RedirectCovers'
    BY NextIsAny
  <2>1. WindowInv'  BY NextWindow
  <2>2. CASE AnyNext
    BY <2>1, <2>2, RedirectCoversStep DEF AnyNext, Cycle
  <2>3. CASE UNCHANGED vars
    BY <2>1, <2>3 DEF vars, RedirectCovers
  <2> QED  BY <2>1, <2>2, <2>3
<1>3. QED  BY <1>1, <1>2, PTL DEF Spec

-----------------------------------------------------------------------------
(* Mispredicted branches. *)

\* A branch that has raised its redirect is in the buffer, or the last one to have
\* left it; in the buffer it is not resolved yet.  A store-conditional that fails was
\* the oldest uop.
RedirectsRaised ==
  /\ \A s \in intRes : -1 <= Pos(s) /\ Pos(s) < Pos(lastIndex)
  /\ \A s \in intRes : InROB(s) => Unit(s).mispred
  /\ branch.isSCFail => Pos(branch.sqN) = -1

\* The inductive invariants.
RaisedInv   == WindowInv /\ RedirectCovers /\ RedirectsRaised
ResolvedInv == RaisedInv /\ MispredictResolved

\* The slot right before the window is not one of its slots.
LEMMA FrontIsApart ==
  ASSUME NEW s \in SqNs, NEW t \in SqNs, NEW base \in SqNs,
         Diff(t, base) = -1, 0 <= Diff(s, base), Diff(s, base) < ROBSize - 1
  PROVE  RobIdx(s) # RobIdx(t)
  BY RingType, SMT DEF Diff, RobIdx, SqNs

\* Different numbers have different positions.
LEMMA PosInjective ==
  ASSUME TypeOK, NEW s \in SqNs, NEW t \in SqNs, Pos(s) = Pos(t)
  PROVE  s = t
  BY SqNState, RingType, SMT DEF Pos, Diff, SqNs

\* What is in the buffer after a cycle.
LEMMA InROBAfter ==
  ASSUME WindowInv, NEW n \in 0 .. Width, Advances(n), LastIs(lastIndex'), NEW s \in SqNs
  PROVE  InROB(s)' <=> n <= Pos(s) /\ Pos(s) < Pos(lastIndex')
<1> USE DEF WindowInv
<1>1. n <= Pos(lastIndex')  BY LastAfter
<1>2. lastIndex' \in SqNs /\ baseIndex \in SqNs /\ n \in Nat /\ n < ROBSize
  BY SqNState, WidthType, RingType, SMT DEF LastIs
<1>3. Pos(lastIndex') \in Int /\ Pos(lastIndex') < ROBSize /\ Pos(s) \in Int
  BY <1>2, PosType
<1>4. Diff(lastIndex', baseIndex') = Pos(lastIndex') - n
  <2>1. n - 1 <= Pos(lastIndex')  BY <1>1, <1>2, <1>3, SMT
  <2> QED  BY <1>2, <2>1, PosShift
<1>5. InROB(s)' <=> 0 <= Diff(s, baseIndex') /\ Diff(s, baseIndex') < Pos(lastIndex') - n
  BY <1>4 DEF InROB
<1>6. CASE n <= Pos(s)
  <2>1. n - 1 <= Pos(s)  BY <1>2, <1>3, <1>6, SMT
  <2>2. Diff(s, baseIndex') = Pos(s) - n  BY <2>1, PosShift
  <2> QED  BY <1>2, <1>3, <1>5, <1>6, <2>2, SMT
<1>7. CASE ~(n <= Pos(s))
  <2> SUFFICES ASSUME 0 <= Diff(s, baseIndex'), Diff(s, baseIndex') < Pos(lastIndex') - n
               PROVE  FALSE
    BY <1>5, <1>7
  <2>1. baseIndex' = Plus(baseIndex, n)  BY DEF Advances
  <2>2. Plus(baseIndex, n) \in SqNs  BY <1>2, PlusPort
  <2>3. Diff(s, Plus(baseIndex, n)) \in Int  BY <2>2, DiffType
  <2>4. Diff(s, Plus(baseIndex, n)) + n < ROBSize
    <3>1. Diff(s, Plus(baseIndex, n)) < Pos(lastIndex') - n  BY <2>1
    <3> QED  BY <1>2, <1>3, <2>3, <3>1, RingType, SMT
  <2>5. Diff(s, baseIndex) = Diff(s, Plus(baseIndex, n)) + n
    BY <1>2, <2>1, <2>4, RingType, SMT DEF Diff, Plus, SqNs
  <2> QED  BY <1>2, <1>3, <1>7, <2>1, <2>3, <2>5, SMT DEF Pos
<1>8. QED  BY <1>6, <1>7

\* The number at a position of the buffer.
LEMMA AtPosition ==
  ASSUME TypeOK, NEW i \in Nat, i < ROBSize
  PROVE  /\ Plus(baseIndex, i) \in SqNs /\ Pos(Plus(baseIndex, i)) = i
         /\ \A s \in SqNs : Pos(s) = i => s = Plus(baseIndex, i)
<1>1. baseIndex \in SqNs  BY SqNState
<1>2. Plus(baseIndex, i) \in SqNs
  <2>1. i <= Ring  BY RingType, SMT
  <2> QED  BY <1>1, <2>1, PlusType
<1>3. Diff(baseIndex, baseIndex) = 0  BY <1>1, PlusMinusOne
<1>4. Pos(Plus(baseIndex, i)) = i
  <2>1. Diff(baseIndex, baseIndex) + i < ROBSize  BY <1>3, RingType, SMT
  <2>2. Diff(Plus(baseIndex, i), baseIndex) = Diff(baseIndex, baseIndex) + i
    BY <1>1, <2>1, DiffPlus
  <2> QED  BY <1>3, <2>2, SMT DEF Pos
<1>5. ASSUME NEW s \in SqNs, Pos(s) = i
      PROVE  s = Plus(baseIndex, i)
  <2>1. 0 <= Diff(s, baseIndex)  BY <1>5, SMT DEF Pos
  <2> QED  BY <1>1, <1>5, <2>1, PlusDiff DEF Pos
<1>6. QED  BY <1>2, <1>4, <1>5

\* What is in the buffer and did not just enter it was there before.
LEMMA EnteredOrKept ==
  ASSUME WindowInv, NEW n \in 0 .. Width, Advances(n), LastIs(lastIndex'),
         NEW s \in SqNs, InROB(s)', Enqueued(RobIdx(s), rnUOp, branch) = {}
  PROVE  InROB(s)
<1> USE DEF WindowInv
<1>1. n <= Pos(s) /\ Pos(s) < Pos(lastIndex')  BY InROBAfter
<1>2. n \in Nat /\ Pos(s) \in Int /\ Pos(lastIndex) \in Int /\ Pos(branch.sqN) \in Int
      /\ Pos(s) < ROBSize
  BY SqNState, PosType, WidthType, SMT
<1>3. CASE Pos(s) < Pos(lastIndex)
  <2>1. 0 <= Pos(s)  BY <1>1, <1>2, SMT
  <2> QED  BY <1>3, <2>1 DEF InROB, Pos
<1>4. CASE ~(Pos(s) < Pos(lastIndex))
  <2> SUFFICES FALSE
    OBVIOUS
  <2>1. ~branch.taken
    <3>1. branch.taken => Pos(lastIndex') = Pos(branch.sqN) + 1
                          /\ Pos(branch.sqN) < Pos(lastIndex)
      BY DEF LastIs, BranchInWindow
    <3> QED  BY <1>1, <1>2, <1>4, <3>1, SMT
  <2>2. PICK m \in 0 .. Width :
          /\ \A i \in Port : /\ rnUOp[i].valid <=> i < m
                             /\ i < m => Pos(rnUOp[i].sqN) = Pos(lastIndex) + i
          /\ Pos(counterSqN) = Pos(lastIndex) + m
    BY DEF RenamedInOrder
  <2>3. Pos(lastIndex') = Pos(lastIndex) + m  BY <2>1, <2>2 DEF LastIs
  <2>4. PICK i \in Port : i < m /\ Pos(lastIndex) + i = Pos(s)
    <3>1. Pos(s) - Pos(lastIndex) \in Port /\ Pos(s) - Pos(lastIndex) < m
          /\ Pos(lastIndex) + (Pos(s) - Pos(lastIndex)) = Pos(s)
      BY <1>1, <1>2, <1>4, <2>3, WidthType, SMT DEF Port
    <3> QED  BY <3>1
  <2>5. rnUOp[i].valid /\ rnUOp[i].sqN = s
    BY <2>2, <2>4, SqNState, PosInjective
  <2> QED  BY <2>1, <2>5 DEF Enqueued
<1>5. QED  BY <1>3, <1>4

\* What completes in a cycle is in the buffer and was not waiting for a redirect, or
\* it is a branch that raised its redirect in the cycle before.
LEMMA CompletionSource ==
  ASSUME NEW F \in AnyCompletions, NEW u \in F
  PROVE  \/ u.sqN \in SqNs /\ InROB(u.sqN)
         \/ u.sqN \in intRes
<1>1. ASSUME NEW t \in SqNs, u \in Reports(t)
      PROVE  u.sqN = t /\ MayExecute(t)
  BY <1>1 DEF Reports
<1>2. \A t : u = BranchReport(t) => u.sqN = t  BY DEF BranchReport
<1>3. QED  BY <1>1, <1>2, ReportSource DEF MayExecute, Waiting

\* In RenameCommit, what completes and did not wait for a redirect was not mispredicted.
LEMMA CompletionResolved ==
  ASSUME NEW F \in Completions, NEW u \in F
  PROVE  \/ u.sqN \in SqNs /\ InROB(u.sqN) /\ ~backend[RobIdx(u.sqN)].mispred
         \/ u.sqN \in intRes
<1>1. PICK G \in SUBSET UNION {Reports(t) : t \in SqNs} :
        F = {BranchReport(t) : t \in intRes} \cup G
  BY DEF Completions
<1>2. CASE u \in G
  <2>1. PICK t \in SqNs : u \in Reports(t)  BY <1>1, <1>2
  <2>2. u.sqN = t  BY <2>1 DEF Reports
  <2>3. MayExecute(t) /\ ~Unit(t).mispred  BY <2>1 DEF Reports
  <2> QED  BY <2>2, <2>3 DEF MayExecute, Waiting, Unit
<1>3. CASE u \notin G
  <2>1. PICK t \in intRes : u = BranchReport(t)  BY <1>1, <1>3
  <2> QED  BY <2>1 DEF BranchReport
<1>4. QED  BY <1>2, <1>3

\* Nothing completes in a slot that is being filled.
LEMMA EntersAlone ==
  ASSUME WindowInv, RedirectCovers, NEW F \in AnyCompletions,
         NEW k, Enqueued(k, rnUOp, branch) # {}
  PROVE  Completed(k, F, branch) = {}
<1> SUFFICES ASSUME NEW u \in F, RobIdx(u.sqN) = k  PROVE FALSE
  BY DEF Completed
<1>1. ~branch.taken  BY DEF Enqueued
<1>2. u.sqN \notin intRes  BY <1>1 DEF RedirectCovers
<1>3. u.sqN \in SqNs /\ InROB(u.sqN)  BY <1>2, CompletionSource
<1>4. QED  BY <1>3, EntryNotOverwritten

\* A branch that enters the buffer has not executed.
LEMMA EntersUnresolved ==
  ASSUME RaisedInv, NEW F \in AnyCompletions, BackendStep(F), EnqueueStep(rnUOp, F, branch),
         NEW k \in RobIdxs, Enqueued(k, rnUOp, branch) # {}, backend'[k].mispred
  PROVE  flags'[k] = "NX"
<1> USE DEF RaisedInv
<1> DEFINE i == CHOOSE j \in Enqueued(k, rnUOp, branch) : TRUE
<1>1. i \in Port /\ ~branch.taken  BY DEF Enqueued
<1>2. backend'[k] = Entered(rnUOp[i], WrittenBack(F))  BY DEF BackendStep
<1>3. Completed(k, F, branch) = {}  BY EntersAlone
<1>4. flags'[k] = InitialFlags(rnUOp[i].fu)  BY <1>3 DEF EnqueueStep
<1> HIDE DEF i
<1>5. rnUOp[i].fu = "INT"
  <2>1. rnUOp[i].mispred  BY <1>2 DEF Entered
  <2> QED  BY <1>1, <2>1 DEF WindowInv, BranchesAreInt
<1>6. QED  BY <1>4, <1>5 DEF InitialFlags

\* A branch in the buffer only executes in the cycle in which its redirect, and no
\* other, is distributed.
LEMMA ExecutesResolved ==
  ASSUME ResolvedInv, NEW F \in Completions, BackendStep(F), EnqueueStep(rnUOp, F, branch),
         NEW s \in SqNs, InROB(s), Enqueued(RobIdx(s), rnUOp, branch) = {},
         backend'[RobIdx(s)].mispred
  PROVE  flags'[RobIdx(s)] = "NX"
<1> USE DEF ResolvedInv, RaisedInv, WindowInv
<1> DEFINE k == RobIdx(s)
           resolved == \E t \in intRes : RobIdx(t) = k /\ branch.taken /\ branch.sqN = t
                                         /\ ~branch.flush /\ ~branch.isSCFail
<1>1. k \in RobIdxs  BY RobIdxType
<1>2. backend[k].mispred /\ ~resolved
  <2> DEFINE woken == backend[k].avail \/ backend[k].tag \in WrittenBack(F)
             first == backend[k].early \/ \E u \in F : RobIdx(u.sqN) = k /\ u.doNotCommit
             wrong == backend[k].mispred /\ ~resolved
  <2>1. backend'[k] = [backend[k] EXCEPT !.avail = woken, !.early = first, !.mispred = wrong]
    BY <1>1 DEF BackendStep
  <2>2. backend[k] \in BackendUOp  BY <1>1 DEF TypeOK
  <2>3. backend'[k].mispred = wrong
    <3> HIDE DEF woken, first, wrong
    <3> QED  BY <2>1, <2>2 DEF BackendUOp
  <2> HIDE DEF k, resolved
  <2> QED  BY <2>3 DEF k
<1>3. flags[k] = "NX"  BY <1>2 DEF MispredictResolved
<1>4. Completed(k, F, branch) = {}
  <2> SUFFICES ASSUME NEW u \in F, ~Squashed(u.sqN, branch), RobIdx(u.sqN) = k  PROVE FALSE
    BY DEF Completed
  <2>1. baseIndex \in SqNs /\ branch.sqN \in SqNs /\ Pos(lastIndex) \in Int
        /\ Pos(lastIndex) < ROBSize
    BY SqNState, PosType
  <2>2. 0 <= Pos(s) /\ Pos(s) < Pos(lastIndex) /\ Pos(s) \in Int
    BY PosType DEF InROB, Pos
  <2>3. CASE u.sqN \in SqNs /\ InROB(u.sqN) /\ ~backend[RobIdx(u.sqN)].mispred
    <3>1. RobIdx(u.sqN) = k  OBVIOUS
    <3> QED  BY <1>2, <2>3, <3>1
  <2>4. CASE u.sqN \in intRes
    <3>1. PICK t \in SqNs : t = u.sqN /\ t \in intRes  BY <2>4 DEF TypeOK
    <3>2. /\ -1 <= Pos(t) /\ Pos(t) < Pos(lastIndex) /\ Pos(t) \in Int
          /\ branch.taken /\ Diff(branch.sqN, t) <= 0 /\ ~(Diff(t, branch.sqN) > 0)
          /\ -1 <= Pos(branch.sqN) /\ Pos(branch.sqN) < Pos(lastIndex)
          /\ Pos(branch.sqN) \in Int
      BY <2>1, <3>1, PosType DEF RedirectsRaised, RedirectCovers, Squashed, BranchInWindow
    <3>3. Diff(branch.sqN, t) = Pos(branch.sqN) - Pos(t)
          /\ Diff(t, branch.sqN) = Pos(t) - Pos(branch.sqN)
      BY <2>1, <3>2, OlderByPos
    <3>4. Pos(t) = Pos(branch.sqN)  BY <3>2, <3>3, SMT
    <3>5. Pos(t) # -1
      <4> SUFFICES ASSUME Pos(t) = -1  PROVE FALSE
        OBVIOUS
      <4>1. Pos(s) < ROBSize - 1  BY <2>1, <2>2, RingType, SMT
      <4>2. RobIdx(s) = RobIdx(t)  BY <3>1
      <4> QED  BY <2>1, <2>2, <4>1, <4>2, FrontIsApart DEF Pos
    <3>6. ~branch.flush /\ ~branch.isSCFail
      <4>1. branch.flush => Pos(branch.sqN) = -1
        BY <2>1, PlusMinusOne DEF BranchInWindow, Pos
      <4> QED  BY <3>4, <3>5, <4>1 DEF RedirectsRaised
    <3>7. branch.sqN = t  BY <2>1, <3>4, PosInjective
    <3>8. RobIdx(t) = k  BY <3>1
    <3> HIDE DEF k
    <3> QED  BY <1>2, <3>1, <3>2, <3>6, <3>7, <3>8
  <2> QED  BY <2>3, <2>4, CompletionResolved
<1>5. flags'[k] = flags[k]
  <2> HIDE DEF k, resolved
  <2>1. Enqueued(k, rnUOp, branch) = {}  BY DEF k
  <2> QED  BY <1>1, <1>4, <2>1 DEF EnqueueStep
<1>6. QED  BY <1>3, <1>5

\* A branch that raises its redirect is not resolved in the same cycle.
LEMMA RaisedUnresolved ==
  ASSUME RaisedInv, NEW F \in AnyCompletions, BackendStep(F),
         NEW s \in BranchCandidates
  PROVE  backend'[RobIdx(s)].mispred
<1> USE DEF RaisedInv, WindowInv
<1> DEFINE k == RobIdx(s)
           resolved == \E t \in intRes : RobIdx(t) = k /\ branch.taken /\ branch.sqN = t
                                         /\ ~branch.flush /\ ~branch.isSCFail
<1>1. s \in SqNs /\ InROB(s) /\ s \notin intRes /\ backend[k].mispred
  BY DEF BranchCandidates, MayExecute, Waiting, Unit
<1>2. k \in RobIdxs /\ Enqueued(k, rnUOp, branch) = {}
  BY <1>1, RobIdxType, EntryNotOverwritten
<1>3. ~resolved
  <2> SUFFICES ASSUME NEW t \in intRes, RobIdx(t) = RobIdx(s)  PROVE FALSE
    OBVIOUS
  <2>1. /\ t \in SqNs /\ -1 <= Pos(t) /\ Pos(t) < Pos(lastIndex) /\ Pos(t) \in Int
        /\ baseIndex \in SqNs /\ Pos(lastIndex) \in Int /\ Pos(lastIndex) < ROBSize
    BY SqNState, PosType DEF RedirectsRaised, TypeOK
  <2>2. 0 <= Pos(s) /\ Pos(s) < Pos(lastIndex) /\ Pos(s) \in Int
    BY <1>1, PosType DEF InROB, Pos
  <2>3. CASE Pos(t) = -1
    <3>1. Pos(s) < ROBSize - 1  BY <2>1, <2>2, RingType, SMT
    <3> QED  BY <1>1, <2>1, <2>2, <2>3, <3>1, FrontIsApart DEF Pos
  <2>4. CASE Pos(t) # -1
    <3>1. 0 <= Pos(t)  BY <2>1, <2>4, SMT
    <3>2. InROB(t)  BY <2>1, <3>1 DEF InROB, Pos
    <3> QED  BY <1>1, <2>1, <3>2, RobIdxInjective DEF InROB
  <2> QED  BY <2>3, <2>4
<1> DEFINE woken == backend[k].avail \/ backend[k].tag \in WrittenBack(F)
           first == backend[k].early \/ \E u \in F : RobIdx(u.sqN) = k /\ u.doNotCommit
           wrong == backend[k].mispred /\ ~resolved
<1>4. backend'[k] = [backend[k] EXCEPT !.avail = woken, !.early = first, !.mispred = wrong]
  BY <1>2 DEF BackendStep
<1>5. backend[k] \in BackendUOp  BY <1>2 DEF TypeOK
<1>6. backend'[k].mispred = wrong
  <2> HIDE DEF woken, first, wrong
  <2> QED  BY <1>4, <1>5 DEF BackendUOp
<1>7. QED  BY <1>1, <1>3, <1>6

\* The redirects raised in a cycle.
LEMMA RedirectsRaisedStep ==
  ASSUME ScNeverTimesOut, RaisedInv, WindowInv, NEW n \in 0 .. Width, Advances(n), LastIs(lastIndex'),
         NEW F \in AnyCompletions, RedirectStep(F), BackendStep(F)
  PROVE  RedirectsRaised'
<1> USE DEF WindowInv
<1>1. PICK B \in SUBSET BranchCandidates, M \in {{}} \cup {{s} : s \in MemCandidates(F)} :
        branch' = SelectBranch(B, M) /\ intRes' = B
  BY DEF RedirectStep
<1>2. ASSUME NEW s \in intRes'
      PROVE  -1 <= Diff(s, baseIndex') /\ Diff(s, baseIndex') < Diff(lastIndex', baseIndex')
  <2>1. s \in SqNs /\ Waiting(s) /\ ~Squashed(s, branch)
    BY <1>1 DEF BranchCandidates, MayExecute
  <2> QED  BY <2>1, RedirectOfWaiting
<1>3. ASSUME branch'.isSCFail
      PROVE  Diff(branch'.sqN, baseIndex') = -1
  <2>1. M # {} => \E s \in MemCandidates(F) :
                    (CHOOSE b \in {MemBranch(t) : t \in M} : TRUE) = MemBranch(s)
    OBVIOUS
  <2>2. PICK s \in MemCandidates(F) : branch' = MemBranch(s)
    BY <1>1, <1>3, <2>1 DEF SelectBranch, TrapBranch, IntBranch, NoBranch
  <2>3. Unit(s).fu = "SC" /\ branch'.sqN = Minus(s, 1)  BY <1>3, <2>2 DEF MemBranch
  <2>4. s \in SqNs /\ Waiting(s) /\ ~Squashed(s, branch) /\ s = baseIndex /\ ~AllowTimeout
    BY <2>3, MemCandidateExecutes DEF MayExecute, ScNeverTimesOut
  <2>5. n <= Pos(s)  BY <2>4, WaitingStays
  <2>6. Pos(s) = 0 /\ n = 0
    <3>1. Pos(s) = 0  BY <2>4, PlusMinusOne DEF Pos
    <3> QED  BY <2>5, <3>1, WidthType, SMT
  <2>7. baseIndex' = baseIndex
    BY <2>4, <2>6, SqNState, RingType, SMT DEF Advances, Plus, SqNs
  <2>8. Diff(Minus(s, 1), s) = -1  BY <2>4, RingType, SMT DEF Diff, Minus, SqNs
  <2> QED  BY <2>3, <2>4, <2>7, <2>8
<1>4. \A s \in intRes' : backend'[RobIdx(s)].mispred
  BY <1>1, RaisedUnresolved
<1>5. QED  BY <1>2, <1>3, <1>4 DEF RedirectsRaised, Pos, Unit

LEMMA NextRaised ==
  ASSUME ScNeverTimesOut
  PROVE  RaisedInv /\ [AnyNext]_vars => RaisedInv'
<1> SUFFICES ASSUME RaisedInv, [AnyNext]_vars  PROVE  RaisedInv'
  OBVIOUS
<1>1. WindowInv /\ WindowInv'  BY NextWindow DEF RaisedInv
<1>2. CASE AnyNext
  <2>1. PICK F \in AnyCompletions : Cycle(F)  BY <1>2 DEF AnyNext
  <2>2. F \in SUBSET FlagsUOp  BY <1>1, CompletionsType DEF WindowInv
  <2>3. /\ RedirectCycle(F) \/ ReplayCycle(F) \/ TrapCycle(F) \/ CommitCycle(F)
        /\ RedirectStep(F) /\ BackendStep(F)
    BY <2>1 DEF Cycle
  <2>4. PICK n \in 0 .. Width : Advances(n)  BY <1>1, <2>3, BaseStep
  <2>5. LastIs(lastIndex')  BY <1>1, <2>2, <2>3, LastStep DEF LastIs
  <2>6. RedirectCovers'  BY <1>1, <2>3, RedirectCoversStep
  <2>7. RedirectsRaised'  BY <1>1, <2>3, <2>4, <2>5, RedirectsRaisedStep
  <2> QED  BY <1>1, <2>6, <2>7 DEF RaisedInv
<1>3. CASE UNCHANGED vars
  <2>1. RedirectCovers' /\ RedirectsRaised'
    BY <1>3 DEF RaisedInv, vars, robVars, RedirectCovers, RedirectsRaised, Pos, InROB, Unit
  <2> QED  BY <1>1, <2>1 DEF RaisedInv
<1>4. QED  BY <1>2, <1>3

LEMMA NextResolved ==
  ASSUME ScNeverTimesOut
  PROVE  ResolvedInv /\ [Next]_vars => ResolvedInv'
<1> SUFFICES ASSUME ResolvedInv, [Next]_vars  PROVE  ResolvedInv'
  OBVIOUS
<1>1. RaisedInv /\ RaisedInv'  BY NextRaised, NextIsAny DEF ResolvedInv
<1>2. CASE Next
  <2>1. PICK F \in Completions : Cycle(F)  BY <1>2 DEF Next
  <2>2. F \in AnyCompletions  BY CompletionsAreAny
  <2>3. F \in SUBSET FlagsUOp  BY <1>1, <2>2, CompletionsType DEF RaisedInv, WindowInv
  <2>4. /\ RedirectCycle(F) \/ ReplayCycle(F) \/ TrapCycle(F) \/ CommitCycle(F)
        /\ BackendStep(F)
    BY <2>1 DEF Cycle
  <2>5. EnqueueStep(rnUOp, F, branch)
    BY <2>4 DEF RedirectCycle, ReplayCycle, TrapCycle, CommitCycle, ROBReplay, ROBStop, ROBCommit
  <2>6. WindowInv  BY <1>1 DEF RaisedInv
  <2>7. PICK n \in 0 .. Width : Advances(n)  BY <2>4, <2>6, BaseStep
  <2>8. LastIs(lastIndex')  BY <2>3, <2>4, <2>6, LastStep DEF LastIs
  <2>9. ASSUME NEW s \in SqNs, InROB(s)', backend'[RobIdx(s)].mispred
        PROVE  flags'[RobIdx(s)] = "NX"
    <3>1. CASE Enqueued(RobIdx(s), rnUOp, branch) # {}
      BY <1>1, <2>2, <2>4, <2>5, <2>9, <3>1, RobIdxType, EntersUnresolved
    <3>2. CASE Enqueued(RobIdx(s), rnUOp, branch) = {}
      <4>1. InROB(s)  BY <2>6, <2>7, <2>8, <2>9, <3>2, EnteredOrKept
      <4> QED  BY <2>4, <2>5, <2>9, <3>2, <4>1, ExecutesResolved
    <3> QED  BY <3>1, <3>2
  <2>10. MispredictResolved'  BY <2>9 DEF MispredictResolved
  <2> QED  BY <1>1, <2>10 DEF ResolvedInv
<1>3. CASE UNCHANGED vars
  <2>1. MispredictResolved'
    BY <1>3 DEF ResolvedInv, vars, robVars, MispredictResolved, InROB
  <2> QED  BY <1>1, <2>1 DEF ResolvedInv
<1>4. QED  BY <1>2, <1>3

\* After reset no branch has executed.
LEMMA InitRaised == Init => RaisedInv
<1>1. Init => RedirectCovers  BY DEF Init, RedirectCovers
<1>2. Init => RedirectsRaised  BY DEF Init, RedirectsRaised, NoBranch
<1>3. QED  BY <1>1, <1>2, InitWindow DEF RaisedInv

LEMMA InitResolved == Init => ResolvedInv
<1>1. Init => MispredictResolved
  <2>1. \A s \in SqNs : RobIdx(s) \in RobIdxs  BY RobIdxType
  <2> QED  BY <2>1 DEF Init, NoBackendUOp, MispredictResolved
<1>2. QED  BY <1>1, InitRaised DEF ResolvedInv

\* A mispredicted branch only executes together with its own redirect: no other one
\* takes its place (BranchSelector.sv), for every size of the machine.
THEOREM MispredictResolvedCorrect ==
  ASSUME ScNeverTimesOut
  PROVE  Spec => []MispredictResolved
<1>1. Init => ResolvedInv  BY InitResolved
<1>2. ResolvedInv /\ [Next]_vars => ResolvedInv'  BY NextResolved
<1>3. ResolvedInv => MispredictResolved  BY DEF ResolvedInv
<1>4. QED  BY <1>1, <1>2, <1>3, PTL DEF Spec

=============================================================================
