--------------------------- MODULE FreeListProofs ---------------------------
(***************************************************************************)
(* No physical register is allocated twice and none is lost (TagPartition),*)
(* and the list that a flush falls back to is always right                 *)
(* (CommittedFreeList), for every size of the machine.                     *)
(*                                                                         *)
(* The argument follows a register from owner to owner: free, ready at a   *)
(* rename port, handed over by rename, in the buffer, being committed,     *)
(* committed.  In every cycle each owner hands its register to one owner.  *)
(* After a redirect the free list also has the registers of the uops that  *)
(* survive, until the replay has claimed them again.                       *)
(*                                                                         *)
(* From the one owner of a register it also follows that the committed map *)
(* only names registers with a value (CommittedProduced).                  *)
(***************************************************************************)
EXTENDS RenameCommitProofs

RobOwns(s, t)    == InROB(s) /\ entries[RobIdx(s)].tag = t
RenameOwns(i, t) == i \in Port /\ InRename(i) /\ rnUOp[i].tagDst = t
CommitOwns(i, t) == i \in Port /\ ~mispredFlush /\ comUOp[i].valid /\ comUOp[i].tag = t
ReadyOwns(i, t)  == i \in Port /\ issueTag[i] = t
ArchOwns(r, t)   == r \in Reg /\ comTag[r] = t

\* Something of kind k, named x, owns register t.
Owns(k, x, t) ==
  \/ k = "rob"    /\ RobOwns(x, t)
  \/ k = "rename" /\ RenameOwns(x, t)
  \/ k = "commit" /\ CommitOwns(x, t)
  \/ k = "ready"  /\ ReadyOwns(x, t)
  \/ k = "arch"   /\ ArchOwns(x, t)

Kind == {"rob", "rename", "commit", "ready", "arch"}

OwnedOnce(t) ==
  \A k, l \in Kind : \A x, y \in Nat : Owns(k, x, t) /\ Owns(l, y, t) => k = l /\ x = y

\* A uop that has survived a redirect and whose register is still in the free list.
Pending(s) ==
  \/ mispredFlush /\ \E i \in Port : comUOp[i].valid /\ comUOp[i].tag = entries[RobIdx(s)].tag
  \/ misprReplay_r.valid /\ Diff(s, misprReplay_r.iterSqN) >= 0

FreeApart(t) == \A k \in Kind, x \in Nat : Owns(k, x, t) => k = "rob" /\ Pending(x)

\* The replay runs through the buffer, which does not change meanwhile.
ReplayRange ==
  misprReplay_r.valid =>
    /\ lastIndex = Plus(misprReplay_r.endSqN, 1)
    /\ \A i \in Port : ~rnUOp[i].valid
    /\ 0 <= Pos(misprReplay_r.iterSqN) /\ Pos(misprReplay_r.iterSqN) < Pos(lastIndex)

\* What is replayed is in the buffer.
ReplayHeld ==
  mispredFlush => \A i \in Port : comUOp[i].valid => \E s \in SqNs : RobOwns(s, comUOp[i].tag)

\* The register is free or has an owner.
Kept(t) == t \in free \/ \E k \in Kind, x \in Nat : Owns(k, x, t)

\* A register of an uop that trapped or was squashed comes back with the redirect.
NoLeak == ~branch.taken /\ ~trapUOp.valid => \A t \in RFTag : Kept(t)

\* The inductive invariant.
FreeListInv ==
  /\ WindowInv
  /\ \A t \in RFTag : OwnedOnce(t)
  /\ \A t \in free : FreeApart(t)
  /\ CommittedFreeList
  /\ ReplayRange
  /\ ReplayHeld
  /\ NoLeak

-----------------------------------------------------------------------------
(* One cycle's commits. *)

\* The registers that the commits of this cycle free and claim.
Freed(t)   == \E i \in Port : t \in Frees(comUOp[i], NewestCommit(i, comUOp))
Claimed(t) == \E i \in Port : t \in Claims(comUOp[i], NewestCommit(i, comUOp))

\* Of several ports there is a last one.
LEMMA LastPortOf ==
  ASSUME NEW S, S \subseteq Port, S # {}
  PROVE  \E i \in S : \A j \in S : j <= i
<1> DEFINE T == {Width - 1 - i : i \in S}
<1>1. T \subseteq Nat /\ T # {}
  <2>1. \A i \in Port : Width - 1 - i \in Nat  BY WidthType, SMT DEF Port
  <2> QED  BY <2>1
<1>2. PICK x \in T : \A y \in T : x <= y  BY <1>1, LeastNat
<1>3. PICK i \in S : x = Width - 1 - i  OBVIOUS
<1>4. ASSUME NEW j \in S
      PROVE  j <= i
  <2>1. x <= Width - 1 - j  BY <1>2
  <2>2. i \in Port /\ j \in Port  OBVIOUS
  <2> QED  BY <1>3, <2>1, <2>2, WidthType, SMT DEF Port
<1>5. QED  BY <1>4

\* A register is either freed or claimed, whatever the order of the ports.
LEMMA CommittedMember ==
  ASSUME NEW t \in RFTag, ~(Freed(t) /\ Claimed(t)), NEW list
  PROVE  t \in Committed(list, comUOp) <=> Freed(t) \/ (t \in list /\ ~Claimed(t))
<1> DEFINE newest == {i \in Port : NewestCommit(i, comUOp)}
           claims(i) == Claims(comUOp[i], i \in newest)
           frees(i) == Frees(comUOp[i], i \in newest)
           ports == {i \in Port : t \in frees(i) \cup claims(i)}
<1>1. ASSUME NEW i \in Port
      PROVE  /\ claims(i) = Claims(comUOp[i], NewestCommit(i, comUOp))
             /\ frees(i) = Frees(comUOp[i], NewestCommit(i, comUOp))
  <2>1. i \in newest <=> NewestCommit(i, comUOp)  OBVIOUS
  <2>2. CASE NewestCommit(i, comUOp)
    BY <2>1, <2>2 DEF Claims, Frees
  <2>3. CASE ~NewestCommit(i, comUOp)
    BY <2>1, <2>3 DEF Claims, Frees
  <2> QED  BY <2>2, <2>3
<1>2. t \in Committed(list, comUOp) <=>
        IF ports = {} THEN t \in list
        ELSE \E i \in ports : (\A j \in ports : j <= i) /\ t \notin claims(i)
  BY DEF Committed
<1>3. Freed(t) <=> \E i \in Port : t \in frees(i)  BY <1>1 DEF Freed
<1>4. Claimed(t) <=> \E i \in Port : t \in claims(i)  BY <1>1 DEF Claimed
<1>5. ports # {} => \E i \in ports : \A j \in ports : j <= i
  <2>1. ports \subseteq Port  OBVIOUS
  <2> HIDE DEF ports
  <2> QED  BY <2>1, LastPortOf
<1> HIDE DEF claims, frees, newest
<1>6. QED  BY <1>2, <1>3, <1>4, <1>5

\* What frees a register, and what claims it.
LEMMA WhoFrees ==
  ASSUME NEW t \in RFTag
  PROVE  /\ Freed(t) <=> \E i \in Port : /\ comUOp[i].valid
                                         /\ \/ NewestCommit(i, comUOp) /\ comTag[comUOp[i].rd] = t
                                            \/ ~NewestCommit(i, comUOp) /\ comUOp[i].tag = t
         /\ Claimed(t) <=> \E i \in Port : NewestCommit(i, comUOp) /\ comUOp[i].tag = t
<1>1. ASSUME NEW i \in Port
      PROVE  t \in Frees(comUOp[i], NewestCommit(i, comUOp)) <=>
               /\ comUOp[i].valid
               /\ \/ NewestCommit(i, comUOp) /\ comTag[comUOp[i].rd] = t
                  \/ ~NewestCommit(i, comUOp) /\ comUOp[i].tag = t
  <2>1. CASE NewestCommit(i, comUOp)
    BY <2>1 DEF Frees, CommitPrevTag
  <2>2. CASE ~NewestCommit(i, comUOp)
    BY <2>2 DEF Frees
  <2> QED  BY <2>1, <2>2
<1>2. ASSUME NEW i \in Port
      PROVE  t \in Claims(comUOp[i], NewestCommit(i, comUOp)) <=>
               NewestCommit(i, comUOp) /\ comUOp[i].tag = t
  BY DEF Claims, NewestCommit
<1>3. QED  BY <1>1, <1>2 DEF Freed, Claimed

\* Of several commits of one register in a cycle one is the newest.
LEMMA NewestIsUnique ==
  ASSUME NEW i \in Port, NEW j \in Port, NewestCommit(i, comUOp), NewestCommit(j, comUOp),
         comUOp[i].rd = comUOp[j].rd
  PROVE  i = j
<1>1. ~(j > i) /\ ~(i > j)  BY DEF NewestCommit
<1>2. QED  BY <1>1, WidthType, SMT DEF Port

\* A register changes hands at commit at most once.
LEMMA FreedOrClaimed ==
  ASSUME TypeOK, NEW t \in RFTag, OwnedOnce(t), ~mispredFlush
  PROVE  ~(Freed(t) /\ Claimed(t))
<1> SUFFICES ASSUME Freed(t), Claimed(t)  PROVE FALSE
  OBVIOUS
<1>1. PICK i \in Port : NewestCommit(i, comUOp) /\ comUOp[i].tag = t  BY WhoFrees
<1>2. PICK j \in Port : /\ comUOp[j].valid
                        /\ \/ NewestCommit(j, comUOp) /\ comTag[comUOp[j].rd] = t
                           \/ ~NewestCommit(j, comUOp) /\ comUOp[j].tag = t
  BY WhoFrees
<1>3. i \in Nat /\ j \in Nat  BY WidthType, SMT DEF Port
<1>4. Owns("commit", i, t)  BY <1>1 DEF Owns, CommitOwns, NewestCommit
<1>5. CASE NewestCommit(j, comUOp) /\ comTag[comUOp[j].rd] = t
  <2>1. comUOp[j].rd \in Reg /\ comUOp[j].rd \in Nat
    <3>1. comUOp[j] \in RATWrite  BY DEF TypeOK, ROBTypeOK
    <3> QED  BY <3>1, IncludeAssumption, SMT DEF RATWrite, Reg
  <2>2. Owns("arch", comUOp[j].rd, t)  BY <1>5, <2>1 DEF Owns, ArchOwns
  <2> QED  BY <1>3, <1>4, <2>1, <2>2 DEF OwnedOnce, Kind
<1>6. CASE ~NewestCommit(j, comUOp) /\ comUOp[j].tag = t
  <2>1. Owns("commit", j, t)  BY <1>2, <1>6 DEF Owns, CommitOwns
  <2>2. i = j  BY <1>3, <1>4, <2>1 DEF OwnedOnce, Kind
  <2> QED  BY <1>1, <1>6, <2>2
<1>7. QED  BY <1>2, <1>5, <1>6

\* The committed map after the commits.
LEMMA WrittenByCommit ==
  ASSUME NEW r \in Reg, NEW t
  PROVE  Written(comTag, comUOp)[r] = t <=>
           \/ \E i \in Port : NewestCommit(i, comUOp) /\ comUOp[i].rd = r /\ comUOp[i].tag = t
           \/ /\ comTag[r] = t
              /\ \A i \in Port : NewestCommit(i, comUOp) => comUOp[i].rd # r
<1>1. ASSUME NEW i \in Port
      PROVE  LastWriter(i, r, comUOp) <=> NewestCommit(i, comUOp) /\ comUOp[i].rd = r
  BY DEF LastWriter, NewestCommit
<1>2. CASE \E i \in Port : LastWriter(i, r, comUOp)
  <2> DEFINE c == CHOOSE i \in Port : LastWriter(i, r, comUOp)
  <2>1. c \in Port /\ LastWriter(c, r, comUOp)  BY <1>2
  <2>2. Written(comTag, comUOp)[r] = comUOp[c].tag  BY <1>2 DEF Written
  <2> HIDE DEF c
  <2>3. NewestCommit(c, comUOp) /\ comUOp[c].rd = r  BY <1>1, <2>1
  <2>4. \A i \in Port : NewestCommit(i, comUOp) /\ comUOp[i].rd = r => i = c
    BY <2>1, <2>3, NewestIsUnique
  <2> QED  BY <2>1, <2>2, <2>3, <2>4
<1>3. CASE ~ \E i \in Port : LastWriter(i, r, comUOp)
  <2>1. Written(comTag, comUOp)[r] = comTag[r]  BY <1>3 DEF Written
  <2> QED  BY <1>1, <1>3, <2>1
<1>4. QED  BY <1>2, <1>3

-----------------------------------------------------------------------------
(* What a cycle does. *)

\* Rename: used are the ports whose ready register goes to a uop.
RenameMoves(used) ==
  /\ TBClock(branch.taken, mispredFlush, used, comUOp)
  /\ comTag' = IF mispredFlush THEN comTag ELSE Written(comTag, comUOp)
  /\ \A i \in used : /\ ~branch.taken /\ issueTag[i] \in RFTag
                     /\ rnUOp'[i].valid /\ rnUOp'[i].tagDst = issueTag[i]
  /\ \A i \in Port \ used : rnUOp'[i].tagDst \notin RFTag

\* Immediates are no registers.
LEMMA ImmediatesAreNoRegisters == TAG_ZERO \notin RFTag /\ TAG_ONE \notin RFTag
  BY IncludeAssumption, SMT DEF TAG_ZERO, TAG_ONE, RFTag

\* A cycle in which rename hands over nothing uses no register.
LEMMA NothingRenamed ==
  ASSUME rnUOp' = [i \in Port |-> NoRUOp],
         TBClock(branch.taken, mispredFlush, {}, comUOp),
         comTag' = IF mispredFlush THEN comTag ELSE Written(comTag, comUOp)
  PROVE  RenameMoves({})
<1>1. \A i \in Port : rnUOp'[i].tagDst = TAG_ZERO  BY DEF NoRUOp
<1>2. QED  BY <1>1, ImmediatesAreNoRegisters DEF RenameMoves

\* A cycle in which rename takes uops.
LEMMA AcceptMoves ==
  ASSUME TypeOK, ~branch.taken, NEW uop \in DecodedUOps(DUOps), NEW F,
         RNAccept(mispredFlush, uop, comUOp, F)
  PROVE  \E used \in SUBSET Port : RenameMoves(used)
<1> DEFINE used == {i \in Port : TagNeeded(uop[i])}
<1>1. /\ ~Stall(uop)
      /\ rnUOp' = [i \in Port |-> IF Decoded(uop, i) THEN Renamed(uop, i, WrittenBack(F))
                                  ELSE NoRUOp]
      /\ RATClock(FALSE, mispredFlush, Issue(uop), comUOp, WrittenBack(F))
      /\ TBClock(FALSE, mispredFlush, used, comUOp)
  BY DEF RNAccept
<1>2. branch.taken = FALSE
  <2>1. branch.taken \in BOOLEAN  BY SqNState
  <2> QED  BY <2>1
<1>3. ASSUME NEW i \in used
      PROVE  issueTag[i] \in RFTag /\ rnUOp'[i].valid /\ rnUOp'[i].tagDst = issueTag[i]
  <2>1. Decoded(uop, i)
    <3>1. uop[i] = NoDUOp => ~TagNeeded(uop[i])  BY DEF TagNeeded, NoDUOp
    <3> QED  BY <3>1 DEF Decoded
  <2>2. rnUOp'[i] = Renamed(uop, i, WrittenBack(F))  BY <1>1, <2>1
  <2>3. rnUOp'[i].valid = TRUE /\ rnUOp'[i].tagDst = NewTag(uop, i)  BY <2>2 DEF Renamed
  <2>4. NewTag(uop, i) = issueTag[i]
    <3>1. TagNeeded(uop[i])  OBVIOUS
    <3>2. uop[i].fu # "RN" /\ ~ScFails(uop, i)  BY <3>1 DEF TagNeeded, ScFails
    <3> HIDE DEF used
    <3> QED  BY <3>1, <3>2 DEF NewTag
  <2>5. issueTag[i] # NoTag  BY <1>1 DEF Stall
  <2> QED  BY <2>3, <2>4, <2>5 DEF TypeOK, TBTypeOK
<1>4. ASSUME NEW i \in Port \ used
      PROVE  rnUOp'[i].tagDst \notin RFTag
  <2>1. CASE Decoded(uop, i)
    <3>1. rnUOp'[i] = Renamed(uop, i, WrittenBack(F))  BY <1>1, <2>1
    <3>2. rnUOp'[i].tagDst = NewTag(uop, i)  BY <3>1 DEF Renamed
    <3>3. NewTag(uop, i) = TAG_ONE \/ NewTag(uop, i) = TAG_ZERO  BY DEF NewTag
    <3> QED  BY <3>2, <3>3, ImmediatesAreNoRegisters
  <2>2. CASE ~Decoded(uop, i)
    <3>1. rnUOp'[i] = NoRUOp  BY <1>1, <2>2
    <3> QED  BY <3>1, ImmediatesAreNoRegisters DEF NoRUOp
  <2> QED  BY <2>1, <2>2
<1>5. used \in SUBSET Port  OBVIOUS
<1> HIDE DEF used
<1>6. RenameMoves(used)  BY <1>1, <1>2, <1>3, <1>4 DEF RenameMoves, RATClock
<1>7. QED  BY <1>5, <1>6

\* Rename in any cycle.
LEMMA RenameAlwaysMoves ==
  ASSUME TypeOK, NEW F,
         RedirectCycle(F) \/ ReplayCycle(F) \/ TrapCycle(F) \/ CommitCycle(F)
  PROVE  \E used \in SUBSET Port : RenameMoves(used)
<1>1. branch.taken \in BOOLEAN  BY SqNState
<1>2. CASE branch.taken /\ RNRedirect(branch, mispredFlush, comUOp, F)
  <2>1. branch.taken = TRUE  BY <1>1, <1>2
  <2>2. RenameMoves({})  BY <1>2, <2>1, NothingRenamed DEF RNRedirect, RATClock
  <2> QED  BY <2>2
<1>3. CASE ~branch.taken /\ RNIdle(mispredFlush, comUOp, F)
  <2>1. branch.taken = FALSE  BY <1>1, <1>3
  <2>2. RenameMoves({})  BY <1>3, <2>1, NothingRenamed DEF RNIdle, RATClock
  <2> QED  BY <2>2
<1>4. CASE ~branch.taken /\ \E uop \in DecodedUOps(DUOps) :
             RNAccept(mispredFlush, uop, comUOp, F)
  BY <1>4, AcceptMoves
<1>5. QED  BY <1>2, <1>3, <1>4 DEF RedirectCycle, ReplayCycle, TrapCycle, CommitCycle, RenameStep

\* The buffer: n uops leave it.
RobMoves(n) ==
  /\ Advances(n) /\ LastIs(lastIndex')
  /\ \A s \in SqNs : InROB(s) => entries'[RobIdx(s)] = entries[RobIdx(s)]
  /\ \A i \in Port : ~branch.taken /\ rnUOp[i].valid =>
       entries'[RobIdx(rnUOp[i].sqN)].tag = rnUOp[i].tagDst
  /\ ~mispredFlush' => \A i \in Port : comUOp'[i].valid /\ comUOp'[i].tag \in RFTag =>
       i < n /\ comUOp'[i].tag = entries[Deq(i)].tag
  /\ ~branch.taken /\ ~mispredFlush' /\ ~trapUOp'.valid => \A i \in Port : i < n =>
       comUOp'[i].valid /\ comUOp'[i].tag = entries[Deq(i)].tag
  /\ mispredFlush' => n = 0

\* What rename has handed over gets an entry of its own.
LEMMA EnteredEntry ==
  ASSUME WindowInv, ~branch.taken, NEW i \in Port, rnUOp[i].valid,
         NEW F, EnqueueStep(rnUOp, F, branch)
  PROVE  entries'[RobIdx(rnUOp[i].sqN)].tag = rnUOp[i].tagDst
<1> USE DEF WindowInv
<1> DEFINE k == RobIdx(rnUOp[i].sqN)
<1>1. PICK m \in 0 .. Width :
        \A j \in Port : /\ rnUOp[j].valid <=> j < m
                        /\ j < m => Pos(rnUOp[j].sqN) = Pos(lastIndex) + j
  BY DEF RenamedInOrder
<1>2. \A j \in Port : rnUOp[j].sqN \in SqNs  BY SqNState
<1>3. baseIndex \in SqNs /\ Pos(lastIndex) \in Int  BY SqNState, PosType
<1>4. i \in Enqueued(k, rnUOp, branch)  BY DEF Enqueued
<1>5. ASSUME NEW j \in Enqueued(k, rnUOp, branch)
      PROVE  j = i
  <2>1. j \in Port /\ rnUOp[j].valid /\ RobIdx(rnUOp[j].sqN) = RobIdx(rnUOp[i].sqN)
    BY DEF Enqueued
  <2>2. /\ Pos(rnUOp[j].sqN) = Pos(lastIndex) + j
        /\ Pos(rnUOp[i].sqN) = Pos(lastIndex) + i
    BY <1>1, <2>1
  <2>3. i \in Nat /\ j \in Nat  BY <2>1, WidthType, SMT DEF Port
  <2>4. 0 <= Pos(rnUOp[j].sqN) /\ 0 <= Pos(rnUOp[i].sqN)  BY <1>3, <2>2, <2>3, SMT
  <2>5. rnUOp[j].sqN = rnUOp[i].sqN
    BY <1>2, <1>3, <2>1, <2>4, RobIdxInjective DEF Pos
  <2> QED  BY <1>3, <2>2, <2>3, <2>5, SMT
<1>6. (CHOOSE j \in Enqueued(k, rnUOp, branch) : TRUE) = i
  <2>1. Enqueued(k, rnUOp, branch) = {i}  BY <1>4, <1>5
  <2> QED  BY <2>1
<1>7. k \in RobIdxs  BY <1>2, RobIdxType
<1>8. entries'[k] = EntryOf(rnUOp[i])
  <2> HIDE DEF k
  <2>1. Enqueued(k, rnUOp, branch) # {}  BY <1>4
  <2>2. entries'[k] = EntryOf(rnUOp[CHOOSE j \in Enqueued(k, rnUOp, branch) : TRUE])
    BY <1>7, <2>1 DEF EnqueueStep
  <2> QED  BY <1>6, <2>2
<1>9. QED  BY <1>8 DEF EntryOf

\* What is in the buffer keeps its entry.
LEMMA KeptEntry ==
  ASSUME WindowInv, NEW s \in SqNs, InROB(s), NEW F, EnqueueStep(rnUOp, F, branch)
  PROVE  entries'[RobIdx(s)] = entries[RobIdx(s)]
<1>1. Enqueued(RobIdx(s), rnUOp, branch) = {}  BY EntryNotOverwritten
<1>2. RobIdx(s) \in RobIdxs  BY RobIdxType
<1>3. QED  BY <1>1, <1>2 DEF EnqueueStep

\* What leaves the buffer is what the commit ports show.
LEMMA CommitShows ==
  ASSUME NEW n \in 0 .. Width, NEW hang, Commits(n, hang), CommitStep(n, hang)
  PROVE  /\ \A i \in Port : comUOp'[i].valid /\ comUOp'[i].tag \in RFTag =>
              i < n /\ comUOp'[i].tag = entries[Deq(i)].tag
         /\ ~trapUOp'.valid => \A i \in Port : i < n =>
              comUOp'[i].valid /\ comUOp'[i].tag = entries[Deq(i)].tag
<1>1. \A i \in Port : comUOp'[i] = IF i < n THEN CommittedUOp(i, hang) ELSE NoRATWrite
  BY DEF CommitStep
<1>2. ASSUME NEW i \in Port, comUOp'[i].valid, comUOp'[i].tag \in RFTag
      PROVE  i < n /\ comUOp'[i].tag = entries[Deq(i)].tag
  <2>1. comUOp'[i] # NoRATWrite  BY <1>2 DEF NoRATWrite
  <2>2. i < n /\ comUOp'[i] = CommittedUOp(i, hang)  BY <1>1, <2>1
  <2>3. ~IsException(i, hang)
    BY <1>2, <2>2, ImmediatesAreNoRegisters DEF CommittedUOp
  <2> QED  BY <2>2, <2>3 DEF CommittedUOp
<1>3. ASSUME ~trapUOp'.valid, NEW i \in Port, i < n
      PROVE  comUOp'[i].valid /\ comUOp'[i].tag = entries[Deq(i)].tag
  <2>1. ~SendsTrap(i, hang)
    <3>1. CASE i + 1 < n
      BY <3>1 DEF Commits
    <3>2. CASE ~(i + 1 < n)
      <4>1. i = n - 1 /\ n > 0
        <5>1. i \in Int /\ 0 <= i /\ n \in Int  BY WidthType, SMT DEF Port
        <5> QED  BY <1>3, <3>2, <5>1, SMT
      <4>2. SendsTrap(n - 1, hang) => trapUOp' = TrapOf(n - 1, hang)
        BY <4>1 DEF CommitStep
      <4>3. trapUOp' # TrapOf(n - 1, hang)  BY <1>3 DEF TrapOf
      <4> QED  BY <4>1, <4>2, <4>3
    <3> QED  BY <3>1, <3>2
  <2>2. ~IsException(i, hang)  BY <2>1 DEF IsException, SendsTrap
  <2>3. comUOp'[i] = CommittedUOp(i, hang)  BY <1>1, <1>3
  <2> QED  BY <2>2, <2>3 DEF CommittedUOp
<1>4. QED  BY <1>2, <1>3

\* The buffer in any cycle.
LEMMA RobAlwaysMoves ==
  ASSUME WindowInv, NEW F \in SUBSET FlagsUOp,
         RedirectCycle(F) \/ ReplayCycle(F) \/ TrapCycle(F) \/ CommitCycle(F)
  PROVE  \E n \in 0 .. Width : RobMoves(n)
<1>1. PICK m \in 0 .. Width : Advances(m)  BY BaseStep
<1>2. LastIs(lastIndex')  BY LastStep DEF LastIs
<1>3. EnqueueStep(rnUOp, F, branch)
  BY DEF RedirectCycle, ReplayCycle, TrapCycle, CommitCycle, ROBReplay, ROBStop, ROBCommit
<1>4. \A s \in SqNs : InROB(s) => entries'[RobIdx(s)] = entries[RobIdx(s)]
  BY <1>3, KeptEntry
<1>5. \A i \in Port : ~branch.taken /\ rnUOp[i].valid =>
        entries'[RobIdx(rnUOp[i].sqN)].tag = rnUOp[i].tagDst
  BY <1>3, EnteredEntry
<1>6. ASSUME NEW n \in 0 .. Width, NEW hang, Commits(n, hang), CommitStep(n, hang)
      PROVE  RobMoves(n)
  <2>1. baseIndex' = Plus(baseIndex, n) /\ baseIndex' = Plus(baseIndex, m)
    BY <1>1, <1>6 DEF CommitStep, Advances
  <2>2. n = m
    <3>1. n \in Nat /\ m \in Nat /\ n < Ring /\ m < Ring  BY WidthType, RingType, SMT
    <3>2. baseIndex \in SqNs  BY SqNState DEF WindowInv
    <3> QED  BY <2>1, <3>1, <3>2, RingType, SMT DEF Plus, SqNs
  <2>3. Advances(n)  BY <1>1, <2>2
  <2>4. ~mispredFlush'  BY <1>6 DEF CommitStep
  <2> QED  BY <1>2, <1>4, <1>5, <1>6, <2>3, <2>4, CommitShows DEF RobMoves
<1>7. CASE RedirectCycle(F) \/ ReplayCycle(F)
  <2>1. ReplayStep(Replaying(branch))  BY <1>7 DEF RedirectCycle, ReplayCycle, ROBReplay
  <2>2. 0 \in 0 .. Width /\ Advances(0)
    BY <2>1, AdvancesNone DEF ReplayStep, WindowInv
  <2>3. ~mispredFlush' => \A i \in Port : comUOp'[i] = NoRATWrite
    BY <2>1 DEF ReplayStep, ReplayedUOp
  <2>4. ~NoRATWrite.valid  BY DEF NoRATWrite
  <2>5. \A i \in Port : ~(i < 0)  BY WidthType, SMT DEF Port
  <2>6. RobMoves(0)  BY <1>2, <1>4, <1>5, <2>2, <2>3, <2>4, <2>5 DEF RobMoves
  <2> QED  BY <2>2, <2>6
<1>8. CASE TrapCycle(F)
  <2>1. CommitStep(0, FALSE)  BY <1>8 DEF TrapCycle, ROBStop
  <2>2. Commits(0, FALSE)
    <3>1. \A i \in Port : ~(i < 0) /\ ~(i + 1 < 0)  BY WidthType, SMT DEF Port
    <3> QED  BY <3>1 DEF Commits
  <2>3. 0 \in 0 .. Width  BY WidthType, SMT
  <2> QED  BY <1>6, <2>1, <2>2, <2>3
<1>9. CASE CommitCycle(F)
  <2>1. \E n \in 0 .. Width, hang \in {FALSE, AllowTimeout} :
          Commits(n, hang) /\ CommitStep(n, hang)
    BY <1>9 DEF CommitCycle, ROBCommit
  <2> QED  BY <1>6, <2>1
<1>10. QED  BY <1>7, <1>8, <1>9

-----------------------------------------------------------------------------
(* From owner to owner. *)

\* What owner x of kind k hands its register to in a cycle.
Hands(n, used, k, x, l, y) ==
  \/ k = "rob"    /\ n <= Pos(x)    /\ l = "rob"    /\ y = x
  \/ k = "rob"    /\ ~(n <= Pos(x)) /\ l = "commit" /\ y = Pos(x)
  \/ k = "rename" /\ l = "rob" /\ y = rnUOp[x].sqN
  \/ k = "ready"  /\ x \notin used /\ l = "ready"  /\ y = x
  \/ k = "ready"  /\ x \in used    /\ l = "rename" /\ y = x
  \/ k = "commit" /\ l = "arch" /\ y = comUOp[x].rd
  \/ k = "arch"   /\ l = "arch" /\ y = x

\* The ports that take a new register in this cycle.
Refilling(used) == Refills(used, branch.taken \/ mispredWait \/ mispredFlush)

\* Owners are natural numbers, whatever their kind.
LEMMA OwnerType ==
  ASSUME NEW k, NEW x, NEW t, Owns(k, x, t)
  PROVE  k \in Kind /\ x \in Nat
<1>1. InROB(x) => x \in Nat  BY RingType, SMT DEF InROB, SqNs
<1>2. x \in Port => x \in Nat  BY WidthType, SMT DEF Port
<1>3. x \in Reg => x \in Nat  BY IncludeAssumption, SMT DEF Reg
<1>4. QED
  BY <1>1, <1>2, <1>3
     DEF Owns, Kind, RobOwns, RenameOwns, CommitOwns, ReadyOwns, ArchOwns

\* Where the registers in the buffer come from.
LEMMA RobSource ==
  ASSUME WindowInv, NEW n \in 0 .. Width, RobMoves(n), NEW s, NEW t, RobOwns(s, t)'
  PROVE  \/ RobOwns(s, t) /\ n <= Pos(s)
         \/ \E i \in Port : RenameOwns(i, t) /\ rnUOp[i].sqN = s
<1> USE DEF WindowInv
<1>1. s \in SqNs /\ InROB(s)' /\ entries'[RobIdx(s)].tag = t  BY DEF RobOwns, InROB
<1>2. n <= Pos(s) /\ Pos(s) < Pos(lastIndex')
  BY <1>1, InROBAfter DEF RobMoves
<1>3. /\ n \in Nat /\ Pos(s) \in Int /\ Pos(lastIndex) \in Int /\ Pos(branch.sqN) \in Int
      /\ Pos(s) < ROBSize
  BY <1>1, SqNState, PosType, WidthType, SMT
<1>4. CASE Pos(s) < Pos(lastIndex)
  <2>1. 0 <= Pos(s)  BY <1>2, <1>3, SMT
  <2>2. InROB(s)  BY <1>1, <1>4, <2>1 DEF InROB, Pos
  <2> QED  BY <1>1, <1>2, <2>2 DEF RobMoves, RobOwns
<1>5. CASE ~(Pos(s) < Pos(lastIndex))
  <2>1. ~branch.taken
    <3> SUFFICES ASSUME branch.taken  PROVE FALSE
      OBVIOUS
    <3>1. Pos(lastIndex') = Pos(branch.sqN) + 1 /\ Pos(branch.sqN) < Pos(lastIndex)
      BY DEF RobMoves, LastIs, BranchInWindow
    <3> QED  BY <1>2, <1>3, <1>5, <3>1, SMT
  <2>2. PICK m \in 0 .. Width :
          /\ \A i \in Port : /\ rnUOp[i].valid <=> i < m
                             /\ i < m => Pos(rnUOp[i].sqN) = Pos(lastIndex) + i
          /\ Pos(counterSqN) = Pos(lastIndex) + m
    BY DEF RenamedInOrder
  <2>3. Pos(lastIndex') = Pos(lastIndex) + m  BY <2>1, <2>2 DEF RobMoves, LastIs
  <2> DEFINE i == Pos(s) - Pos(lastIndex)
  <2>4. i \in Port /\ i < m
    BY <1>2, <1>3, <1>5, <2>3, WidthType, SMT DEF Port
  <2>5. rnUOp[i].valid /\ Pos(rnUOp[i].sqN) = Pos(s)
    <3>1. Pos(lastIndex) + i = Pos(s)  BY <1>3, SMT
    <3> HIDE DEF i
    <3> QED  BY <2>2, <2>4, <3>1
  <2> HIDE DEF i
  <2>6. rnUOp[i].sqN = s
    <3>1. 0 <= Pos(s)  BY <1>2, <1>3, SMT
    <3>2. Pos(s) \in Nat  BY <1>3, <3>1, SMT
    <3>3. rnUOp[i].sqN \in SqNs  BY <2>4, SqNState
    <3> QED  BY <1>1, <1>3, <2>5, <3>2, <3>3, AtPosition
  <2>7. entries'[RobIdx(s)].tag = rnUOp[i].tagDst  BY <2>1, <2>4, <2>5, <2>6 DEF RobMoves
  <2>8. RenameOwns(i, t)  BY <1>1, <2>1, <2>4, <2>5, <2>7 DEF RenameOwns, InRename
  <2> QED  BY <2>4, <2>6, <2>8
<1>6. QED  BY <1>4, <1>5

\* Those of the commit ports.
LEMMA CommitSource ==
  ASSUME WindowInv, NEW n \in 0 .. Width, RobMoves(n),
         NEW i, NEW t \in RFTag, CommitOwns(i, t)'
  PROVE  LET s == Plus(baseIndex, i)
         IN  RobOwns(s, t) /\ Pos(s) = i /\ ~(n <= Pos(s))
<1> USE DEF WindowInv
<1>1. i \in Port /\ ~mispredFlush' /\ comUOp'[i].valid /\ comUOp'[i].tag = t
  BY DEF CommitOwns
<1>2. i < n /\ entries[Deq(i)].tag = t  BY <1>1 DEF RobMoves
<1>3. i \in Nat /\ i < ROBSize /\ n \in Nat  BY <1>1, WidthType, RingType, SMT DEF Port
<1>4. Plus(baseIndex, i) \in SqNs /\ Pos(Plus(baseIndex, i)) = i  BY <1>3, AtPosition
<1>5. i < Pos(lastIndex)
  <2>1. n <= Pos(lastIndex) /\ Pos(lastIndex) \in Int
    BY SqNState, PosType DEF RobMoves, Advances
  <2> QED  BY <1>2, <1>3, <2>1, SMT
<1>6. InROB(Plus(baseIndex, i))
  <2>1. 0 <= i  BY <1>3, SMT
  <2> QED  BY <1>4, <1>5, <2>1 DEF InROB, Pos
<1>7. ~(n <= i)  BY <1>2, <1>3, SMT
<1>8. QED  BY <1>2, <1>4, <1>6, <1>7 DEF RobOwns, Deq

\* Those that rename has ready.
LEMMA ReadySource ==
  ASSUME TypeOK, NEW used \in SUBSET Port, RenameMoves(used),
         NEW i, NEW t \in RFTag, ReadyOwns(i, t)'
  PROVE  \/ ReadyOwns(i, t) /\ i \notin used
         \/ t \in free /\ i \in Refilling(used) /\ Refill(i) = t
<1>1. i \in Port /\ issueTag'[i] = t  BY DEF ReadyOwns
<1>2. issueTag'[i] = IF i \in Refilling(used) THEN Refill(i)
                     ELSE IF branch.taken \/ i \in used THEN NoTag ELSE issueTag[i]
  BY <1>1 DEF RenameMoves, TBClock, Refilling
<1>3. CASE i \in Refilling(used)
  <2>1. \E u \in RFTag : Candidate(i, u)  BY <1>3 DEF Refilling, Refills
  <2>2. Candidate(i, Refill(i))  BY <2>1 DEF Refill
  <2> QED  BY <1>1, <1>2, <1>3, <2>2 DEF Candidate
<1>4. CASE i \notin Refilling(used)
  <2>1. t # NoTag  BY TagType DEF Tag
  <2> QED  BY <1>1, <1>2, <1>4, <2>1 DEF ReadyOwns
<1>5. QED  BY <1>3, <1>4

\* Those that are committed.
LEMMA ArchSource ==
  ASSUME NEW used, RenameMoves(used), NEW r, NEW t, ArchOwns(r, t)'
  PROVE  \/ \E i \in Port : CommitOwns(i, t) /\ NewestCommit(i, comUOp) /\ comUOp[i].rd = r
         \/ /\ ArchOwns(r, t)
            /\ mispredFlush \/ \A i \in Port : NewestCommit(i, comUOp) => comUOp[i].rd # r
<1>1. r \in Reg /\ comTag'[r] = t  BY DEF ArchOwns
<1>2. CASE mispredFlush
  BY <1>1, <1>2 DEF RenameMoves, ArchOwns
<1>3. CASE ~mispredFlush
  <2>1. Written(comTag, comUOp)[r] = t  BY <1>1, <1>3 DEF RenameMoves
  <2>2. \/ \E i \in Port : NewestCommit(i, comUOp) /\ comUOp[i].rd = r /\ comUOp[i].tag = t
        \/ /\ comTag[r] = t
           /\ \A i \in Port : NewestCommit(i, comUOp) => comUOp[i].rd # r
    BY <1>1, <2>1, WrittenByCommit
  <2> QED  BY <1>1, <1>3, <2>2 DEF CommitOwns, ArchOwns, NewestCommit
<1>4. QED  BY <1>2, <1>3

\* Every owner has the register from one owner, or from the free list.
LEMMA OwnerSource ==
  ASSUME WindowInv, NEW n \in 0 .. Width, RobMoves(n),
         NEW used \in SUBSET Port, RenameMoves(used),
         NEW l, NEW y, NEW t \in RFTag, Owns(l, y, t)'
  PROVE  \/ \E k \in Kind, x \in Nat : Owns(k, x, t) /\ Hands(n, used, k, x, l, y)
         \/ l = "ready" /\ t \in free /\ y \in Refilling(used) /\ Refill(y) = t
<1> DEFINE Handed == \E k \in Kind, x \in Nat : Owns(k, x, t) /\ Hands(n, used, k, x, l, y)
<1>1. ASSUME NEW k, NEW x, Owns(k, x, t), Hands(n, used, k, x, l, y)
      PROVE  Handed
  BY <1>1, OwnerType
<1> HIDE DEF Handed
<1>2. CASE l = "rob" /\ RobOwns(y, t)'
  <2>1. CASE RobOwns(y, t) /\ n <= Pos(y)
    <3>1. Owns("rob", y, t) /\ Hands(n, used, "rob", y, l, y)
      BY <1>2, <2>1 DEF Owns, Hands
    <3> QED  BY <1>1, <3>1 DEF Handed
  <2>2. CASE \E i \in Port : RenameOwns(i, t) /\ rnUOp[i].sqN = y
    <3>1. PICK i \in Port : RenameOwns(i, t) /\ rnUOp[i].sqN = y  BY <2>2
    <3>2. Owns("rename", i, t) /\ Hands(n, used, "rename", i, l, y)
      BY <1>2, <3>1 DEF Owns, Hands
    <3> QED  BY <1>1, <3>2 DEF Handed
  <2> QED  BY <1>2, <2>1, <2>2, RobSource
<1>3. CASE l = "rename" /\ RenameOwns(y, t)'
  <2>1. y \in Port /\ rnUOp'[y].tagDst = t  BY <1>3 DEF RenameOwns
  <2>2. y \in used  BY <2>1 DEF RenameMoves
  <2>3. issueTag[y] = t  BY <2>1, <2>2 DEF RenameMoves
  <2>4. Owns("ready", y, t) /\ Hands(n, used, "ready", y, l, y)
    BY <1>3, <2>1, <2>2, <2>3 DEF Owns, ReadyOwns, Hands
  <2> QED  BY <1>1, <2>4 DEF Handed
<1>4. CASE l = "commit" /\ CommitOwns(y, t)'
  <2> DEFINE s == Plus(baseIndex, y)
  <2>1. RobOwns(s, t) /\ Pos(s) = y /\ ~(n <= Pos(s))  BY <1>4, CommitSource
  <2> HIDE DEF s
  <2>2. Owns("rob", s, t) /\ Hands(n, used, "rob", s, l, y)  BY <1>4, <2>1 DEF Owns, Hands
  <2> QED  BY <1>1, <2>2 DEF Handed
<1>5. CASE l = "ready" /\ ReadyOwns(y, t)'
  <2>1. CASE ReadyOwns(y, t) /\ y \notin used
    <3>1. Owns("ready", y, t) /\ Hands(n, used, "ready", y, l, y)
      BY <1>5, <2>1 DEF Owns, Hands
    <3> QED  BY <1>1, <3>1 DEF Handed
  <2>2. CASE t \in free /\ y \in Refilling(used) /\ Refill(y) = t
    BY <1>5, <2>2
  <2> QED  BY <1>5, <2>1, <2>2, ReadySource DEF WindowInv
<1>6. CASE l = "arch" /\ ArchOwns(y, t)'
  <2>1. CASE \E i \in Port : CommitOwns(i, t) /\ comUOp[i].rd = y
    <3>1. PICK i \in Port : CommitOwns(i, t) /\ comUOp[i].rd = y  BY <2>1
    <3>2. Owns("commit", i, t) /\ Hands(n, used, "commit", i, l, y)
      BY <1>6, <3>1 DEF Owns, Hands
    <3> QED  BY <1>1, <3>2 DEF Handed
  <2>2. CASE ArchOwns(y, t)
    <3>1. Owns("arch", y, t) /\ Hands(n, used, "arch", y, l, y)
      BY <1>6, <2>2 DEF Owns, Hands
    <3> QED  BY <1>1, <3>1 DEF Handed
  <2> QED  BY <1>6, <2>1, <2>2, ArchSource
<1>7. QED  BY <1>2, <1>3, <1>4, <1>5, <1>6 DEF Owns, Handed

\* Every owner hands its register to one other.
LEMMA HandsToOne ==
  ASSUME NEW n, NEW used, NEW k, NEW x, NEW l, NEW y, NEW m, NEW z,
         Hands(n, used, k, x, l, y), Hands(n, used, k, x, m, z)
  PROVE  l = m /\ y = z
<1>1. CASE k = "rob"     BY <1>1 DEF Hands
<1>2. CASE k = "rename"  BY <1>2 DEF Hands
<1>3. CASE k = "ready"   BY <1>3 DEF Hands
<1>4. CASE k = "commit"  BY <1>4 DEF Hands
<1>5. CASE k = "arch"    BY <1>5 DEF Hands
<1>6. QED  BY <1>1, <1>2, <1>3, <1>4, <1>5 DEF Hands

\* While registers are taken from the free list nobody owns those in it.
LEMMA FreeIsFree ==
  ASSUME FreeListInv, NEW t \in free, ~mispredFlush, NEW k, NEW x
  PROVE  ~Owns(k, x, t)
<1>1. ~misprReplay_r.valid  BY DEF FreeListInv, WindowInv, RecoveryState
<1>2. \A s : ~Pending(s)  BY <1>1 DEF Pending
<1>3. QED  BY <1>2, OwnerType DEF FreeListInv, FreeApart

\* No two ports take the same register.
LEMMA RefillOnce ==
  ASSUME NEW used, NEW i \in Refilling(used), NEW j \in Refilling(used), Refill(i) = Refill(j)
  PROVE  i = j
<1>1. ASSUME NEW p \in Refilling(used)
      PROVE  p = Cardinality({u \in free : u < Refill(p)})
  <2>1. \E u \in RFTag : Candidate(p, u)  BY DEF Refilling, Refills
  <2>2. Candidate(p, Refill(p))  BY <2>1 DEF Refill
  <2> QED  BY <2>2 DEF Candidate
<1>2. QED  BY <1>1

\* No register gets a second owner.
LEMMA OwnedOnceStep ==
  ASSUME FreeListInv, NEW n \in 0 .. Width, RobMoves(n),
         NEW used \in SUBSET Port, RenameMoves(used), NEW t \in RFTag
  PROVE  OwnedOnce(t)'
<1>1. WindowInv /\ OwnedOnce(t)  BY DEF FreeListInv
<1> SUFFICES ASSUME NEW k, NEW l, NEW x, NEW y, Owns(k, x, t)', Owns(l, y, t)'
             PROVE  k = l /\ x = y
  BY DEF OwnedOnce
<1> DEFINE Taken(m, z) == m = "ready" /\ t \in free /\ z \in Refilling(used) /\ Refill(z) = t
           Handed(m, z) == \E j \in Kind, w \in Nat : Owns(j, w, t) /\ Hands(n, used, j, w, m, z)
<1>2. Handed(k, x) \/ Taken(k, x)  BY <1>1, OwnerSource
<1>3. Handed(l, y) \/ Taken(l, y)  BY <1>1, OwnerSource
<1>4. CASE Handed(k, x) /\ Handed(l, y)
  <2>1. PICK j \in Kind, w \in Nat : Owns(j, w, t) /\ Hands(n, used, j, w, k, x)  BY <1>4
  <2>2. PICK i \in Kind, v \in Nat : Owns(i, v, t) /\ Hands(n, used, i, v, l, y)  BY <1>4
  <2>3. i = j /\ v = w  BY <1>1, <2>1, <2>2 DEF OwnedOnce
  <2> QED  BY <2>1, <2>2, <2>3, HandsToOne
<1>5. ASSUME NEW m, NEW z, Taken(m, z)
      PROVE  \A p, q : ~Handed(p, q)
  <2>1. ~mispredFlush  BY <1>5 DEF Refilling, Refills
  <2> QED  BY <1>5, <2>1, FreeIsFree
<1>6. CASE Taken(k, x) /\ Taken(l, y)
  BY <1>6, RefillOnce
<1> HIDE DEF Taken, Handed
<1>7. QED  BY <1>2, <1>3, <1>4, <1>5, <1>6

-----------------------------------------------------------------------------
(* The free lists. *)

\* Everything in the free list is also in the one that a flush falls back to.
LEMMA FreeIsUncommitted ==
  ASSUME FreeListInv
  PROVE  free \subseteq freeCom
<1> SUFFICES ASSUME NEW t \in free  PROVE t \in freeCom
  OBVIOUS
<1>1. t \in RFTag  BY DEF FreeListInv, WindowInv, TypeOK, TBTypeOK
<1>2. ASSUME NEW r \in Reg, comTag[r] = t
      PROVE  FALSE
  <2>1. Owns("arch", r, t)  BY <1>2 DEF Owns, ArchOwns
  <2>2. "arch" \in Kind /\ r \in Nat  BY <2>1, OwnerType
  <2> QED  BY <2>1, <2>2 DEF FreeListInv, FreeApart
<1>3. QED  BY <1>1, <1>2 DEF FreeListInv, CommittedFreeList

\* The list that a flush falls back to follows the committed map.
LEMMA CommittedFreeListStep ==
  ASSUME FreeListInv, NEW used \in SUBSET Port, RenameMoves(used)
  PROVE  CommittedFreeList'
<1>1. freeCom' = IF mispredFlush THEN freeCom ELSE Committed(freeCom, comUOp)
  BY DEF RenameMoves, TBClock
<1>2. TypeOK /\ CommittedFreeList /\ \A t \in RFTag : OwnedOnce(t)
  BY DEF FreeListInv, WindowInv
<1>3. CASE mispredFlush
  <2>1. freeCom' = freeCom /\ comTag' = comTag  BY <1>1, <1>3 DEF RenameMoves
  <2> QED  BY <1>2, <2>1 DEF CommittedFreeList
<1>4. CASE ~mispredFlush
  <2>1. freeCom' = Committed(freeCom, comUOp) /\ comTag' = Written(comTag, comUOp)
    BY <1>1, <1>4 DEF RenameMoves
  <2>2. freeCom' \subseteq RFTag  BY <2>1 DEF Committed
  <2>3. ASSUME NEW t \in RFTag
        PROVE  t \in freeCom' <=> \A r \in Reg : comTag'[r] # t
    <3>1. ~(Freed(t) /\ Claimed(t))  BY <1>2, <1>4, FreedOrClaimed
    <3>2. t \in freeCom' <=> Freed(t) \/ (t \in freeCom /\ ~Claimed(t))
      BY <2>1, <3>1, CommittedMember
    <3>3. ASSUME NEW i \in Port, comUOp[i].valid
          PROVE  comUOp[i].rd \in Reg
      <4>1. comUOp[i] \in RATWrite  BY <1>2 DEF TypeOK, ROBTypeOK
      <4> QED  BY <4>1 DEF RATWrite
    <3>4. ASSUME Claimed(t)
          PROVE  \E r \in Reg : comTag'[r] = t
      <4>1. PICK i \in Port : NewestCommit(i, comUOp) /\ comUOp[i].tag = t  BY <3>4, WhoFrees
      <4>2. comUOp[i].rd \in Reg  BY <3>3, <4>1 DEF NewestCommit
      <4> QED  BY <2>1, <4>1, <4>2, WrittenByCommit
    <3>5. ASSUME NEW r \in Reg, comTag'[r] = t
          PROVE  Claimed(t) \/ (t \notin freeCom /\ ~Freed(t))
      <4>1. CASE \E i \in Port : NewestCommit(i, comUOp) /\ comUOp[i].tag = t
        BY <4>1, WhoFrees
      <4>2. CASE /\ comTag[r] = t
                 /\ \A i \in Port : NewestCommit(i, comUOp) => comUOp[i].rd # r
        <5>1. t \notin freeCom  BY <1>2, <4>2 DEF CommittedFreeList
        <5>2. Owns("arch", r, t)  BY <4>2 DEF Owns, ArchOwns
        <5>3. ASSUME Freed(t)
              PROVE  FALSE
          <6>1. PICK j \in Port : /\ comUOp[j].valid
                                  /\ \/ NewestCommit(j, comUOp) /\ comTag[comUOp[j].rd] = t
                                     \/ ~NewestCommit(j, comUOp) /\ comUOp[j].tag = t
            BY <5>3, WhoFrees
          <6>2. CASE NewestCommit(j, comUOp) /\ comTag[comUOp[j].rd] = t
            <7>1. Owns("arch", comUOp[j].rd, t)  BY <3>3, <6>1, <6>2 DEF Owns, ArchOwns
            <7>2. comUOp[j].rd = r  BY <1>2, <5>2, <7>1, OwnerType DEF OwnedOnce
            <7> QED  BY <4>2, <6>2, <7>2
          <6>3. CASE ~NewestCommit(j, comUOp) /\ comUOp[j].tag = t
            <7>1. Owns("commit", j, t)  BY <1>4, <6>1, <6>3 DEF Owns, CommitOwns
            <7>2. "commit" = "arch"  BY <1>2, <5>2, <7>1, OwnerType DEF OwnedOnce
            <7> QED  BY <7>2
          <6> QED  BY <6>1, <6>2, <6>3
        <5> QED  BY <5>1, <5>3
      <4> QED  BY <2>1, <3>5, <4>1, <4>2, WrittenByCommit
    <3>6. ASSUME \A r \in Reg : comTag'[r] # t, t \notin freeCom
          PROVE  Freed(t)
      <4>1. PICK r \in Reg : comTag[r] = t  BY <1>2, <3>6 DEF CommittedFreeList
      <4>2. PICK i \in Port : NewestCommit(i, comUOp) /\ comUOp[i].rd = r
        BY <2>1, <3>6, <4>1, WrittenByCommit
      <4> QED  BY <4>1, <4>2, WhoFrees DEF NewestCommit
    <3> QED  BY <3>1, <3>2, <3>4, <3>5, <3>6
  <2> QED  BY <2>2, <2>3 DEF CommittedFreeList
<1>5. QED  BY <1>3, <1>4

\* A redirect starts from the registers that hold nothing committed.
LEMMA FreeAfterRedirect ==
  ASSUME FreeListInv, NEW used \in SUBSET Port, RenameMoves(used), branch.taken
  PROVE  free' = freeCom'
<1>1. free \cup freeCom = freeCom  BY FreeIsUncommitted
<1> DEFINE kept == IF branch.taken THEN free \cup freeCom
                   ELSE free \ {Refill(i) : i \in Refilling(used)}
<1>2. kept = freeCom  BY <1>1
<1>3. free' = IF mispredFlush
              THEN IF branch.taken THEN kept ELSE kept \ UNION {Replayed(comUOp[i]) : i \in Port}
              ELSE Committed(kept, comUOp)
  BY DEF RenameMoves, TBClock, Refilling
<1>4. freeCom' = IF mispredFlush THEN freeCom ELSE Committed(freeCom, comUOp)
  BY DEF RenameMoves, TBClock
<1> HIDE DEF kept
<1>5. QED  BY <1>2, <1>3, <1>4

\* While a replay runs registers only leave the free list.
LEMMA FreeInReplay ==
  ASSUME NEW used \in SUBSET Port, RenameMoves(used), ~branch.taken, mispredFlush, NEW t \in RFTag
  PROVE  t \in free' <=> t \in free /\ \A i \in Port : ~(comUOp[i].valid /\ comUOp[i].tag = t)
<1>1. Refilling(used) = {}  BY DEF Refilling, Refills
<1>2. free' = (free \ {Refill(i) : i \in Refilling(used)})
                \ UNION {Replayed(comUOp[i]) : i \in Port}
  BY DEF RenameMoves, TBClock, Refilling
<1>3. ASSUME NEW i \in Port
      PROVE  t \in Replayed(comUOp[i]) <=> comUOp[i].valid /\ comUOp[i].tag = t
  BY DEF Replayed
<1>4. QED  BY <1>1, <1>2, <1>3

\* In normal operation rename takes registers and commit returns them.
LEMMA FreeAfterCommit ==
  ASSUME TypeOK, NEW used \in SUBSET Port, RenameMoves(used), ~branch.taken, ~mispredFlush,
         NEW t \in RFTag, OwnedOnce(t)
  PROVE  t \in free' <=> \/ Freed(t)
                         \/ /\ t \in free /\ ~Claimed(t)
                            /\ \A i \in Refilling(used) : Refill(i) # t
<1> DEFINE kept == free \ {Refill(i) : i \in Refilling(used)}
<1>1. free' = Committed(kept, comUOp)  BY DEF RenameMoves, TBClock, Refilling
<1>2. ~(Freed(t) /\ Claimed(t))  BY FreedOrClaimed
<1>3. t \in kept <=> t \in free /\ \A i \in Refilling(used) : Refill(i) # t  OBVIOUS
<1> HIDE DEF kept
<1>4. t \in Committed(kept, comUOp) <=> Freed(t) \/ (t \in kept /\ ~Claimed(t))
  BY <1>2, CommittedMember
<1>5. QED  BY <1>1, <1>3, <1>4

-----------------------------------------------------------------------------
(* The replay. *)

\* A cycle that replays r: the buffer ends with what survives, and so does r.
ReplayIn(r) ==
  /\ ReplayStep(r) /\ r \in Replay /\ r.valid
  /\ r.iterSqN \in SqNs /\ r.endSqN \in SqNs
  /\ lastIndex' = Plus(r.endSqN, 1) /\ lastIndex' \in SqNs
  /\ -1 <= Pos(r.endSqN) /\ Pos(lastIndex') = Pos(r.endSqN) + 1
  /\ Pos(lastIndex') <= Pos(lastIndex)
  /\ 0 <= Pos(r.iterSqN) /\ Pos(r.iterSqN) <= Pos(lastIndex')
  /\ \A i \in Port : ~rnUOp'[i].valid

\* Cycles that do not replay.
NoReplayIn ==
  ~branch.taken /\ ~misprReplay_r.valid /\ ~misprReplay_r'.valid /\ ~mispredFlush'

\* A redirect starts a replay, which goes on where it was.
LEMMA CycleReplays ==
  ASSUME WindowInv, ReplayRange, NEW F \in SUBSET FlagsUOp,
         RedirectCycle(F) \/ ReplayCycle(F) \/ TrapCycle(F) \/ CommitCycle(F)
  PROVE  NoReplayIn \/ ReplayIn(Replaying(branch))
<1> USE DEF WindowInv
<1> DEFINE r == Replaying(branch)
<1>1. LastIs(lastIndex')  BY LastStep DEF LastIs
<1>2. ~NoRUOp.valid  BY DEF NoRUOp
<1>3. /\ baseIndex \in SqNs /\ lastIndex \in SqNs /\ branch.sqN \in SqNs
      /\ misprReplay_r.iterSqN \in SqNs /\ misprReplay_r.endSqN \in SqNs
  <2>1. misprReplay_r \in Replay  BY DEF TypeOK, ROBTypeOK
  <2> QED  BY <2>1, SqNState DEF Replay
<1>4. Pos(lastIndex) \in Int /\ Pos(branch.sqN) \in Int /\ Pos(lastIndex') \in Int
  BY <1>1, <1>3, PosType DEF LastIs
<1>5. CASE RedirectCycle(F)
  <2>1. /\ branch.taken /\ ReplayStep(r) /\ EnqueueStep(rnUOp, F, branch)
        /\ rnUOp' = [i \in Port |-> NoRUOp]
    BY <1>5 DEF RedirectCycle, ROBReplay, RNRedirect
  <2>2. r.iterSqN = baseIndex /\ r.endSqN = branch.sqN  BY <2>1 DEF Replaying
  <2>3. Pos(baseIndex) = 0  BY <1>3, PlusMinusOne DEF Pos
  <2>4. lastIndex' = Plus(branch.sqN, 1)  BY <2>1 DEF EnqueueStep
  <2>5. /\ Pos(lastIndex') = Pos(branch.sqN) + 1
        /\ -1 <= Pos(branch.sqN) /\ Pos(branch.sqN) < Pos(lastIndex)
    BY <1>1, <2>1 DEF LastIs, BranchInWindow
  <2>6. Pos(lastIndex') <= Pos(lastIndex) /\ 0 <= Pos(lastIndex')  BY <1>4, <2>5, SMT
  <2>7. \A i \in Port : ~rnUOp'[i].valid  BY <1>2, <2>1
  <2>8. lastIndex' \in SqNs  BY <1>1 DEF LastIs
  <2>10. r \in Replay /\ r.valid  BY <1>3, <2>1 DEF Replaying, Replay
  <2> HIDE DEF r
  <2>9. ReplayIn(r)
    BY <1>3, <2>1, <2>2, <2>3, <2>4, <2>5, <2>6, <2>7, <2>8, <2>10, SMT DEF ReplayIn
  <2> QED  BY <2>9 DEF r
<1>6. CASE ReplayCycle(F)
  <2>1. /\ ~branch.taken /\ r.valid /\ ReplayStep(r) /\ EnqueueStep(rnUOp, F, branch)
        /\ rnUOp' = [i \in Port |-> NoRUOp]
    BY <1>6 DEF ReplayCycle, ROBReplay, RNIdle
  <2>2. r = misprReplay_r  BY <2>1 DEF Replaying
  <2>3. /\ lastIndex = Plus(r.endSqN, 1) /\ \A i \in Port : ~rnUOp[i].valid
        /\ 0 <= Pos(r.iterSqN) /\ Pos(r.iterSqN) < Pos(lastIndex)
    BY <2>1, <2>2 DEF ReplayRange
  <2>4. lastIndex' = lastIndex  BY <2>1, <2>3 DEF EnqueueStep
  <2>5. r.iterSqN \in SqNs /\ r.endSqN \in SqNs /\ r \in Replay
    BY <1>3, <2>2 DEF TypeOK, ROBTypeOK
  <2> HIDE DEF r
  <2>6. Pos(r.iterSqN) \in Int  BY <2>5, PosType
  <2>7. 0 < Pos(lastIndex)  BY <1>4, <2>3, <2>6, SMT
  <2>8. Diff(lastIndex, baseIndex) = Diff(r.endSqN, baseIndex) + 1
    BY <1>3, <2>3, <2>5, <2>7, RingType, SMT DEF Diff, Plus, SqNs, Pos
  <2>9. Pos(lastIndex') = Pos(r.endSqN) + 1 /\ Pos(r.endSqN) \in Int
    BY <2>4, <2>5, <2>8, PosType DEF Pos
  <2>10. \A i \in Port : ~rnUOp'[i].valid  BY <1>2, <2>1
  <2>11. /\ -1 <= Pos(r.endSqN) /\ Pos(lastIndex') <= Pos(lastIndex)
         /\ Pos(r.iterSqN) <= Pos(lastIndex')
    BY <1>4, <2>3, <2>4, <2>6, <2>7, <2>9, SMT
  <2>12. ReplayIn(r)
    BY <1>3, <2>1, <2>3, <2>4, <2>5, <2>9, <2>10, <2>11 DEF ReplayIn
  <2> QED  BY <2>12 DEF r
<1>7. CASE TrapCycle(F) \/ CommitCycle(F)
  <2>1. \E n, hang : ~branch.taken /\ ~Replaying(branch).valid /\ CommitStep(n, hang)
    BY <1>7 DEF TrapCycle, CommitCycle, ROBStop, ROBCommit
  <2>2. ~misprReplay_r.valid  BY <2>1 DEF Replaying
  <2>3. misprReplay_r' = misprReplay_r /\ ~mispredFlush' /\ ~branch.taken
    BY <2>1 DEF CommitStep
  <2> QED  BY <2>2, <2>3 DEF NoReplayIn
<1>8. QED  BY <1>5, <1>6, <1>7

\* What is replayed on each port.
LEMMA ReplayedAt ==
  ASSUME TypeOK, NEW r, ReplayIn(r), NEW i \in Port
  PROVE  LET s == Plus(r.iterSqN, i)
         IN  /\ Diff(s, r.endSqN) = Pos(r.iterSqN) + i - Pos(r.endSqN)
             /\ Survives(r, i) <=> Pos(r.iterSqN) + i <= Pos(r.endSqN)
             /\ Survives(r, i) => s \in SqNs /\ Pos(s) = Pos(r.iterSqN) + i
<1>1. /\ r.iterSqN \in SqNs /\ r.endSqN \in SqNs /\ baseIndex \in SqNs
      /\ 0 <= Pos(r.iterSqN) /\ Pos(r.iterSqN) <= Pos(r.endSqN) + 1 /\ -1 <= Pos(r.endSqN)
  BY SqNState DEF ReplayIn
<1>2. /\ Pos(r.iterSqN) \in Int /\ Pos(r.endSqN) \in Int
      /\ Pos(r.iterSqN) < ROBSize /\ Pos(r.endSqN) < ROBSize
  BY <1>1, PosType
<1>3. i \in Nat /\ i < Width /\ i < ROBSize /\ i <= Ring
  BY WidthType, RingType, SMT DEF Port
<1>4. Diff(r.iterSqN, r.endSqN) = Pos(r.iterSqN) - Pos(r.endSqN)
  <2>1. - ROBSize <= Diff(r.iterSqN, baseIndex) - Diff(r.endSqN, baseIndex)
        /\ Diff(r.iterSqN, baseIndex) - Diff(r.endSqN, baseIndex) < ROBSize
    BY <1>1, <1>2, RingType, SMT DEF Pos
  <2> QED  BY <1>1, <2>1, DiffChain DEF Pos
<1>5. Diff(r.iterSqN, r.endSqN) + i < ROBSize
  <2>1. ROBSize \in Int /\ Width \in Int /\ Width < ROBSize
    BY WidthType, RingType, SMT
  <2> QED  BY <1>1, <1>2, <1>3, <1>4, <2>1, SMT
<1>6. Diff(Plus(r.iterSqN, i), r.endSqN) = Pos(r.iterSqN) + i - Pos(r.endSqN)
  <2>1. Diff(Plus(r.iterSqN, i), r.endSqN) = Diff(r.iterSqN, r.endSqN) + i
    BY <1>1, <1>3, <1>5, DiffPlus
  <2> QED  BY <1>2, <1>3, <1>4, <2>1, SMT
<1>7. Survives(r, i) <=> Pos(r.iterSqN) + i <= Pos(r.endSqN)
  BY <1>2, <1>3, <1>6, SMT DEF Survives
<1>8. ASSUME Survives(r, i)
      PROVE  Plus(r.iterSqN, i) \in SqNs /\ Pos(Plus(r.iterSqN, i)) = Pos(r.iterSqN) + i
  <2>1. Pos(r.iterSqN) + i < ROBSize  BY <1>2, <1>3, <1>7, <1>8, RingType, SMT
  <2> QED  BY <1>1, <1>3, <2>1, DiffPlus, PlusType DEF Pos
<1>9. QED  BY <1>6, <1>7, <1>8

\* The replay goes on as long as there is more than one cycle can show.
LEMMA ReplayAfter ==
  ASSUME TypeOK, NEW r, ReplayIn(r)
  PROVE  /\ ReplayEnd(r) => Pos(r.endSqN) < Pos(r.iterSqN) + Width /\ ~misprReplay_r'.valid
         /\ ~ReplayEnd(r) =>
              /\ misprReplay_r'.valid /\ misprReplay_r'.iterSqN = Plus(r.iterSqN, Width)
              /\ misprReplay_r'.endSqN = r.endSqN
              /\ Pos(r.iterSqN) + Width <= Pos(r.endSqN)
              /\ Plus(r.iterSqN, Width) \in SqNs
              /\ Pos(Plus(r.iterSqN, Width)) = Pos(r.iterSqN) + Width
<1>1. Width - 1 \in Port /\ Width \in Nat  BY WidthType, SMT DEF Port
<1>2. /\ Diff(Plus(r.iterSqN, Width - 1), r.endSqN) = Pos(r.iterSqN) + (Width - 1) - Pos(r.endSqN)
      /\ Survives(r, Width - 1) <=> Pos(r.iterSqN) + (Width - 1) <= Pos(r.endSqN)
  BY <1>1, ReplayedAt
<1>3. r.iterSqN \in SqNs /\ r.endSqN \in SqNs /\ baseIndex \in SqNs  BY SqNState DEF ReplayIn
<1>4. /\ Pos(r.iterSqN) \in Int /\ Pos(r.endSqN) \in Int /\ Pos(r.endSqN) < ROBSize
  BY <1>3, PosType
<1>5. ReplayEnd(r) <=> Pos(r.endSqN) < Pos(r.iterSqN) + Width
  <2>1. ReplayEnd(r) <=> \/ ~(Pos(r.iterSqN) + (Width - 1) <= Pos(r.endSqN))
                         \/ Pos(r.iterSqN) + (Width - 1) - Pos(r.endSqN) = 0
    BY <1>2 DEF ReplayEnd
  <2> QED  BY <1>1, <1>4, <2>1, SMT
<1>6. misprReplay_r' = IF ReplayEnd(r) THEN NoReplay
                       ELSE [r EXCEPT !.iterSqN = Plus(@, Width)]
  BY DEF ReplayIn, ReplayStep
<1>7. ASSUME ~ReplayEnd(r)
      PROVE  /\ Pos(r.iterSqN) + Width <= Pos(r.endSqN)
             /\ Plus(r.iterSqN, Width) \in SqNs
             /\ Pos(Plus(r.iterSqN, Width)) = Pos(r.iterSqN) + Width
  <2>1. Pos(r.iterSqN) + Width <= Pos(r.endSqN)  BY <1>1, <1>4, <1>5, <1>7, SMT
  <2>2. Pos(r.iterSqN) + Width < ROBSize  BY <1>1, <1>4, <2>1, RingType, SMT
  <2>3. Width < ROBSize /\ Width <= Ring  BY WidthType, RingType, SMT
  <2> QED  BY <1>1, <1>3, <2>1, <2>2, <2>3, DiffPlus, PlusType DEF Pos
<1>8. ASSUME ~ReplayEnd(r)
      PROVE  /\ misprReplay_r'.valid /\ misprReplay_r'.iterSqN = Plus(r.iterSqN, Width)
             /\ misprReplay_r'.endSqN = r.endSqN
  BY <1>6, <1>8 DEF ReplayIn, Replay
<1>9. QED  BY <1>5, <1>6, <1>7, <1>8 DEF NoReplay

\* Everything from the iterator on is claimed in this cycle or still to come.
LEMMA ReplayCovers ==
  ASSUME WindowInv, NEW n \in 0 .. Width, RobMoves(n), NEW r, ReplayIn(r),
         NEW s \in SqNs, InROB(s)', Pos(r.iterSqN) <= Pos(s)
  PROVE  Pending(s)'
<1> USE DEF WindowInv
<1>1. baseIndex' = baseIndex /\ baseIndex \in SqNs  BY SqNState DEF ReplayIn, ReplayStep
<1>2. /\ 0 <= Pos(s) /\ Pos(s) < Pos(lastIndex') /\ Pos(lastIndex') <= Pos(lastIndex)
      /\ Pos(lastIndex') = Pos(r.endSqN) + 1
      /\ r.iterSqN \in SqNs /\ r.endSqN \in SqNs /\ lastIndex' \in SqNs
      /\ 0 <= Pos(r.iterSqN)
  BY <1>1 DEF InROB, Pos, ReplayIn
<1>3. /\ Pos(s) \in Int /\ Pos(s) < ROBSize
      /\ Pos(r.iterSqN) \in Int /\ Pos(r.endSqN) \in Int /\ Pos(lastIndex) \in Int
  BY <1>2, SqNState, PosType
<1>4. Pos(s) <= Pos(r.endSqN) /\ Pos(s) < Pos(lastIndex)  BY <1>2, <1>3, SMT
<1>5. entries'[RobIdx(s)] = entries[RobIdx(s)]
  <2>1. InROB(s)  BY <1>2, <1>4 DEF InROB, Pos
  <2> QED  BY <2>1 DEF RobMoves
<1>6. CASE Pos(s) - Pos(r.iterSqN) < Width
  <2> DEFINE d == Pos(s) - Pos(r.iterSqN)
  <2>1. d \in Port /\ d \in Nat /\ Pos(r.iterSqN) + d = Pos(s)
    BY <1>2, <1>3, <1>6, WidthType, SMT DEF Port
  <2> HIDE DEF d
  <2>2. Survives(r, d)  BY <1>4, <2>1, ReplayedAt
  <2>3. Plus(r.iterSqN, d) \in SqNs /\ Pos(Plus(r.iterSqN, d)) = Pos(s)
    BY <2>1, <2>2, ReplayedAt
  <2>4. Plus(r.iterSqN, d) = s
    <3>1. Pos(s) \in Nat  BY <1>2, <1>3, SMT
    <3> QED  BY <1>3, <2>3, <3>1, AtPosition
  <2>5. comUOp'[d] = ReplayedUOp(r, d) /\ mispredFlush'
    BY <2>1, <2>2 DEF ReplayIn, ReplayStep
  <2>6. comUOp'[d].valid /\ comUOp'[d].tag = entries[RobIdx(s)].tag
    BY <2>2, <2>4, <2>5 DEF ReplayedUOp
  <2> QED  BY <1>5, <2>1, <2>5, <2>6 DEF Pending
<1>7. CASE ~(Pos(s) - Pos(r.iterSqN) < Width)
  <2>1. Pos(r.iterSqN) + Width <= Pos(s) /\ ~(Pos(r.endSqN) < Pos(r.iterSqN) + Width)
    BY <1>3, <1>4, <1>7, WidthType, SMT
  <2> DEFINE iter == Plus(r.iterSqN, Width)
  <2>2. ~ReplayEnd(r)  BY <2>1, ReplayAfter
  <2>3. /\ misprReplay_r'.valid /\ misprReplay_r'.iterSqN = iter
        /\ iter \in SqNs /\ Pos(iter) = Pos(r.iterSqN) + Width
    BY <2>2, ReplayAfter
  <2> HIDE DEF iter
  <2>4. 0 <= Pos(iter) /\ Pos(iter) <= Pos(s)  BY <1>2, <1>3, <2>1, <2>3, WidthType, SMT
  <2>5. Diff(s, iter) = Pos(s) - Pos(iter)
    BY <1>1, <1>2, <2>3, <2>4, DiffByDistance DEF Pos
  <2>6. Diff(s, iter) >= 0  BY <1>3, <2>3, <2>4, <2>5, PosType, SMT
  <2> QED  BY <2>3, <2>6 DEF Pending
<1>8. QED  BY <1>6, <1>7

\* In a cycle that replays nothing is committed and nothing comes from rename.
LEMMA ReplayOwners ==
  ASSUME NEW r, ReplayIn(r), NEW i, NEW t
  PROVE  ~RenameOwns(i, t)' /\ ~CommitOwns(i, t)'
<1>1. ~RenameOwns(i, t)'  BY DEF ReplayIn, RenameOwns, InRename
<1>2. ASSUME i \in Port, ~mispredFlush'
      PROVE  ~comUOp'[i].valid
  <2>1. ~Survives(r, i)  BY <1>2 DEF ReplayIn, ReplayStep
  <2>2. comUOp'[i] = NoRATWrite  BY <1>2, <2>1 DEF ReplayIn, ReplayStep, ReplayedUOp
  <2> QED  BY <2>2 DEF NoRATWrite
<1>3. QED  BY <1>1, <1>2 DEF CommitOwns

\* The replay stays inside the buffer.
LEMMA ReplayRangeStep ==
  ASSUME TypeOK, NoReplayIn \/ ReplayIn(Replaying(branch))
  PROVE  ReplayRange'
<1> DEFINE r == Replaying(branch)
<1> SUFFICES ASSUME misprReplay_r'.valid
             PROVE  /\ lastIndex' = Plus(misprReplay_r'.endSqN, 1)
                    /\ \A i \in Port : ~rnUOp'[i].valid
                    /\ 0 <= Diff(misprReplay_r'.iterSqN, baseIndex')
                    /\ Diff(misprReplay_r'.iterSqN, baseIndex') < Diff(lastIndex', baseIndex')
  BY DEF ReplayRange, Pos
<1>1. ReplayIn(r)  BY DEF NoReplayIn
<1> HIDE DEF r
<1>2. ~ReplayEnd(r)  BY <1>1, ReplayAfter
<1>3. baseIndex' = baseIndex  BY <1>1 DEF ReplayIn, ReplayStep
<1>4. /\ misprReplay_r'.iterSqN = Plus(r.iterSqN, Width) /\ misprReplay_r'.endSqN = r.endSqN
      /\ Pos(Plus(r.iterSqN, Width)) = Pos(r.iterSqN) + Width
      /\ Pos(r.iterSqN) + Width <= Pos(r.endSqN)
  BY <1>1, <1>2, ReplayAfter
<1>5. /\ r.iterSqN \in SqNs /\ r.endSqN \in SqNs
      /\ 0 <= Pos(r.iterSqN) /\ Pos(lastIndex') = Pos(r.endSqN) + 1
      /\ lastIndex' = Plus(r.endSqN, 1) /\ \A i \in Port : ~rnUOp'[i].valid
  BY <1>1 DEF ReplayIn
<1>6. 0 <= Pos(r.iterSqN) + Width /\ Pos(r.iterSqN) + Width < Pos(lastIndex')
  BY <1>4, <1>5, PosType, WidthType, SMT
<1>7. /\ 0 <= Diff(misprReplay_r'.iterSqN, baseIndex)
      /\ Diff(misprReplay_r'.iterSqN, baseIndex) < Diff(lastIndex', baseIndex)
  BY <1>4, <1>6 DEF Pos
<1>8. QED  BY <1>3, <1>4, <1>5, <1>7

\* What is replayed stays in the buffer.
LEMMA ReplayHeldStep ==
  ASSUME WindowInv, NEW n \in 0 .. Width, RobMoves(n),
         NoReplayIn \/ ReplayIn(Replaying(branch))
  PROVE  ReplayHeld'
<1> USE DEF WindowInv
<1> DEFINE r == Replaying(branch)
<1> SUFFICES ASSUME mispredFlush', NEW i \in Port, comUOp'[i].valid
             PROVE  \E s \in SqNs : RobOwns(s, comUOp[i].tag)'
  BY DEF ReplayHeld
<1>1. ReplayIn(r)  BY DEF NoReplayIn
<1> HIDE DEF r
<1>2. baseIndex' = baseIndex /\ comUOp'[i] = ReplayedUOp(r, i)
  BY <1>1 DEF ReplayIn, ReplayStep
<1>3. Survives(r, i)  BY <1>2 DEF ReplayedUOp, NoRATWrite
<1>4. PICK s \in SqNs : /\ s = Plus(r.iterSqN, i) /\ Pos(s) = Pos(r.iterSqN) + i
                        /\ Pos(r.iterSqN) + i <= Pos(r.endSqN)
  BY <1>1, <1>3, ReplayedAt
<1>5. comUOp'[i].tag = entries[RobIdx(s)].tag  BY <1>2, <1>3, <1>4 DEF ReplayedUOp
<1>6. /\ r.iterSqN \in SqNs /\ r.endSqN \in SqNs /\ lastIndex' \in SqNs
      /\ 0 <= Pos(r.iterSqN) /\ Pos(lastIndex') = Pos(r.endSqN) + 1
      /\ Pos(lastIndex') <= Pos(lastIndex)
  BY <1>1 DEF ReplayIn
<1>7. 0 <= Pos(s) /\ Pos(s) < Pos(lastIndex') /\ Pos(s) < Pos(lastIndex)
  <2>1. i \in Nat /\ Pos(lastIndex) \in Int  BY SqNState, PosType, WidthType, SMT DEF Port
  <2> QED  BY <1>4, <1>6, <2>1, PosType, SMT
<1>8. InROB(s) /\ InROB(s)'  BY <1>2, <1>4, <1>7 DEF InROB, Pos
<1>9. RobOwns(s, comUOp[i].tag)'  BY <1>4, <1>5, <1>8 DEF RobMoves, RobOwns
<1>10. QED  BY <1>4, <1>9

-----------------------------------------------------------------------------
(* Nothing is free and owned. *)

\* After a redirect: everything uncommitted is free, the buffer is to be replayed.
LEMMA FreeApartRedirect ==
  ASSUME FreeListInv, CommittedFreeList', branch.taken, NEW n \in 0 .. Width, RobMoves(n),
         NEW used \in SUBSET Port, RenameMoves(used), ReplayIn(Replaying(branch)),
         NEW t \in RFTag, t \in free'
  PROVE  FreeApart(t)'
<1> SUFFICES ASSUME NEW k \in Kind, NEW x \in Nat, Owns(k, x, t)'
             PROVE  k = "rob" /\ Pending(x)'
  BY DEF FreeApart
<1>1. WindowInv /\ TypeOK  BY DEF FreeListInv, WindowInv
<1>2. PICK r : r = Replaying(branch) /\ ReplayIn(r)  OBVIOUS
<1>3. ~RenameOwns(x, t)' /\ ~CommitOwns(x, t)'  BY <1>2, ReplayOwners
<1>4. ~ReadyOwns(x, t)'
  <2> SUFFICES ASSUME x \in Port, issueTag'[x] = t  PROVE FALSE
    BY DEF ReadyOwns
  <2>1. Refilling(used) = {}  BY DEF Refilling, Refills
  <2>2. issueTag'[x] = IF x \in Refilling(used) THEN Refill(x)
                       ELSE IF branch.taken \/ x \in used THEN NoTag ELSE issueTag[x]
    BY DEF RenameMoves, TBClock, Refilling
  <2>3. t # NoTag  BY TagType DEF Tag
  <2> QED  BY <2>1, <2>2, <2>3
<1>5. ~ArchOwns(x, t)'
  <2>1. t \in freeCom'  BY FreeAfterRedirect
  <2> QED  BY <2>1 DEF CommittedFreeList, ArchOwns
<1>6. k = "rob" /\ RobOwns(x, t)'  BY <1>3, <1>4, <1>5 DEF Owns
<1>7. x \in SqNs /\ InROB(x)'  BY <1>6 DEF RobOwns, InROB
<1>8. Pos(r.iterSqN) <= Pos(x)
  <2>1. r.iterSqN = baseIndex  BY <1>2 DEF Replaying
  <2>2. Pos(baseIndex) = 0  BY <1>1, SqNState, PlusMinusOne DEF Pos
  <2>3. baseIndex' = baseIndex  BY <1>2 DEF ReplayIn, ReplayStep
  <2> QED  BY <1>7, <2>1, <2>2, <2>3 DEF InROB, Pos
<1>9. QED  BY <1>1, <1>2, <1>6, <1>7, <1>8, ReplayCovers

\* While a replay runs: what is free and owned is still to be replayed.
LEMMA FreeApartReplay ==
  ASSUME FreeListInv, ~branch.taken, mispredFlush, NEW n \in 0 .. Width, RobMoves(n),
         NEW used \in SUBSET Port, RenameMoves(used), NoReplayIn \/ ReplayIn(Replaying(branch)),
         NEW t \in RFTag, t \in free'
  PROVE  FreeApart(t)'
<1> SUFFICES ASSUME NEW k \in Kind, NEW x \in Nat, Owns(k, x, t)'
             PROVE  k = "rob" /\ Pending(x)'
  BY DEF FreeApart
<1>1. WindowInv /\ TypeOK  BY DEF FreeListInv, WindowInv
<1>2. t \in free /\ \A i \in Port : ~(comUOp[i].valid /\ comUOp[i].tag = t)
  BY FreeInReplay
<1>3. PICK j \in Kind, w \in Nat : Owns(j, w, t) /\ Hands(n, used, j, w, k, x)
  <2>1. Refilling(used) = {}  BY DEF Refilling, Refills
  <2> QED  BY <1>1, <2>1, OwnerSource
<1>4. j = "rob" /\ Pending(w)  BY <1>2, <1>3 DEF FreeListInv, FreeApart
<1>5. RobOwns(w, t)  BY <1>3, <1>4 DEF Owns
<1>6. misprReplay_r.valid /\ Diff(w, misprReplay_r.iterSqN) >= 0
  BY <1>2, <1>4, <1>5 DEF Pending, RobOwns
<1>7. PICK r : r = misprReplay_r /\ ReplayIn(r)  BY <1>6 DEF NoReplayIn, Replaying
<1>8. k = "rob" /\ x = w
  <2>1. k # "commit"  BY <1>7, ReplayOwners DEF Owns
  <2> QED  BY <1>3, <1>4, <2>1 DEF Hands
<1>9. x \in SqNs /\ InROB(x)'
  <2>1. RobOwns(x, t)'  BY <1>8 DEF Owns
  <2> QED  BY <2>1 DEF RobOwns, InROB
<1>10. Pos(r.iterSqN) <= Pos(x)
  <2>1. /\ r.iterSqN \in SqNs /\ 0 <= Pos(r.iterSqN) /\ 0 <= Pos(x) /\ baseIndex \in SqNs
    BY <1>1, <1>5, <1>7, <1>8, SqNState DEF ReplayIn, RobOwns, InROB, Pos
  <2>2. Diff(x, r.iterSqN) = Pos(x) - Pos(r.iterSqN)
    BY <1>9, <2>1, DiffByDistance DEF Pos
  <2>3. Diff(x, r.iterSqN) >= 0  BY <1>6, <1>7, <1>8
  <2>4. Pos(x) \in Int /\ Pos(r.iterSqN) \in Int  BY <1>1, <1>9, <2>1, PosType
  <2> QED  BY <2>2, <2>3, <2>4, SMT
<1>11. QED  BY <1>1, <1>7, <1>8, <1>9, <1>10, ReplayCovers

\* In normal operation: what commit returns has lost its owner.
LEMMA FreeApartCommit ==
  ASSUME FreeListInv, ~branch.taken, ~mispredFlush, NEW n \in 0 .. Width, RobMoves(n),
         NEW used \in SUBSET Port, RenameMoves(used), NEW t \in RFTag, t \in free'
  PROVE  FreeApart(t)'
<1> SUFFICES ASSUME NEW k \in Kind, NEW x \in Nat, Owns(k, x, t)'
             PROVE  FALSE
  BY DEF FreeApart
<1>1. WindowInv /\ TypeOK /\ OwnedOnce(t)  BY DEF FreeListInv, WindowInv
<1>2. \/ \E j \in Kind, w \in Nat : Owns(j, w, t) /\ Hands(n, used, j, w, k, x)
      \/ k = "ready" /\ t \in free /\ x \in Refilling(used) /\ Refill(x) = t
  BY <1>1, OwnerSource
<1>3. \/ Freed(t)
      \/ t \in free /\ \A i \in Refilling(used) : Refill(i) # t
  BY <1>1, FreeAfterCommit
<1>4. CASE t \in free /\ \A i \in Refilling(used) : Refill(i) # t
  BY <1>2, <1>4, FreeIsFree
<1>5. CASE Freed(t)
  <2>1. PICK i \in Port : /\ comUOp[i].valid
                          /\ \/ NewestCommit(i, comUOp) /\ comTag[comUOp[i].rd] = t
                             \/ ~NewestCommit(i, comUOp) /\ comUOp[i].tag = t
    BY <1>5, WhoFrees
  <2>2. comUOp[i].rd \in Reg
    <3>1. comUOp[i] \in RATWrite  BY <1>1 DEF TypeOK, ROBTypeOK
    <3> QED  BY <3>1 DEF RATWrite
  <2>3. ASSUME NEW l, NEW y, Owns(l, y, t)
        PROVE  Hands(n, used, l, y, k, x)
    <3>1. PICK j \in Kind, w \in Nat : Owns(j, w, t) /\ Hands(n, used, j, w, k, x)
      BY <1>2, <2>3, FreeIsFree
    <3>2. j = l /\ w = y  BY <1>1, <2>3, <3>1, OwnerType DEF OwnedOnce
    <3> QED  BY <3>1, <3>2
  <2>4. CASE NewestCommit(i, comUOp) /\ comTag[comUOp[i].rd] = t
    <3>1. Owns("arch", comUOp[i].rd, t)  BY <2>2, <2>4 DEF Owns, ArchOwns
    <3>2. k = "arch" /\ x = comUOp[i].rd  BY <2>3, <3>1 DEF Hands
    <3>3. ArchOwns(x, t)'  BY <3>2 DEF Owns
    <3>4. ASSUME NEW c \in Port, CommitOwns(c, t)
          PROVE  FALSE
      <4>1. Owns("commit", c, t)  BY <3>4 DEF Owns
      <4>2. "commit" = "arch"  BY <1>1, <3>1, <4>1, OwnerType DEF OwnedOnce
      <4> QED  BY <4>2
    <3> QED  BY <2>4, <3>2, <3>3, <3>4, ArchSource
  <2>5. CASE ~NewestCommit(i, comUOp) /\ comUOp[i].tag = t
    <3>1. Owns("commit", i, t)  BY <2>1, <2>5 DEF Owns, CommitOwns
    <3>2. k = "arch"  BY <2>3, <3>1 DEF Hands
    <3>3. ArchOwns(x, t)'  BY <3>2 DEF Owns
    <3>4. ASSUME NEW c \in Port, CommitOwns(c, t), NewestCommit(c, comUOp)
          PROVE  FALSE
      <4>1. Owns("commit", c, t)  BY <3>4 DEF Owns
      <4>2. c = i  BY <1>1, <3>1, <4>1, OwnerType DEF OwnedOnce
      <4> QED  BY <2>5, <3>4, <4>2
    <3>5. ASSUME ArchOwns(x, t)
          PROVE  FALSE
      <4>1. Owns("arch", x, t)  BY <3>5 DEF Owns
      <4>2. "commit" = "arch"  BY <1>1, <3>1, <4>1, OwnerType DEF OwnedOnce
      <4> QED  BY <4>2
    <3> QED  BY <3>3, <3>4, <3>5, ArchSource
  <2> QED  BY <2>1, <2>4, <2>5
<1>6. QED  BY <1>3, <1>4, <1>5

-----------------------------------------------------------------------------
(* Nothing is lost. *)

\* A register in the buffer, unless a redirect or a trap throws it out.
LEMMA RobKeeps ==
  ASSUME FreeListInv, ~branch.taken, ~trapUOp'.valid, NEW n \in 0 .. Width, RobMoves(n),
         NEW x, NEW t, RobOwns(x, t)
  PROVE  Kept(t)'
<1> USE DEF FreeListInv, WindowInv
<1>1. x \in SqNs /\ InROB(x) /\ 0 <= Pos(x) /\ Pos(x) < Pos(lastIndex)
      /\ entries[RobIdx(x)].tag = t
  BY DEF RobOwns, InROB, Pos
<1>2. Pos(x) \in Int /\ Pos(lastIndex) \in Int /\ Pos(counterSqN) \in Int
  BY <1>1, SqNState, PosType
<1>3. CASE n <= Pos(x)
  <2>1. Pos(lastIndex) <= Pos(counterSqN) /\ Pos(lastIndex') = Pos(counterSqN)
    BY CounterPos DEF RobMoves, LastIs
  <2>2. Pos(x) < Pos(lastIndex')  BY <1>1, <1>2, <2>1, SMT
  <2>3. InROB(x)'  BY <1>1, <1>3, <2>2, InROBAfter DEF RobMoves
  <2>4. entries'[RobIdx(x)].tag = t  BY <1>1 DEF RobMoves
  <2>5. Owns("rob", x, t)'  BY <2>3, <2>4 DEF Owns, RobOwns
  <2> QED  BY <2>5, OwnerType DEF Kept, Owns, Kind, RobOwns, InROB, SqNs
<1>4. CASE ~(n <= Pos(x))
  <2>1. ~mispredFlush'  BY <1>1, <1>4 DEF RobMoves
  <2> DEFINE i == Pos(x)
  <2>2. i \in Port /\ i < n /\ i \in Nat
    <3>1. n \in Int /\ n <= Width  BY WidthType, SMT
    <3> QED  BY <1>1, <1>2, <1>4, <3>1, WidthType, SMT DEF Port
  <2>3. Plus(baseIndex, i) = x  BY <1>1, SqNState, PlusDiff DEF Pos
  <2>4. PICK j \in Port : j = i  BY <2>2
  <2>5. comUOp'[j].valid /\ comUOp'[j].tag = t
    <3>1. Deq(j) = RobIdx(x)  BY <2>3, <2>4 DEF Deq
    <3> HIDE DEF i
    <3> QED  BY <1>1, <2>1, <2>2, <2>4, <3>1 DEF RobMoves
  <2>6. Owns("commit", j, t)'  BY <2>1, <2>5 DEF Owns, CommitOwns
  <2>7. "commit" \in Kind /\ j \in Nat  BY <2>2, <2>4 DEF Kind
  <2> QED  BY <2>6, <2>7 DEF Kept
<1>5. QED  BY <1>3, <1>4

\* A register rename has handed over.
LEMMA RenameKeeps ==
  ASSUME FreeListInv, ~branch.taken, NEW n \in 0 .. Width, RobMoves(n),
         NEW i, NEW t, RenameOwns(i, t)
  PROVE  Kept(t)'
<1> USE DEF FreeListInv, WindowInv
<1>1. i \in Port /\ rnUOp[i].valid /\ rnUOp[i].tagDst = t  BY DEF RenameOwns, InRename
<1>2. PICK m \in 0 .. Width :
        /\ \A j \in Port : /\ rnUOp[j].valid <=> j < m
                           /\ j < m => Pos(rnUOp[j].sqN) = Pos(lastIndex) + j
        /\ Pos(counterSqN) = Pos(lastIndex) + m
  BY DEF RenamedInOrder
<1>3. PICK s \in SqNs : s = rnUOp[i].sqN  BY <1>1, SqNState
<1>4. /\ i < m /\ Pos(s) = Pos(lastIndex) + i /\ Pos(lastIndex') = Pos(lastIndex) + m
      /\ n <= Pos(lastIndex)
  BY <1>1, <1>2, <1>3 DEF RobMoves, LastIs, Advances
<1>5. n <= Pos(s) /\ Pos(s) < Pos(lastIndex')
  <2>1. i \in Nat /\ m \in Int /\ n \in Int /\ Pos(lastIndex) \in Int
    BY <1>1, SqNState, PosType, WidthType, SMT DEF Port
  <2> QED  BY <1>4, <2>1, SMT
<1>6. InROB(s)'  BY <1>5, InROBAfter DEF RobMoves
<1>7. entries'[RobIdx(s)].tag = t  BY <1>1, <1>3 DEF RobMoves
<1>8. Owns("rob", s, t)'  BY <1>6, <1>7 DEF Owns, RobOwns
<1>9. "rob" \in Kind /\ s \in Nat  BY RingType, SMT DEF Kind, SqNs
<1>10. QED  BY <1>8, <1>9 DEF Kept

\* A register that is ready at a rename port.
LEMMA ReadyKeeps ==
  ASSUME FreeListInv, ~branch.taken, ~branch'.taken,
         NEW used \in SUBSET Port, RenameMoves(used),
         NEW i, NEW t \in RFTag, ReadyOwns(i, t)
  PROVE  Kept(t)'
<1>1. i \in Port /\ issueTag[i] = t /\ "ready" \in Kind /\ "rename" \in Kind
  BY DEF ReadyOwns, Kind
<1>2. i \in Nat  BY <1>1, WidthType, SMT DEF Port
<1>3. CASE i \in used
  <2>1. rnUOp'[i].valid /\ rnUOp'[i].tagDst = t  BY <1>1, <1>3 DEF RenameMoves
  <2>2. Owns("rename", i, t)'  BY <1>1, <2>1 DEF Owns, RenameOwns, InRename
  <2> QED  BY <1>1, <1>2, <2>2 DEF Kept
<1>4. CASE i \notin used
  <2>1. t # NoTag  BY TagType DEF Tag
  <2>2. i \notin Refilling(used)  BY <1>1, <1>4, <2>1 DEF Refilling, Refills
  <2>3. issueTag'[i] = IF i \in Refilling(used) THEN Refill(i)
                       ELSE IF branch.taken \/ i \in used THEN NoTag ELSE issueTag[i]
    BY <1>1 DEF RenameMoves, TBClock, Refilling
  <2>4. Owns("ready", i, t)'  BY <1>1, <1>4, <2>2, <2>3 DEF Owns, ReadyOwns
  <2> QED  BY <1>1, <1>2, <2>4 DEF Kept
<1>5. QED  BY <1>3, <1>4

\* A committed register.
LEMMA ArchKeeps ==
  ASSUME NEW r \in Reg, NEW t, comTag'[r] = t
  PROVE  Kept(t)'
<1>1. Owns("arch", r, t)'  BY DEF Owns, ArchOwns
<1>2. "arch" \in Kind /\ r \in Nat  BY IncludeAssumption, SMT DEF Kind, Reg
<1>3. QED  BY <1>1, <1>2 DEF Kept

\* What commit frees is in the list after the cycle.
LEMMA FreedKeeps ==
  ASSUME FreeListInv, ~branch.taken, ~mispredFlush,
         NEW used \in SUBSET Port, RenameMoves(used), NEW t \in RFTag, Freed(t)
  PROVE  Kept(t)'
  BY FreeAfterCommit DEF FreeListInv, WindowInv, Kept

\* A register that is being committed becomes the committed one, unless a younger
\* commit of the cycle replaces it at once.
LEMMA CommitKeeps ==
  ASSUME FreeListInv, ~branch.taken,
         NEW used \in SUBSET Port, RenameMoves(used),
         NEW i, NEW t \in RFTag, CommitOwns(i, t)
  PROVE  Kept(t)'
<1>1. i \in Port /\ ~mispredFlush /\ comUOp[i].valid /\ comUOp[i].tag = t  BY DEF CommitOwns
<1>2. CASE NewestCommit(i, comUOp)
  <2>1. comUOp[i].rd \in Reg
    <3>1. comUOp[i] \in RATWrite  BY <1>1 DEF FreeListInv, WindowInv, TypeOK, ROBTypeOK
    <3> QED  BY <3>1 DEF RATWrite
  <2>2. Written(comTag, comUOp)[comUOp[i].rd] = t  BY <1>1, <1>2, <2>1, WrittenByCommit
  <2>3. comTag'[comUOp[i].rd] = t  BY <1>1, <2>2 DEF RenameMoves
  <2> QED  BY <2>1, <2>3, ArchKeeps
<1>3. CASE ~NewestCommit(i, comUOp)
  <2>1. Freed(t)  BY <1>1, <1>3, WhoFrees
  <2> QED  BY <1>1, <2>1, FreedKeeps
<1>4. QED  BY <1>2, <1>3

\* The committed register of r stays, or a commit replaces and frees it.
LEMMA CommittedKeeps ==
  ASSUME FreeListInv, ~branch.taken,
         NEW used \in SUBSET Port, RenameMoves(used),
         NEW r, NEW t \in RFTag, ArchOwns(r, t)
  PROVE  Kept(t)'
<1>1. r \in Reg /\ comTag[r] = t  BY DEF ArchOwns
<1>2. CASE mispredFlush
  BY <1>1, <1>2, ArchKeeps DEF RenameMoves
<1>3. CASE ~mispredFlush /\ \A i \in Port : NewestCommit(i, comUOp) => comUOp[i].rd # r
  <2>1. Written(comTag, comUOp)[r] = t  BY <1>1, <1>3, WrittenByCommit
  <2>2. comTag'[r] = t  BY <1>3, <2>1 DEF RenameMoves
  <2> QED  BY <1>1, <2>2, ArchKeeps
<1>4. CASE ~mispredFlush /\ \E i \in Port : NewestCommit(i, comUOp) /\ comUOp[i].rd = r
  <2>1. Freed(t)  BY <1>1, <1>4, WhoFrees DEF NewestCommit
  <2> QED  BY <1>4, <2>1, FreedKeeps
<1>5. QED  BY <1>2, <1>3, <1>4

\* A free register stays so or goes to the rename port that asks for it; while a
\* replay runs the buffer claims it.
LEMMA FreeKeeps ==
  ASSUME FreeListInv, ~branch.taken, ~trapUOp'.valid, NEW n \in 0 .. Width, RobMoves(n),
         NEW used \in SUBSET Port, RenameMoves(used), NEW t \in free
  PROVE  Kept(t)'
<1>1. t \in RFTag /\ WindowInv /\ TypeOK /\ OwnedOnce(t)
  BY DEF FreeListInv, WindowInv, TypeOK, TBTypeOK
<1>2. CASE mispredFlush
  <2>1. CASE \E i \in Port : comUOp[i].valid /\ comUOp[i].tag = t
    <3>1. \E s \in SqNs : RobOwns(s, t)  BY <1>2, <2>1 DEF FreeListInv, ReplayHeld
    <3> QED  BY <3>1, RobKeeps
  <2>2. CASE ~ \E i \in Port : comUOp[i].valid /\ comUOp[i].tag = t
    BY <1>1, <1>2, <2>2, FreeInReplay DEF Kept
  <2> QED  BY <2>1, <2>2
<1>3. CASE ~mispredFlush
  <2>1. ~Claimed(t)
    <3> SUFFICES ASSUME Claimed(t)  PROVE FALSE
      OBVIOUS
    <3>1. PICK i \in Port : NewestCommit(i, comUOp) /\ comUOp[i].tag = t  BY <1>1, WhoFrees
    <3>2. Owns("commit", i, t)  BY <1>3, <3>1 DEF Owns, CommitOwns, NewestCommit
    <3> QED  BY <1>3, <3>2, FreeIsFree
  <2>2. CASE \E i \in Refilling(used) : Refill(i) = t
    <3>1. PICK i \in Refilling(used) : Refill(i) = t  BY <2>2
    <3>2. i \in Port  BY DEF Refilling, Refills
    <3>3. issueTag'[i] = t  BY <3>1, <3>2 DEF RenameMoves, TBClock, Refilling
    <3>4. Owns("ready", i, t)'  BY <3>2, <3>3 DEF Owns, ReadyOwns
    <3>5. "ready" \in Kind /\ i \in Nat  BY <3>2, WidthType, SMT DEF Port, Kind
    <3> QED  BY <3>4, <3>5 DEF Kept
  <2>3. CASE ~ \E i \in Refilling(used) : Refill(i) = t
    BY <1>1, <1>3, <2>1, <2>3, FreeAfterCommit DEF Kept
  <2> QED  BY <2>2, <2>3
<1>4. QED  BY <1>2, <1>3

\* No cycle loses a register.
LEMMA NoLeakStep ==
  ASSUME FreeListInv, CommittedFreeList', NEW n \in 0 .. Width, RobMoves(n),
         NEW used \in SUBSET Port, RenameMoves(used),
         trapUOp.valid => branch'.taken
  PROVE  NoLeak'
<1> SUFFICES ASSUME ~branch'.taken, ~trapUOp'.valid, NEW t \in RFTag
             PROVE  Kept(t)'
  BY DEF NoLeak
<1>1. CASE branch.taken
  <2>1. t \in free' \/ \E r \in Reg : comTag'[r] = t
    BY <1>1, FreeAfterRedirect DEF CommittedFreeList
  <2> QED  BY <2>1, ArchKeeps DEF Kept
<1>2. CASE ~branch.taken
  <2>1. t \in free \/ \E k \in Kind, x \in Nat : Owns(k, x, t)
    BY <1>2 DEF FreeListInv, NoLeak, Kept
  <2>2. CASE t \in free
    BY <1>2, <2>2, FreeKeeps
  <2>3. ASSUME NEW k \in Kind, NEW x \in Nat, Owns(k, x, t)
        PROVE  Kept(t)'
    BY <1>2, <2>3, RobKeeps, RenameKeeps, ReadyKeeps, CommitKeeps, CommittedKeeps DEF Owns
  <2> QED  BY <2>1, <2>2, <2>3
<1>3. QED  BY <1>1, <1>2

-----------------------------------------------------------------------------
(* The theorems. *)

LEMMA InitFreeList == Init => FreeListInv
<1> SUFFICES ASSUME Init  PROVE  FreeListInv
  OBVIOUS
<1>1. WindowInv  BY InitWindow
<1>2. /\ free = RFTag /\ freeCom = RFTag /\ issueTag = [i \in Port |-> NoTag]
      /\ comTag = [r \in Reg |-> TAG_ZERO]
      /\ baseIndex = 0 /\ lastIndex = 0 /\ misprReplay_r = NoReplay /\ mispredFlush = FALSE
      /\ comUOp = [i \in Port |-> NoRATWrite] /\ rnUOp = [i \in Port |-> NoRUOp]
  BY DEF Init, RATInit, TBInit, RNInit, ROBInit
<1>3. ASSUME NEW t \in RFTag, NEW k, NEW x
      PROVE  ~Owns(k, x, t)
  <2>1. ~RobOwns(x, t)
    <3>1. Diff(lastIndex, baseIndex) = 0  BY <1>2, ZeroType, PlusMinusOne
    <3>2. InROB(x) => x \in SqNs /\ 0 <= Diff(x, baseIndex) /\ Diff(x, baseIndex) < 0
      BY <3>1 DEF InROB
    <3>3. x \in SqNs => Diff(x, baseIndex) \in Int  BY <1>2, ZeroType, DiffType
    <3>4. ~InROB(x)  BY <3>2, <3>3, SMT
    <3> QED  BY <3>4 DEF RobOwns
  <2>2. ~RenameOwns(x, t)  BY <1>2 DEF RenameOwns, InRename, NoRUOp
  <2>3. ~CommitOwns(x, t)  BY <1>2 DEF CommitOwns, NoRATWrite
  <2>4. ~ReadyOwns(x, t)
    <3>1. t # NoTag  BY TagType DEF Tag
    <3> QED  BY <1>2, <3>1 DEF ReadyOwns
  <2>5. ~ArchOwns(x, t)  BY <1>2, ImmediatesAreNoRegisters DEF ArchOwns
  <2> QED  BY <2>1, <2>2, <2>3, <2>4, <2>5 DEF Owns
<1>4. \A t \in RFTag : OwnedOnce(t)  BY <1>3 DEF OwnedOnce
<1>5. \A t \in free : FreeApart(t)  BY <1>2, <1>3 DEF FreeApart
<1>6. CommittedFreeList  BY <1>2, ImmediatesAreNoRegisters DEF CommittedFreeList
<1>7. ReplayRange /\ ReplayHeld  BY <1>2 DEF ReplayRange, ReplayHeld, NoReplay
<1>8. NoLeak  BY <1>2 DEF NoLeak, Kept
<1>9. QED  BY <1>1, <1>4, <1>5, <1>6, <1>7, <1>8 DEF FreeListInv

\* A trap on its way becomes a redirect (TrapHandler.sv, BranchSelector.sv).
LEMMA TrapRedirects ==
  ASSUME trapUOp.valid, NEW F, RedirectStep(F)
  PROVE  branch'.taken
  BY DEF RedirectStep, SelectBranch, TrapBranch

LEMMA NextFreeList ==
  ASSUME ScNeverTimesOut
  PROVE  FreeListInv /\ [AnyNext]_vars => FreeListInv'
<1> SUFFICES ASSUME FreeListInv, [AnyNext]_vars  PROVE  FreeListInv'
  OBVIOUS
<1>1. WindowInv /\ WindowInv'  BY NextWindow DEF FreeListInv
<1>2. TypeOK /\ TypeOK'  BY <1>1 DEF WindowInv
<1>3. CASE AnyNext
  <2>1. PICK F \in AnyCompletions : Cycle(F)  BY <1>3 DEF AnyNext
  <2>2. F \in SUBSET FlagsUOp  BY <1>2, CompletionsType
  <2>3. /\ RedirectCycle(F) \/ ReplayCycle(F) \/ TrapCycle(F) \/ CommitCycle(F)
        /\ RedirectStep(F)
    BY <2>1 DEF Cycle
  <2>4. PICK n \in 0 .. Width : RobMoves(n)  BY <1>1, <2>2, <2>3, RobAlwaysMoves
  <2>5. PICK used \in SUBSET Port : RenameMoves(used)  BY <1>2, <2>3, RenameAlwaysMoves
  <2>6. NoReplayIn \/ ReplayIn(Replaying(branch))
    BY <1>1, <2>2, <2>3, CycleReplays DEF FreeListInv
  <2>7. \A t \in RFTag : OwnedOnce(t)'  BY <2>4, <2>5, OwnedOnceStep
  <2>8. CommittedFreeList'  BY <2>5, CommittedFreeListStep
  <2>9. ASSUME NEW t \in RFTag, t \in free'
        PROVE  FreeApart(t)'
    <3>1. CASE branch.taken
      <4>1. ReplayIn(Replaying(branch))  BY <2>6, <3>1 DEF NoReplayIn
      <4> QED  BY <2>4, <2>5, <2>8, <2>9, <3>1, <4>1, FreeApartRedirect
    <3>2. CASE ~branch.taken /\ mispredFlush
      BY <2>4, <2>5, <2>6, <2>9, <3>2, FreeApartReplay
    <3>3. CASE ~branch.taken /\ ~mispredFlush
      BY <2>4, <2>5, <2>9, <3>3, FreeApartCommit
    <3> QED  BY <3>1, <3>2, <3>3
  <2>10. free' \subseteq RFTag  BY <1>2 DEF TypeOK, TBTypeOK
  <2>11. ReplayRange'  BY <1>2, <2>6, ReplayRangeStep
  <2>12. ReplayHeld'  BY <1>1, <2>4, <2>6, ReplayHeldStep
  <2>13. NoLeak'
    <3>1. trapUOp.valid => branch'.taken  BY <2>3, TrapRedirects
    <3> QED  BY <2>4, <2>5, <2>8, <3>1, NoLeakStep
  <2>14. \A t \in free' : FreeApart(t)'  BY <2>9, <2>10
  <2> QED  BY <1>1, <2>7, <2>8, <2>11, <2>12, <2>13, <2>14 DEF FreeListInv
<1>4. CASE UNCHANGED vars
  <2> USE <1>4 DEF vars, ratVars, tbVars, rnVars, robVars, FreeListInv
  <2>1. \A k, x, t : Owns(k, x, t)' <=> Owns(k, x, t)
    BY DEF Owns, RobOwns, RenameOwns, CommitOwns, ReadyOwns, ArchOwns, InROB, InRename
  <2>2. \A s : Pending(s)' <=> Pending(s)  BY DEF Pending
  <2>3. \A t \in RFTag : OwnedOnce(t)'  BY <2>1 DEF OwnedOnce
  <2>4. \A t \in free' : FreeApart(t)'  BY <2>1, <2>2 DEF FreeApart
  <2>5. CommittedFreeList'  BY DEF CommittedFreeList
  <2>6. ReplayRange'  BY DEF ReplayRange, Pos
  <2>7. ReplayHeld'  BY DEF ReplayHeld, RobOwns, InROB
  <2>8. NoLeak'  BY <2>1 DEF NoLeak, Kept
  <2> QED  BY <1>1, <2>3, <2>4, <2>5, <2>6, <2>7, <2>8
<1>5. QED  BY <1>3, <1>4

\* The free list that a flush falls back to is the complement of the committed map
\* at all times, also in the middle of a replay (TagBuffer.sv freeCom), for every
\* size of the machine.
THEOREM CommittedFreeListCorrect ==
  ASSUME ScNeverTimesOut
  PROVE  Spec => []CommittedFreeList
<1>1. Init => FreeListInv  BY InitFreeList
<1>2. FreeListInv /\ [Next]_vars => FreeListInv'  BY NextFreeList, NextIsAny
<1>3. FreeListInv => CommittedFreeList  BY DEF FreeListInv
<1>4. QED  BY <1>1, <1>2, <1>3, PTL DEF Spec

\* The holders of a register are its owners and the free list.
LEMMA HoldersAre ==
  ASSUME ~mispredFlush, NEW t, NEW h
  PROVE  h \in Holders(t) <=> \/ \E k \in Kind, x \in Nat : h = <<k, x>> /\ Owns(k, x, t)
                              \/ h = <<"free", 0>> /\ t \in free
<1> DEFINE rob    == {<<"rob", s>> : s \in {k \in SqNs : InROB(k) /\ entries[RobIdx(k)].tag = t}}
           rename == {<<"rename", i>> : i \in {j \in Port : InRename(j) /\ rnUOp[j].tagDst = t}}
           commit == {<<"commit", i>> : i \in {j \in Port : comUOp[j].valid /\ comUOp[j].tag = t}}
           ready  == {<<"ready", i>> : i \in {j \in Port : issueTag[j] = t}}
           arch   == {<<"arch", r>> : r \in {q \in Reg : comTag[q] = t}}
<1>1. h \in rob <=> \E x : h = <<"rob", x>> /\ RobOwns(x, t)  BY DEF RobOwns, InROB
<1>2. h \in rename <=> \E x : h = <<"rename", x>> /\ RenameOwns(x, t)  BY DEF RenameOwns
<1>3. h \in commit <=> \E x : h = <<"commit", x>> /\ CommitOwns(x, t)  BY DEF CommitOwns
<1>4. h \in ready <=> \E x : h = <<"ready", x>> /\ ReadyOwns(x, t)  BY DEF ReadyOwns
<1>5. h \in arch <=> \E x : h = <<"arch", x>> /\ ArchOwns(x, t)  BY DEF ArchOwns
<1>6. h \in Holders(t) <=>
        \/ h \in rob \cup rename \cup commit \cup ready \cup arch
        \/ h = <<"free", 0>> /\ t \in free
  BY DEF Holders
<1> HIDE DEF rob, rename, commit, ready, arch
<1>7. (\E k \in Kind, x \in Nat : h = <<k, x>> /\ Owns(k, x, t)) <=>
        \/ h \in rob \/ h \in rename \/ h \in commit \/ h \in ready \/ h \in arch
  <2>1. ASSUME NEW k \in Kind, NEW x \in Nat, h = <<k, x>>, Owns(k, x, t)
        PROVE  h \in rob \/ h \in rename \/ h \in commit \/ h \in ready \/ h \in arch
    BY <1>1, <1>2, <1>3, <1>4, <1>5, <2>1 DEF Owns
  <2>2. ASSUME NEW k, NEW x, h = <<k, x>>, Owns(k, x, t)
        PROVE  \E l \in Kind, y \in Nat : h = <<l, y>> /\ Owns(l, y, t)
    BY <2>2, OwnerType
  <2>3. h \in rob => \E x : h = <<"rob", x>> /\ Owns("rob", x, t)  BY <1>1 DEF Owns
  <2>4. h \in rename => \E x : h = <<"rename", x>> /\ Owns("rename", x, t)  BY <1>2 DEF Owns
  <2>5. h \in commit => \E x : h = <<"commit", x>> /\ Owns("commit", x, t)  BY <1>3 DEF Owns
  <2>6. h \in ready => \E x : h = <<"ready", x>> /\ Owns("ready", x, t)  BY <1>4 DEF Owns
  <2>7. h \in arch => \E x : h = <<"arch", x>> /\ Owns("arch", x, t)  BY <1>5 DEF Owns
  <2> QED  BY <2>1, <2>2, <2>3, <2>4, <2>5, <2>6, <2>7
<1>8. QED  BY <1>6, <1>7

\* In a settled state every register is free or has one owner.
LEMMA FreeListInvPartition == FreeListInv => TagPartition
<1> SUFFICES ASSUME FreeListInv, Settled, NEW t \in RFTag
             PROVE  Cardinality(Holders(t)) = 1
  BY DEF TagPartition
<1>1. ~branch.taken /\ ~mispredFlush /\ ~trapUOp.valid  BY DEF Settled
<1>2. \E h : Holders(t) = {h}
  <2>1. CASE t \in free
    <3>1. \A k, x : ~Owns(k, x, t)  BY <1>1, <2>1, FreeIsFree
    <3>2. \A h : h \in Holders(t) <=> h = <<"free", 0>>  BY <1>1, <2>1, <3>1, HoldersAre
    <3>3. Holders(t) = {<<"free", 0>>}  BY <3>2, Zenon
    <3> QED  BY <3>3
  <2>2. CASE t \notin free
    <3>1. PICK k \in Kind, x \in Nat : Owns(k, x, t)
      BY <1>1, <2>2 DEF FreeListInv, NoLeak, Kept
    <3>2. \A l \in Kind, y \in Nat : Owns(l, y, t) => l = k /\ y = x
      BY <3>1 DEF FreeListInv, OwnedOnce
    <3>3. \A h : h \in Holders(t) <=> h = <<k, x>>
      BY <1>1, <2>2, <3>1, <3>2, HoldersAre
    <3>4. Holders(t) = {<<k, x>>}  BY <3>3, Zenon
    <3> QED  BY <3>4
  <2> QED  BY <2>1, <2>2
<1>3. QED  BY <1>2, FS_Singleton

\* Every physical register is held exactly once, by the free list, a rename port, a
\* uop in flight or the committed map: none is allocated twice and none is lost by a
\* commit, a redirect, a replay or a trap (TagBuffer.sv), for every size of the machine.
THEOREM TagPartitionCorrect ==
  ASSUME ScNeverTimesOut
  PROVE  Spec => []TagPartition
<1>1. Init => FreeListInv  BY InitFreeList
<1>2. FreeListInv /\ [Next]_vars => FreeListInv'  BY NextFreeList, NextIsAny
<1>3. FreeListInv => TagPartition  BY FreeListInvPartition
<1>4. QED  BY <1>1, <1>2, <1>3, PTL DEF Spec

-----------------------------------------------------------------------------
(* Produced values. *)

\* The ROB and the back end agree on the register of a uop.
TagsAgree == \A s \in SqNs : InROB(s) => backend[RobIdx(s)].tagDst = entries[RobIdx(s)].tag

\* What has executed without an exception has a value.
ExecutedProduced ==
  \A s \in SqNs, t \in RFTag :
    RobOwns(s, t) /\ flags[RobIdx(s)] \notin Exception \cup {"NX"} => t \in tagAvail

\* So has what is being committed.
CommitsProduced == \A i \in Port, t \in RFTag : CommitOwns(i, t) => t \in tagAvail

\* What rename has eliminated needs no register.
EliminatedNeedsNone == \A i \in Port : rnUOp[i].fu = "RN" => rnUOp[i].tagDst \notin RFTag

\* The inductive invariant.
ProducedInv ==
  /\ FreeListInv /\ RedirectCovers
  /\ TagsAgree /\ ExecutedProduced /\ CommitsProduced /\ EliminatedNeedsNone
  /\ CommittedProduced

\* A register only becomes unavailable when a rename port hands it over.
LEMMA AvailStays ==
  ASSUME TypeOK, NEW F,
         RedirectCycle(F) \/ ReplayCycle(F) \/ TrapCycle(F) \/ CommitCycle(F),
         NEW t \in RFTag, t \in tagAvail \cup WrittenBack(F)
  PROVE  t \in tagAvail' \/ \E i \in Port : ReadyOwns(i, t)
<1>1. CASE /\ ~branch.taken
           /\ \E uop \in DecodedUOps(DUOps) : RNAccept(mispredFlush, uop, comUOp, F)
  <2>1. PICK uop \in DecodedUOps(DUOps) : RNAccept(mispredFlush, uop, comUOp, F)  BY <1>1
  <2>2. RATClock(FALSE, mispredFlush, Issue(uop), comUOp, WrittenBack(F))
    BY <2>1 DEF RNAccept
  <2>3. ASSUME t \notin tagAvail'
        PROVE  \E i \in Port : Issue(uop)[i].valid /\ Issue(uop)[i].tag = t
    BY <2>2, <2>3 DEF RATClock
  <2>4. ASSUME NEW i \in Port, Issue(uop)[i].valid, Issue(uop)[i].tag = t
        PROVE  ReadyOwns(i, t)
    <3>1. Decoded(uop, i)  BY <2>4 DEF Issue, NoRATWrite
    <3>2. NewTag(uop, i) = t  BY <2>4, <3>1 DEF Issue
    <3>3. NewTag(uop, i) \in {issueTag[i], TAG_ONE, TAG_ZERO}  BY DEF NewTag
    <3> QED  BY <3>2, <3>3, ImmediatesAreNoRegisters DEF ReadyOwns
  <2> QED  BY <2>3, <2>4
<1>2. CASE \E m : RATClock(m, mispredFlush, Issue(NoDUOps), comUOp, WrittenBack(F))
  <2>1. \A i \in Port : ~Issue(NoDUOps)[i].valid
    BY DEF Issue, NoDUOps, Decoded, NoRATWrite
  <2> QED  BY <1>2, <2>1 DEF RATClock
<1>3. QED
  BY <1>1, <1>2 DEF RedirectCycle, ReplayCycle, TrapCycle, CommitCycle, RenameStep,
                    RNRedirect, RNIdle

\* A register that someone else owns stays available.
LEMMA OwnedAvailStays ==
  ASSUME WindowInv, NEW F,
         RedirectCycle(F) \/ ReplayCycle(F) \/ TrapCycle(F) \/ CommitCycle(F),
         NEW t \in RFTag, OwnedOnce(t), t \in tagAvail \cup WrittenBack(F),
         NEW k, NEW x, Owns(k, x, t), k # "ready"
  PROVE  t \in tagAvail'
<1>1. ASSUME NEW i \in Port, ReadyOwns(i, t)
      PROVE  FALSE
  <2>1. Owns("ready", i, t)  BY <1>1 DEF Owns
  <2> QED  BY <2>1, OwnerType DEF OwnedOnce
<1>2. QED  BY <1>1, AvailStays DEF WindowInv

\* A report names the register of its uop.
LEMMA ReportedTag ==
  ASSUME NEW F \in AnyCompletions, NEW u \in F
  PROVE  u.tagDst = backend[RobIdx(u.sqN)].tagDst
<1>1. CASE \E t \in SqNs : u \in Reports(t)
  BY <1>1 DEF Reports, Unit
<1>2. CASE \E t : u = BranchReport(t)
  BY <1>2 DEF BranchReport, Unit
<1>3. QED  BY <1>1, <1>2, ReportSource

\* The tags of a slot, in the ROB and in the back end.
LEMMA SlotTags ==
  ASSUME WindowInv, NEW F \in AnyCompletions, BackendStep(F), EnqueueStep(rnUOp, F, branch),
         NEW k \in RobIdxs
  PROVE  /\ Enqueued(k, rnUOp, branch) = {} =>
              backend'[k].tagDst = backend[k].tagDst /\ entries'[k] = entries[k]
         /\ Enqueued(k, rnUOp, branch) # {} => \E i \in Port :
              /\ backend'[k].tagDst = rnUOp[i].tagDst /\ entries'[k].tag = rnUOp[i].tagDst
              /\ Completed(k, F, branch) = {} => flags'[k] = InitialFlags(rnUOp[i].fu)
<1>1. CASE Enqueued(k, rnUOp, branch) = {}
  <2> DEFINE woken == backend[k].avail \/ backend[k].tag \in WrittenBack(F)
             first == backend[k].early \/ \E u \in F : RobIdx(u.sqN) = k /\ u.doNotCommit
             wrong == backend[k].mispred
                        /\ ~ \E s \in intRes : RobIdx(s) = k /\ branch.taken /\ branch.sqN = s
                                               /\ ~branch.flush /\ ~branch.isSCFail
  <2>1. backend'[k] = [backend[k] EXCEPT !.avail = woken, !.early = first, !.mispred = wrong]
    BY <1>1 DEF BackendStep
  <2>2. backend[k] \in BackendUOp  BY DEF WindowInv, TypeOK
  <2>3. backend'[k].tagDst = backend[k].tagDst
    <3> HIDE DEF woken, first, wrong
    <3> QED  BY <2>1, <2>2 DEF BackendUOp
  <2> QED  BY <1>1, <2>3 DEF EnqueueStep
<1>2. CASE Enqueued(k, rnUOp, branch) # {}
  <2> DEFINE i == CHOOSE j \in Enqueued(k, rnUOp, branch) : TRUE
  <2>1. i \in Port  BY <1>2 DEF Enqueued
  <2>2. backend'[k] = Entered(rnUOp[i], WrittenBack(F))  BY <1>2 DEF BackendStep
  <2>3. entries'[k] = EntryOf(rnUOp[i])  BY <1>2 DEF EnqueueStep
  <2>4. Completed(k, F, branch) = {} => flags'[k] = InitialFlags(rnUOp[i].fu)
    BY <1>2 DEF EnqueueStep
  <2> HIDE DEF i
  <2>5. backend'[k].tagDst = rnUOp[i].tagDst  BY <2>2 DEF Entered
  <2>6. entries'[k].tag = rnUOp[i].tagDst  BY <2>3 DEF EntryOf
  <2> QED  BY <1>2, <2>1, <2>4, <2>5, <2>6
<1>3. QED  BY <1>1, <1>2

\* Commit ports only show registers of uops that have executed without an exception.
LEMMA CommitShowsExecuted ==
  ASSUME NEW F,
         RedirectCycle(F) \/ ReplayCycle(F) \/ TrapCycle(F) \/ CommitCycle(F),
         NEW i, NEW t \in RFTag, CommitOwns(i, t)'
  PROVE  flags[Deq(i)] \notin Exception \cup {"NX"}
<1>1. i \in Port /\ ~mispredFlush' /\ comUOp'[i].valid /\ comUOp'[i].tag = t
  BY DEF CommitOwns
<1>2. comUOp'[i] # NoRATWrite  BY <1>1 DEF NoRATWrite
<1>3. CASE RedirectCycle(F) \/ ReplayCycle(F)
  <2>1. ReplayStep(Replaying(branch))  BY <1>3 DEF RedirectCycle, ReplayCycle, ROBReplay
  <2>2. comUOp'[i] = NoRATWrite  BY <1>1, <2>1 DEF ReplayStep, ReplayedUOp
  <2> QED  BY <1>2, <2>2
<1>4. CASE TrapCycle(F)
  <2>1. CommitStep(0, FALSE)  BY <1>4 DEF TrapCycle, ROBStop
  <2>2. ~(i < 0)  BY <1>1, WidthType, SMT DEF Port
  <2>3. comUOp'[i] = NoRATWrite  BY <1>1, <2>1, <2>2 DEF CommitStep
  <2> QED  BY <1>2, <2>3
<1>5. CASE CommitCycle(F)
  <2>1. PICK n \in 0 .. Width, hang \in {FALSE, AllowTimeout} :
          Commits(n, hang) /\ CommitStep(n, hang)
    BY <1>5 DEF CommitCycle, ROBCommit
  <2>2. i < n /\ comUOp'[i] = CommittedUOp(i, hang)  BY <1>1, <1>2, <2>1 DEF CommitStep
  <2>3. ~IsException(i, hang)
    BY <1>1, <2>2, ImmediatesAreNoRegisters DEF CommittedUOp
  <2>4. MayCommit(i, hang)  BY <1>1, <2>1, <2>2 DEF Commits
  <2> QED  BY <2>3, <2>4 DEF IsException, MayCommit
<1>6. QED  BY <1>3, <1>4, <1>5

\* Rename gives what it eliminates an immediate.
LEMMA EliminatedStep ==
  ASSUME NEW F,
         RedirectCycle(F) \/ ReplayCycle(F) \/ TrapCycle(F) \/ CommitCycle(F)
  PROVE  EliminatedNeedsNone'
<1>1. CASE rnUOp' = [i \in Port |-> NoRUOp]
  BY <1>1, ImmediatesAreNoRegisters DEF NoRUOp, EliminatedNeedsNone
<1>2. CASE \E uop \in DecodedUOps(DUOps) : RNAccept(mispredFlush, uop, comUOp, F)
  <2>1. PICK uop \in DecodedUOps(DUOps) : RNAccept(mispredFlush, uop, comUOp, F)
    BY <1>2
  <2>2. rnUOp' = [i \in Port |-> IF Decoded(uop, i) THEN Renamed(uop, i, WrittenBack(F))
                                 ELSE NoRUOp]
    BY <2>1 DEF RNAccept
  <2>3. ASSUME NEW i \in Port, rnUOp'[i].fu = "RN"
        PROVE  rnUOp'[i].tagDst \notin RFTag
    <3>1. CASE Decoded(uop, i)
      <4>1. rnUOp'[i] = Renamed(uop, i, WrittenBack(F))  BY <2>2, <3>1
      <4>2. rnUOp'[i].tagDst = NewTag(uop, i)
            /\ rnUOp'[i].fu = IF ScFails(uop, i) THEN "RN" ELSE uop[i].fu
        BY <4>1 DEF Renamed
      <4>3. ~TagNeeded(uop[i])  BY <2>3, <4>2 DEF TagNeeded, ScFails
      <4>4. NewTag(uop, i) \in {TAG_ONE, TAG_ZERO}  BY <4>3 DEF NewTag
      <4> QED  BY <4>2, <4>4, ImmediatesAreNoRegisters
    <3>2. CASE ~Decoded(uop, i)
      BY <2>2, <3>2, ImmediatesAreNoRegisters DEF NoRUOp
    <3> QED  BY <3>1, <3>2
  <2> QED  BY <2>3 DEF EliminatedNeedsNone
<1>3. QED
  BY <1>1, <1>2 DEF RedirectCycle, ReplayCycle, TrapCycle, CommitCycle, RenameStep,
                    RNRedirect, RNIdle

\* A uop in the buffer that has executed, after a cycle.
LEMMA ExecutedStep ==
  ASSUME ProducedInv, NEW F \in AnyCompletions, BackendStep(F), EnqueueStep(rnUOp, F, branch),
         RedirectCycle(F) \/ ReplayCycle(F) \/ TrapCycle(F) \/ CommitCycle(F),
         NEW n \in 0 .. Width, RobMoves(n), NEW s \in SqNs, NEW t \in RFTag, RobOwns(s, t)',
         flags'[RobIdx(s)] \notin Exception \cup {"NX"}
  PROVE  t \in tagAvail'
<1> DEFINE k == RobIdx(s)
<1>1. WindowInv /\ RedirectCovers /\ OwnedOnce(t) /\ k \in RobIdxs
  BY RobIdxType DEF ProducedInv, FreeListInv
<1>2. InROB(s)' /\ entries'[k].tag = t  BY DEF RobOwns
<1>3. CASE Enqueued(k, rnUOp, branch) # {}
  <2>1. Completed(k, F, branch) = {}  BY <1>1, <1>3, EntersAlone
  <2>2. PICK i \in Port : rnUOp[i].tagDst = t /\ flags'[k] = InitialFlags(rnUOp[i].fu)
    <3> HIDE DEF k
    <3> QED  BY <1>1, <1>2, <1>3, <2>1, SlotTags
  <2>3. rnUOp[i].fu = "RN"
    <3>1. InitialFlags(rnUOp[i].fu) \notin Exception \cup {"NX"}  BY <2>2
    <3> QED  BY <3>1 DEF InitialFlags, Exception
  <2> QED  BY <2>2, <2>3 DEF ProducedInv, EliminatedNeedsNone
<1>4. CASE Enqueued(k, rnUOp, branch) = {}
  <2>1. InROB(s)  BY <1>1, <1>2, <1>4, EnteredOrKept DEF RobMoves
  <2>2. RobOwns(s, t)  BY <1>2, <2>1 DEF RobMoves, RobOwns
  <2>3. CASE Completed(k, F, branch) # {}
    <3>1. PICK u \in F : RobIdx(u.sqN) = k /\ u.flags \notin MemFault
      <4>1. PICK v \in Completed(k, F, branch) : flags'[k] = v.flags
        <5> HIDE DEF k
        <5> QED  BY <1>1, <2>3 DEF EnqueueStep
      <4> QED  BY <4>1 DEF Completed, Exception, MemFault
    <3>2. u.tagDst = t  BY <2>1, <2>2, <3>1, ReportedTag DEF ProducedInv, TagsAgree, RobOwns
    <3>3. t \in WrittenBack(F)  BY <3>1, <3>2 DEF WrittenBack
    <3> QED  BY <1>1, <2>2, <3>3, OwnedAvailStays DEF Owns
  <2>4. CASE Completed(k, F, branch) = {}
    <3>1. flags'[k] = flags[k]
      <4> HIDE DEF k
      <4> QED  BY <1>1, <1>4, <2>4 DEF EnqueueStep
    <3>2. t \in tagAvail  BY <2>2, <3>1 DEF ProducedInv, ExecutedProduced
    <3> QED  BY <1>1, <2>2, <3>2, OwnedAvailStays DEF Owns
  <2> QED  BY <2>3, <2>4
<1>5. QED  BY <1>3, <1>4

LEMMA NextProduced ==
  ASSUME ScNeverTimesOut
  PROVE  ProducedInv /\ [AnyNext]_vars => ProducedInv'
<1> SUFFICES ASSUME ProducedInv, [AnyNext]_vars  PROVE  ProducedInv'
  OBVIOUS
<1>1. FreeListInv' /\ FreeListInv /\ WindowInv /\ \A t \in RFTag : OwnedOnce(t)
  BY NextFreeList DEF ProducedInv, FreeListInv
<1>2. CASE AnyNext
  <2>1. PICK F \in AnyCompletions : Cycle(F)  BY <1>2 DEF AnyNext
  <2>2. F \in SUBSET FlagsUOp  BY <1>1, CompletionsType DEF WindowInv
  <2>3. /\ RedirectCycle(F) \/ ReplayCycle(F) \/ TrapCycle(F) \/ CommitCycle(F)
        /\ BackendStep(F) /\ RedirectStep(F)
    BY <2>1 DEF Cycle
  <2>4. EnqueueStep(rnUOp, F, branch)
    BY <2>3 DEF RedirectCycle, ReplayCycle, TrapCycle, CommitCycle, ROBReplay, ROBStop, ROBCommit
  <2>5. PICK n \in 0 .. Width : RobMoves(n)  BY <1>1, <2>2, <2>3, RobAlwaysMoves
  <2>6. PICK used \in SUBSET Port : RenameMoves(used)
    BY <1>1, <2>3, RenameAlwaysMoves DEF WindowInv
  <2>7. RedirectCovers'  BY <1>1, <2>3, RedirectCoversStep
  <2>8. TagsAgree'
    <3> SUFFICES ASSUME NEW s \in SqNs, InROB(s)'
                 PROVE  backend'[RobIdx(s)].tagDst = entries'[RobIdx(s)].tag
      BY DEF TagsAgree
    <3>1. CASE Enqueued(RobIdx(s), rnUOp, branch) # {}
      BY <1>1, <2>3, <2>4, <3>1, RobIdxType, SlotTags
    <3>2. CASE Enqueued(RobIdx(s), rnUOp, branch) = {}
      <4>1. InROB(s)  BY <1>1, <2>5, <3>2, EnteredOrKept DEF RobMoves
      <4>2. backend[RobIdx(s)].tagDst = entries[RobIdx(s)].tag
        BY <4>1 DEF ProducedInv, TagsAgree
      <4> QED  BY <1>1, <2>3, <2>4, <3>2, <4>2, RobIdxType, SlotTags
    <3> QED  BY <3>1, <3>2
  <2>9. ExecutedProduced'  BY <2>3, <2>4, <2>5, ExecutedStep DEF ExecutedProduced
  <2>10. CommitsProduced'
    <3> SUFFICES ASSUME NEW i \in Port, NEW t \in RFTag, CommitOwns(i, t)'
                 PROVE  t \in tagAvail'
      BY DEF CommitsProduced
    <3>1. PICK s : s = Plus(baseIndex, i) /\ RobOwns(s, t)  BY <1>1, <2>5, CommitSource
    <3>2. s \in SqNs  BY <3>1 DEF RobOwns, InROB
    <3>3. flags[RobIdx(s)] \notin Exception \cup {"NX"}
      BY <2>3, <3>1, CommitShowsExecuted DEF Deq
    <3>4. t \in tagAvail  BY <3>1, <3>2, <3>3 DEF ProducedInv, ExecutedProduced
    <3> QED  BY <1>1, <2>3, <3>1, <3>4, OwnedAvailStays DEF Owns
  <2>11. EliminatedNeedsNone'  BY <2>3, EliminatedStep
  <2>12. CommittedProduced'
    <3> SUFFICES ASSUME NEW r \in Reg, comTag'[r] \notin ImmTag
                 PROVE  comTag'[r] \in tagAvail'
      BY DEF CommittedProduced
    <3>1. PICK t \in RFTag : t = comTag'[r]
      <4>1. comTag'[r] \in Tag
        BY <1>1 DEF FreeListInv, WindowInv, TypeOK, RATTypeOK
      <4> QED  BY <4>1 DEF Tag
    <3>2. ArchOwns(r, t)'  BY <3>1 DEF ArchOwns
    <3>3. CASE \E i \in Port : CommitOwns(i, t)
      <4>1. PICK i \in Port : CommitOwns(i, t)  BY <3>3
      <4>2. t \in tagAvail  BY <4>1 DEF ProducedInv, CommitsProduced
      <4> QED  BY <1>1, <2>3, <3>1, <4>1, <4>2, OwnedAvailStays DEF Owns
    <3>4. CASE ArchOwns(r, t)
      <4>1. comTag[r] = t /\ t \notin ImmTag  BY <3>1, <3>4 DEF ArchOwns
      <4>2. t \in tagAvail  BY <4>1 DEF ProducedInv, CommittedProduced
      <4> QED  BY <1>1, <2>3, <3>1, <3>4, <4>2, OwnedAvailStays DEF Owns
    <3> QED  BY <2>6, <3>2, <3>3, <3>4, ArchSource
  <2> QED  BY <1>1, <2>7, <2>8, <2>9, <2>10, <2>11, <2>12 DEF ProducedInv
<1>3. CASE UNCHANGED vars
  <2>1. /\ RedirectCovers' /\ TagsAgree' /\ ExecutedProduced' /\ CommitsProduced'
        /\ EliminatedNeedsNone' /\ CommittedProduced'
    BY <1>3 DEF ProducedInv, vars, ratVars, rnVars, robVars, RedirectCovers, TagsAgree,
                ExecutedProduced, CommitsProduced, EliminatedNeedsNone, CommittedProduced,
                InROB, RobOwns, CommitOwns
  <2> QED  BY <1>1, <2>1 DEF ProducedInv
<1>4. QED  BY <1>2, <1>3

\* After reset every value that a map names is there.
LEMMA InitProduced == Init => ProducedInv
<1> SUFFICES ASSUME Init  PROVE ProducedInv
  OBVIOUS
<1>1. /\ tagAvail = RFTag /\ comTag = [r \in Reg |-> TAG_ZERO] /\ intRes = {} /\ memRes = {}
      /\ rnUOp = [i \in Port |-> NoRUOp]
      /\ backend = [k \in RobIdxs |-> NoBackendUOp] /\ entries = [k \in RobIdxs |-> NoEntry]
  BY DEF Init, RATInit, RNInit, ROBInit
<1>2. FreeListInv  BY InitFreeList
<1>3. RedirectCovers  BY <1>1 DEF RedirectCovers
<1>4. TagsAgree  BY <1>1, RobIdxType DEF TagsAgree, NoBackendUOp, NoEntry
<1>5. ExecutedProduced /\ CommitsProduced  BY <1>1 DEF ExecutedProduced, CommitsProduced
<1>6. EliminatedNeedsNone  BY <1>1, ImmediatesAreNoRegisters DEF EliminatedNeedsNone, NoRUOp
<1>7. CommittedProduced  BY <1>1 DEF CommittedProduced, ImmTag, TAG_ZERO
<1> QED  BY <1>2, <1>3, <1>4, <1>5, <1>6, <1>7 DEF ProducedInv

\* The committed map only names values that have been produced: what trapped or timed
\* out never gets into it (ROB.sv commit), for every size of the machine.
THEOREM CommittedProducedCorrect ==
  ASSUME ScNeverTimesOut
  PROVE  Spec => []CommittedProduced
<1>1. Init => ProducedInv  BY InitProduced
<1>2. ProducedInv /\ [Next]_vars => ProducedInv'  BY NextProduced, NextIsAny
<1>3. ProducedInv => CommittedProduced  BY DEF ProducedInv
<1>4. QED  BY <1>1, <1>2, <1>3, PTL DEF Spec

=============================================================================
