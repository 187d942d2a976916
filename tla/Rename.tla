------------------------------- MODULE Rename -------------------------------
(***************************************************************************)
(* Register renaming (src/src/Rename.sv) on top of the alias table and the *)
(* free list.  Each cycle the decoder presents up to Width uops; unless    *)
(* rename has to stall, all of them get sequence numbers and tags at once  *)
(* and appear in rnUOp (OUT_uop) for one cycle.                            *)
(***************************************************************************)
EXTENDS TagBuffer

VARIABLES
  counterSqN, counterStoreSqN, counterLoadSqN,
  failSc,      \* the next uop is a store-conditional that has failed
  rnUOp        \* OUT_uop

rnVars == <<counterSqN, counterStoreSqN, counterLoadSqN, failSc, rnUOp>>

RNTypeOK ==
  /\ counterSqN \in SqNs /\ counterStoreSqN \in SqNs /\ counterLoadSqN \in SqNs
  /\ failSc \in BOOLEAN
  /\ rnUOp \in [Port -> R_UOp]

RNInit ==
  /\ counterSqN = 0 /\ counterStoreSqN = Minus(0, 1) /\ counterLoadSqN = 0
  /\ failSc = FALSE
  /\ rnUOp = [i \in Port |-> NoRUOp]

\* The decoder fills ports from 0 on, so uop holds its n uops on ports 0..n-1.
DecodedUOps(D) ==
  {uop \in [Port -> D \cup {NoDUOp}] :
     \A i, j \in Port : i < j /\ uop[i] = NoDUOp => uop[j] = NoDUOp}

Decoded(uop, i) == uop[i] # NoDUOp

-----------------------------------------------------------------------------
ScFails(uop, i) == uop[i].fu = "SC" /\ i = 0 /\ failSc

\* TB_tagNeeded.  An atomic needs a register for its intermediate result even
\* if it has no destination.
TagNeeded(u) ==
  /\ u.rd # 0 \/ u.fu = "ATOMIC"
  /\ u.fu \notin {"RN", "TRAP", "SC"}

\* Fault: rename does not wait for free registers.
StallNever(uop) == FALSE

\* OUT_stall
Stall(uop) == \E i \in Port : TagNeeded(uop[i]) /\ issueTag[i] = NoTag

NewTag(uop, i) ==
  CASE TagNeeded(uop[i])   -> issueTag[i]
    [] uop[i].fu = "RN"    -> TAG_ONE      \* the immediate it loads
    [] ScFails(uop, i)     -> TAG_ONE
    [] OTHER               -> TAG_ZERO

Issue(uop) == [i \in Port |-> IF Decoded(uop, i)
                              THEN [valid |-> TRUE, rd |-> uop[i].rd, tag |-> NewTag(uop, i)]
                              ELSE NoRATWrite]

\* loadSqNs, storeSqNs: the numbers after the uops below port i.
StoresBelow(uop, i) == {j \in Port : j < i /\ IsSt(uop[j].fu) /\ ~ScFails(uop, j)}
LoadsBelow(uop, i)  == {j \in Port : j < i /\ IsLd(uop[j].fu)}

StoreSqNs(uop, i) == Plus(counterStoreSqN, Cardinality(StoresBelow(uop, i)))
LoadSqNs(uop, i)  == Plus(counterLoadSqN, Cardinality(LoadsBelow(uop, i)))

\* A failed store-conditional goes on as the load of an immediate.  Store
\* numbers pre-increment, load numbers post-increment.
Renamed(uop, i, wb) ==
  [valid    |-> TRUE,
   sqN      |-> Plus(counterSqN, i),
   fu       |-> IF ScFails(uop, i) THEN "RN" ELSE uop[i].fu,
   rd       |-> uop[i].rd,
   tagDst   |-> NewTag(uop, i),
   tag      |-> LookupSpecTag(i, uop[i].rs, Issue(uop)),
   avail    |-> LookupAvail(i, uop[i].rs, Issue(uop), wb),
   storeSqN |-> StoreSqNs(uop, i + 1),
   loadSqN  |-> LoadSqNs(uop, i),
   mispred  |-> uop[i].mispred]

\* Fault: the reports of the address units, which go to the ROB alone, wake
\* consumers too.
WrittenBackAll(flagUOps) == {u.tagDst : u \in flagUOps} \cap RFTag

\* Tags of the results reported in this cycle, squashed ones included: rename
\* and the issue queues see the ports that write registers.  A memory operation
\* that faults is reported by its address unit, to the ROB alone.
WrittenBack(flagUOps) ==
  {u.tagDst : u \in {v \in flagUOps : v.flags \notin MemFault}} \cap RFTag

NoDUOps == [i \in Port |-> NoDUOp]

-----------------------------------------------------------------------------
\* A cycle in which rename takes the n > 0 uops decode presents (cycleValid).
RNAccept(mispredFlush, uop, commit, flagUOps) ==
  LET n  == Cardinality({i \in Port : Decoded(uop, i)})
      wb == WrittenBack(flagUOps)
  IN  /\ ~mispredFlush /\ ~Stall(uop)
      /\ rnUOp' = [i \in Port |-> IF Decoded(uop, i) THEN Renamed(uop, i, wb) ELSE NoRUOp]
      /\ counterSqN' = Plus(counterSqN, n)
      /\ counterStoreSqN' = StoreSqNs(uop, Width)
      /\ counterLoadSqN' = LoadSqNs(uop, Width)
      /\ failSc' = FALSE
      /\ RATClock(FALSE, mispredFlush, Issue(uop), commit, wb)
      /\ TBClock(FALSE, mispredFlush, {i \in Port : TagNeeded(uop[i])}, commit)

\* A cycle in which rename takes nothing: decode has nothing, or it stalls.
RNIdle(mispredFlush, commit, flagUOps) ==
  /\ rnUOp' = [i \in Port |-> NoRUOp]
  /\ UNCHANGED <<counterSqN, counterStoreSqN, counterLoadSqN, failSc>>
  /\ RATClock(FALSE, mispredFlush, Issue(NoDUOps), commit, WrittenBack(flagUOps))
  /\ TBClock(FALSE, mispredFlush, {}, commit)

\* A cycle with a redirect: everything renamed after it is dropped.
RNRedirect(branch, mispredFlush, commit, flagUOps) ==
  /\ rnUOp' = [i \in Port |-> NoRUOp]
  /\ counterSqN' = Plus(branch.sqN, 1)
  /\ counterStoreSqN' = branch.storeSqN
  /\ counterLoadSqN' = branch.loadSqN
  /\ failSc' = branch.isSCFail
  /\ RATClock(TRUE, mispredFlush, Issue(NoDUOps), commit, WrittenBack(flagUOps))
  /\ TBClock(TRUE, mispredFlush, {}, commit)

=============================================================================
