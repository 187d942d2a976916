-------------------------------- MODULE ROB --------------------------------
(***************************************************************************)
(* The reorder buffer (src/src/ROB.sv).  Renamed uops enter in order at    *)
(* lastIndex, report completion in any order, and leave in order from      *)
(* baseIndex.  After a redirect the uops that survive it are replayed to   *)
(* rename from baseIndex on, Width per cycle and without being committed,  *)
(* to rebuild the speculative rename map.                                  *)
(***************************************************************************)
EXTENDS Include, FiniteSets

VARIABLES
  entries,        \* what is known about an uop when it is renamed
  flags,          \* how it completed
  baseIndex, lastIndex,
  storeSqN_r, loadSqN_r,    \* sequence numbers of the last store, next load
  misprReplay_r,  \* the replay in progress
  mispredFlush,   \* comUOp holds replayed uops
  stop,           \* a trap was sent in the last cycle
  comUOp,         \* committed or replayed uops, one per port
  trapUOp         \* the committed uop that needs the trap handler

robVars == <<entries, flags, baseIndex, lastIndex, storeSqN_r, loadSqN_r,
             misprReplay_r, mispredFlush, stop, comUOp, trapUOp>>

ROBEntry == [tag : Tag, rd : Reg, isLd : BOOLEAN, isSt : BOOLEAN]
NoEntry  == [tag |-> TAG_ZERO, rd |-> 0, isLd |-> FALSE, isSt |-> FALSE]

Replay   == [valid : BOOLEAN, endSqN : SqNs, iterSqN : SqNs]
NoReplay == [valid |-> FALSE, endSqN |-> 0, iterSqN |-> 0]

Trap_UOp  == [valid : BOOLEAN, timeout : BOOLEAN, flags : Flags, sqN : SqNs,
              loadSqN : SqNs, storeSqN : SqNs]
NoTrapUOp == [valid |-> FALSE, timeout |-> FALSE, flags |-> "NONE", sqN |-> 0,
              loadSqN |-> 0, storeSqN |-> 0]

ROBTypeOK ==
  /\ entries \in [RobIdxs -> ROBEntry]
  /\ flags \in [RobIdxs -> Flags]
  /\ baseIndex \in SqNs /\ lastIndex \in SqNs
  /\ storeSqN_r \in SqNs /\ loadSqN_r \in SqNs
  /\ misprReplay_r \in Replay
  /\ mispredFlush \in BOOLEAN /\ stop \in BOOLEAN
  /\ comUOp \in [Port -> RATWrite]
  /\ trapUOp \in Trap_UOp

\* The arrays are not reset: any content will do.
ROBInit ==
  /\ entries = [k \in RobIdxs |-> NoEntry]
  /\ \E f \in Flags : flags = [k \in RobIdxs |-> f]
  /\ baseIndex = 0 /\ lastIndex = 0
  /\ storeSqN_r = Minus(0, 1) /\ loadSqN_r = 0
  /\ misprReplay_r = NoReplay
  /\ mispredFlush = FALSE /\ stop = FALSE
  /\ comUOp = [i \in Port |-> NoRATWrite]
  /\ trapUOp = NoTrapUOp

\* The entry s names is in the buffer.
InROB(s) == s \in SqNs /\ LET d == Diff(s, baseIndex)
                          IN  0 <= d /\ d < Diff(lastIndex, baseIndex)

-----------------------------------------------------------------------------
\* Replay after a redirect.

Replaying(branch) ==
  IF branch.taken
  THEN [valid |-> TRUE, endSqN |-> branch.sqN, iterSqN |-> baseIndex]
  ELSE misprReplay_r

\* misprReplayFwdMask
Survives(r, i) == Diff(Plus(r.iterSqN, i), r.endSqN) <= 0

ReplayEnd(r) ==
  \/ ~Survives(r, Width - 1)
  \/ Diff(Plus(r.iterSqN, Width - 1), r.endSqN) = 0

\* A decode-time trap keeps its cause in rd; it writes no register.
ReplayedUOp(r, i) ==
  LET k == RobIdx(Plus(r.iterSqN, i))
  IN  IF Survives(r, i)
      THEN [valid |-> TRUE,
            rd    |-> IF flags[k] = "TRAP" THEN 0 ELSE entries[k].rd,
            tag   |-> entries[k].tag]
      ELSE NoRATWrite

\* Fault: the replay does not advance.
ReplayStuck(r) ==
  /\ misprReplay_r' = IF ReplayEnd(r) THEN NoReplay ELSE r
  /\ mispredFlush' = (\E i \in Port : Survives(r, i))
  /\ comUOp' = [i \in Port |-> ReplayedUOp(r, i)]
  /\ trapUOp' = NoTrapUOp
  /\ stop' = FALSE
  /\ UNCHANGED <<baseIndex, storeSqN_r, loadSqN_r>>

ReplayStep(r) ==
  /\ misprReplay_r' = IF ReplayEnd(r) THEN NoReplay
                      ELSE [r EXCEPT !.iterSqN = Plus(@, Width)]
  /\ mispredFlush' = (\E i \in Port : Survives(r, i))
  /\ comUOp' = [i \in Port |-> ReplayedUOp(r, i)]
  /\ trapUOp' = NoTrapUOp
  /\ stop' = FALSE
  /\ UNCHANGED <<baseIndex, storeSqN_r, loadSqN_r>>

-----------------------------------------------------------------------------
\* Commit.  Port i looks at the entry i places after baseIndex.

Deq(i) == RobIdx(Plus(baseIndex, i))

\* storeSqNs_c, loadSqNs_c: the numbers before the uop of port i.
StoreSqNAt(i) == Plus(storeSqN_r, Cardinality({j \in Port : j < i /\ entries[Deq(j)].isSt}))
LoadSqNAt(i)  == Plus(loadSqN_r, Cardinality({j \in Port : j < i /\ entries[Deq(j)].isLd}))

TimedOut(i, hang) == i = 0 /\ hang

\* A direction update (pred) is sent for one uop per cycle.
MayCommit(i, hang) ==
  /\ i < Diff(lastIndex, baseIndex)
  /\ \/ /\ flags[Deq(i)] # "NX"
        /\ (\E j \in Port : j < i /\ flags[Deq(j)] = "PRED") => flags[Deq(i)] = "NONE"
     \/ TimedOut(i, hang)

IsException(i, hang) == TimedOut(i, hang) \/ flags[Deq(i)] \in Exception
SendsTrap(i, hang)   == TimedOut(i, hang) \/ flags[Deq(i)] \in Exception \cup {"ORDERING"}

\* The ports below n commit: in order, and nothing after a trap.  The store
\* queue (IN_stComLimit) and the load buffer (IN_ldComLimit) may hold back any
\* port, unless it has timed out.
Commits(n, hang) ==
  /\ \A i \in Port : i < n => MayCommit(i, hang)
  /\ \A i \in Port : i + 1 < n => ~SendsTrap(i, hang)
  /\ hang /\ MayCommit(0, hang) => n > 0

\* Fault: an exception commits like any other uop.
CommittedUOpAlways(i, hang) ==
  [valid |-> TRUE, rd |-> entries[Deq(i)].rd, tag |-> entries[Deq(i)].tag]

CommittedUOp(i, hang) ==
  IF IsException(i, hang) THEN [valid |-> TRUE, rd |-> 0, tag |-> TAG_ZERO]
  ELSE [valid |-> TRUE, rd |-> entries[Deq(i)].rd, tag |-> entries[Deq(i)].tag]

TrapOf(i, hang) ==
  [valid |-> TRUE, timeout |-> TimedOut(i, hang), flags |-> flags[Deq(i)],
   sqN |-> Plus(baseIndex, i),
   loadSqN |-> LoadSqNAt(i), storeSqN |-> StoreSqNAt(i + 1)]

CommitStep(n, hang) ==
  LET traps    == n > 0 /\ SendsTrap(n - 1, hang)
      advanced == IF n > 0 /\ IsException(n - 1, hang) THEN n - 1 ELSE n
  IN  /\ baseIndex' = Plus(baseIndex, n)
      /\ storeSqN_r' = StoreSqNAt(advanced)
      /\ loadSqN_r' = LoadSqNAt(advanced)
      /\ comUOp' = [i \in Port |-> IF i < n THEN CommittedUOp(i, hang) ELSE NoRATWrite]
      /\ trapUOp' = IF traps THEN TrapOf(n - 1, hang) ELSE NoTrapUOp
      /\ stop' = traps
      /\ mispredFlush' = FALSE
      /\ UNCHANGED misprReplay_r

-----------------------------------------------------------------------------
\* Enqueue from rename, and completion.

InitialFlags(fu) == IF fu = "RN" THEN "NONE" ELSE IF fu = "TRAP" THEN "TRAP" ELSE "NX"

Enqueued(k, rnUOp, branch) == {i \in Port : /\ rnUOp[i].valid /\ ~branch.taken
                                            /\ RobIdx(rnUOp[i].sqN) = k}

EntryOf(u) == [tag |-> u.tagDst, rd |-> u.rd, isLd |-> IsLd(u.fu), isSt |-> IsSt(u.fu)]

\* Completions that count: not squashed, and not the first half of an atomic.
Completed(k, flagUOps, branch) ==
  {u \in flagUOps : /\ ~Squashed(u.sqN, branch) /\ ~u.doNotCommit
                    /\ RobIdx(u.sqN) = k}

\* A completion is assigned after, and so overrides, the enqueue of the slot.
EnqueueStep(rnUOp, flagUOps, branch) ==
  /\ entries' = [k \in RobIdxs |->
                   IF Enqueued(k, rnUOp, branch) # {}
                   THEN EntryOf(rnUOp[CHOOSE i \in Enqueued(k, rnUOp, branch) : TRUE])
                   ELSE entries[k]]
  /\ flags' = [k \in RobIdxs |->
                 IF Completed(k, flagUOps, branch) # {}
                 THEN (CHOOSE u \in Completed(k, flagUOps, branch) : TRUE).flags
                 ELSE IF Enqueued(k, rnUOp, branch) # {}
                 THEN InitialFlags(rnUOp[CHOOSE i \in Enqueued(k, rnUOp, branch) : TRUE].fu)
                 ELSE flags[k]]
  /\ lastIndex' =
       IF branch.taken THEN Plus(branch.sqN, 1)
       ELSE IF \E i \in Port : rnUOp[i].valid
       THEN Plus(rnUOp[CHOOSE i \in Port : /\ rnUOp[i].valid
                                           /\ \A j \in Port : j > i => ~rnUOp[j].valid].sqN, 1)
       ELSE lastIndex

(***************************************************************************)
(* One clock edge.  A cycle replays, or rests after a trap, or commits.    *)
(***************************************************************************)
ROBReplay(branch, rnUOp, flagUOps) ==
  /\ Replaying(branch).valid
  /\ ReplayStep(Replaying(branch))
  /\ EnqueueStep(rnUOp, flagUOps, branch)

ROBStop(branch, rnUOp, flagUOps) ==
  /\ ~Replaying(branch).valid /\ stop
  /\ CommitStep(0, FALSE)
  /\ EnqueueStep(rnUOp, flagUOps, branch)

ROBCommit(branch, rnUOp, flagUOps, n, hang) ==
  /\ ~Replaying(branch).valid /\ ~stop
  /\ Commits(n, hang)
  /\ CommitStep(n, hang)
  /\ EnqueueStep(rnUOp, flagUOps, branch)

=============================================================================
