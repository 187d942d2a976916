----------------------------- MODULE StoreDrain -----------------------------
(***************************************************************************)
(* Committed stores on their way to memory: the output ports of the store  *)
(* queue, StoreQueueBackend and the store pipeline of the load/store unit, *)
(* connected as in Core.sv.  One step is one clock cycle.                  *)
(*                                                                         *)
(* The store queue offers committed stores in program order, and may have  *)
(* any of Stores next.  The load/store unit may refuse an operation and    *)
(* may find its line absent, in any cycle.                                 *)
(***************************************************************************)
EXTENDS StorePipeline, SequencesExt

CONSTANTS
  NumPorts,     \* SQ_DEQ_PORTS
  Stores,       \* the stores a program may commit
  Fences        \* {TRUE} if it may also execute fences, otherwise {}

ASSUME StoreDrainAssumption ==
  /\ NumPorts \in {1, 2}
  /\ Stores \subseteq SQ_UOp
  /\ Fences \subseteq {TRUE}

VARIABLES
  sqOut,        \* OUT_uop of the store queue, the oldest store first
  memoryWait,   \* of TrapHandler.sv: a fence waits for memory to become idle
  flushed,      \* ghost: blocks that were not stored to since a management
                \* operation on their line, in program order
  owed          \* ghost: stores to external devices that were taken from the store
                \* queue and that the device was not yet written with, the oldest first

vars == <<sqbVars, pipeVars, sqOut, memoryWait, flushed, owed>>

Uops == [i \in 1 .. 2 |-> IF i <= Len(sqOut) THEN sqOut[i] ELSE NoStore]

Busy == SQBBusy(Uops)

\* flushed after the stores new: the last of them that concerns a block decides.
FlushedAfter(new) ==
  {b \in Blocks :
     LET last == Max({0} \cup {j \in 1 .. Len(new) :
                               IF IsMgmt(new[j]) THEN LineOf[new[j].block] = LineOf[b]
                                                 ELSE new[j].block = b})
     IN  IF last = 0 THEN b \in flushed ELSE IsMgmt(new[last])}

\* What is owed after a write to an external device, and with what is taken.
OwedAfter(stStall) ==
  (IF ExternalWrite(stStall) THEN SubSeq(owed, 2, Len(owed)) ELSE owed)
    \o IF Accepts(Uops) /\ Uops[1].block \in ExtMMIO THEN <<Uops[1]>> ELSE << >>

\* The store queue refills the ports that were emptied.
Refill(new) == sqOut' = SubSeq(sqOut, Taken(Uops) + 1, Len(sqOut)) \o new

Room == NumPorts - (Len(sqOut) - Taken(Uops))

\* TrapHandler.sv, memoryWait.  While it is set nothing new is fetched; the queue
\* behind the ports has been emptied when it starts here.
FenceClock ==
  memoryWait' \in IF memoryWait THEN {Busy} ELSE {FALSE} \cup Fences

Cycle(new, stStall, hit) ==
  /\ memoryWait => new = << >>
  /\ Refill(new)
  /\ SQBClock(Uops, stStall, StAck(hit))
  /\ PipeClock(stStall, hit)
  /\ FenceClock
  /\ flushed' = FlushedAfter(new)
  /\ owed' = OwedAfter(stStall)

\* What may be committed in one cycle.
Arrivals == UNION {[1 .. n -> Stores] : n \in 0 .. 2}

Next ==
  \E new \in Arrivals, stStall, hit \in BOOLEAN :
    /\ Len(new) <= Room
    /\ Cycle(new, stStall, hit)

Init ==
  /\ SQBInit
  /\ PipeInit
  /\ sqOut = << >>
  /\ memoryWait = FALSE
  /\ flushed = {}
  /\ owed = << >>

Spec == Init /\ [][Next]_vars

(***************************************************************************)
(* The clock ticks, and the load/store unit does not refuse the operations *)
(* of an entry for ever, nor does it miss for ever: the cache table port   *)
(* is only taken for single cycles, and a miss starts a transfer that the  *)
(* memory completes.                                                       *)
(***************************************************************************)
Accepted(i) == uopSt # NoStOp /\ uopSt.id = i
Arrived(i)  == stOps[2] # NoStOp /\ stOps[2].id = i

Fairness ==
  /\ WF_vars(Next)
  /\ \A i \in EvIdx :
       /\ SF_vars(Accepted(i) /\ \E new \in Arrivals, hit \in BOOLEAN :
                    Len(new) <= Room /\ Cycle(new, FALSE, hit))
       /\ SF_vars(Arrived(i) /\ \E new \in Arrivals, stStall \in BOOLEAN :
                    Len(new) <= Room /\ Cycle(new, stStall, TRUE))

FairSpec == Spec /\ Fairness

-----------------------------------------------------------------------------
\* Types: every register of the drain path holds a value of its type.
TypeOK ==
  /\ SQBTypeOK
  /\ PipeTypeOK
  /\ sqOut \in Seq(SQ_UOp) /\ Len(sqOut) <= NumPorts
  /\ memoryWait \in BOOLEAN
  /\ flushed \subseteq Blocks
  /\ owed \in Seq(SQ_UOp)

(***************************************************************************)
(* Docs/Overview.md: committed stores cannot be rolled back, they are      *)
(* fused and executed later.  A load that reads the cache through the      *)
(* backend sees every committed store from the moment the backend takes    *)
(* it, in program order, and never an older value again, whatever the      *)
(* cache refuses and however entries are merged and issued anew.           *)
(***************************************************************************)
OM == INSTANCE OrderedMemory WITH queue <- sqOut, mem <- LookupThrough(cache)

ImplementsOrderedMemory == OM!OMSpec

\* The lookup takes bytes from all entries of a block in index order, which is
\* only right because there is never more than one.
OneEntryPerBlock ==
  \A i, j \in EvIdx :
    evicted[i].valid /\ evicted[j].valid /\ evicted[i].block = evicted[j].block => i = j

InFlight == {op \in {uopSt, stOps[1], stOps[2]} : op # NoStOp}

\* An operation in flight that carries the nonce of its entry is the current
\* version of it: its answer may release the entry.  Nonces wrap.
NonceNamesVersion ==
  \A op \in InFlight :
    op.nonce = evicted[op.id].nonce =>
      /\ evicted[op.id].valid
      /\ op = StOp(op.id, evicted[op.id])

\* Once the backend reports that it is idle no write is under way any more: a
\* fence that waits for it may let the instruction stream continue.
IdleMeansDone == ~Busy => InFlight = {}

\* A device is only written on behalf of the one device store in evicted, so device
\* stores happen in program order although entries are issued in any order.
DeviceStoresInOrder ==
  uopSt # NoStOp /\ IsMMIO(uopSt) =>
    /\ {i \in EvIdx : evicted[i].valid /\ IsMMIO(evicted[i])} = {uopSt.id}
    /\ uopSt = StOp(uopSt.id, evicted[uopSt.id])

(***************************************************************************)
(* A register outside the SoC may act on every write, so it gets each      *)
(* store exactly once, whatever is refused, answered and issued again: all *)
(* it is ever offered is the oldest store it was not yet written with, and *)
(* when the backend is idle it has got all of them.                        *)
(***************************************************************************)
Writes(op, u) ==
  op.block = u.block /\ op.isMgmt = IsMgmt(u) /\ Placed(op) = ImageAt(u, u.word)

ExternalWrittenOnce ==
  /\ uopSt # NoStOp /\ uopSt.block \in ExtMMIO => owed # << >> /\ Writes(uopSt, Head(owed))
  /\ ~Busy => owed = << >>

\* test_programs/cbo.s:12: a value survives the cbo.clean that follows it; no load
\* ever reads the operand of a management operation in its place.
ValuePersists == \A b \in Blocks, l \in Lanes : LookupThrough(cache)[b][l] # OpByte

\* test_programs/cbo.s:50, cbo.clean and cbo.flush: when the memory is idle again, main memory holds what
\* was stored before them.
FlushReachesMemory == ~Busy => \A b \in flushed \ MMIO : extMem[b] = cache[b]

\* Every fence ends: all committed stores reach the cache.
FenceEnds == memoryWait ~> ~memoryWait

=============================================================================
