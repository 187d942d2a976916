------------------------- MODULE StoreQueueBackend -------------------------
(***************************************************************************)
(* StoreQueueBackend.sv: committed stores are fused into blocks, wait in   *)
(* evicted until the cache has taken them, and are issued to the           *)
(* load/store unit as often as that takes.  Loads read through it.         *)
(*                                                                         *)
(* An entry may be merged with a further store while an earlier version of *)
(* it is on its way to the cache; the nonce tells the versions apart.      *)
(***************************************************************************)
EXTENDS StoreTypes, FiniteSetsExt

CONSTANTS
  NumEvicted,   \* NUM_EVICTED
  NumNonces,    \* number of values of StNonce_t
  NoFused, NoStOp, NoAck   \* invalid fusedUOp_r, ST_UOp, ST_Ack

EvIdx  == 0 .. NumEvicted - 1
Nonces == 0 .. NumNonces - 1

ASSUME SQBAssumption ==
  /\ NumEvicted \in Nat \ {0}
  /\ NumNonces \in Nat \ {0, 1}

VARIABLES
  fusedUOp_r,   \* the block waiting to enter evicted
  evicted,      \* [EvIdx -> EQEntry]
  uopSt,        \* OUT_uopSt: the operation offered to the load/store unit
  stAck_r       \* its answer, one cycle old

sqbVars == <<fusedUOp_r, evicted, uopSt, stAck_r>>

FusedUOp == [block : Blocks, word : Words, bytes : Image, isMgmt : BOOLEAN]
EQEntry  == [valid : BOOLEAN, issued : BOOLEAN, nonce : Nonces,
             block : Blocks, word : Words, bytes : Image, isMgmt : BOOLEAN]
ST_UOp   == [id : EvIdx, nonce : Nonces,
             block : Blocks, word : Words, bytes : Image, isMgmt : BOOLEAN]
ST_Ack   == [idx : EvIdx, nonce : Nonces, fail : BOOLEAN]

\* What is not valid is told apart from what is.
ASSUME InvalidAssumption ==
  NoFused \notin FusedUOp /\ NoStOp \notin ST_UOp /\ NoAck \notin ST_Ack

\* Faults: a counter that does not wrap; a version that is not new.
NonceUnbounded(n) == n + 1
NonceKept(n) == n

NextNonce(n) == (n + 1) % NumNonces

-----------------------------------------------------------------------------
(***************************************************************************)
(* Taking stores from the store queue.  uops is OUT_uop of the store queue *)
(* (NUM_IN = 2), the older one first.                                      *)
(***************************************************************************)
\* Stores to devices and management operations keep their word address and are
\* not shifted into place.
Uncached(u) == IsMMIO(u) \/ IsMgmt(u)

\* Fault: device stores are shifted into place as well.
FuseBaseShifted(u) ==
  [block  |-> u.block,
   word   |-> IF Uncached(u) THEN u.word ELSE 0,
   bytes  |-> ImageAt(u, u.word),
   isMgmt |-> IsMgmt(u)]

FuseBase(u) ==
  [block  |-> u.block,
   word   |-> IF Uncached(u) THEN u.word ELSE 0,
   bytes  |-> ImageAt(u, IF Uncached(u) THEN 0 ELSE u.word),
   isMgmt |-> IsMgmt(u)]

\* The second store goes to the block of the first.  Management operations are
\* not told apart here.
FusesWith(u, base) ==
  base # NoStore /\ u # NoStore /\ ~Uncached(base) /\ u.block = base.block /\ ~IsMMIO(u)

Fused(uops) ==
  LET base == FuseBase(uops[1])
  IN  IF FusesWith(uops[2], uops[1])
      THEN [base EXCEPT !.bytes = Over(ImageAt(uops[2], uops[2].word), @)]
      ELSE base

-----------------------------------------------------------------------------
(***************************************************************************)
(* Where the waiting block goes: on top of the entry of the same block, if *)
(* there is one, otherwise into the first free entry.  Two device stores   *)
(* are never in evicted together, and nothing follows a management         *)
(* operation.                                                              *)
(***************************************************************************)
Matches == {i \in EvIdx : evicted[i].valid /\ evicted[i].block = fusedUOp_r.block}
Free    == {i \in EvIdx : ~evicted[i].valid}

MmioOpInEv == \E i \in EvIdx : evicted[i].valid /\ IsMMIO(evicted[i])
MgmtOpInEv == \E i \in EvIdx : evicted[i].valid /\ evicted[i].isMgmt

\* Fault: a second device store may follow the first.
InsertsDevices == fusedUOp_r # NoFused /\ ~MgmtOpInEv /\ Matches \cup Free # {}

Inserts ==
  /\ fusedUOp_r # NoFused
  /\ ~(MmioOpInEv /\ IsMMIO(fusedUOp_r))
  /\ ~MgmtOpInEv
  /\ Matches \cup Free # {}

\* Fault: the first entry that could take the block.
EvInsertFirst == Min(Matches \cup Free)

EvInsert == IF Matches # {} THEN Max(Matches) ELSE Min(Free)

\* Whether and how many of uops are taken in this cycle.
Accepts(uops) == uops[1] # NoStore /\ (fusedUOp_r = NoFused \/ Inserts)
Taken(uops) ==
  IF ~Accepts(uops) THEN 0 ELSE IF FusesWith(uops[2], uops[1]) THEN 2 ELSE 1

\* Fault: the bytes that are there already are kept.
MergedBelow(i) == Over(evicted[i].bytes, fusedUOp_r.bytes)

\* Entry i after the waiting block was put into it.  A management operation
\* leaves the mask alone and replaces the data.
MergedBytes(i) ==
  IF fusedUOp_r.isMgmt
  THEN [l \in Lanes |-> IF evicted[i].bytes[l] = NoByte THEN NoByte ELSE OpByte]
  ELSE Over(fusedUOp_r.bytes, evicted[i].bytes)

Unissued == {i \in EvIdx : evicted[i].valid /\ ~evicted[i].issued}
ReIssue  == Min(Unissued)

Enqueued(i) ==
  [valid  |-> TRUE,
   issued |-> Unissued = {},       \* goes out at once if nothing else does
   nonce  |-> NextNonce(evicted[i].nonce),
   block  |-> fusedUOp_r.block,
   word   |-> fusedUOp_r.word,
   bytes  |-> MergedBytes(i),
   isMgmt |-> fusedUOp_r.isMgmt]

-----------------------------------------------------------------------------
(***************************************************************************)
(* One clock edge of an entry: the nonblocking assignments in the order of *)
(* the code, the last one wins.                                            *)
(***************************************************************************)
\* The load/store unit did not take the operation it was offered.
\* Faults: an operation counts as refused whenever it is offered; never.
RefusedAlways(i, stStall) == uopSt # NoStOp /\ uopSt.id = i
RefusedNever(i, stStall) == FALSE

Refused(i, stStall) == stStall /\ uopSt # NoStOp /\ uopSt.id = i

Answered(i) == stAck_r # NoAck /\ stAck_r.idx = i /\ stAck_r.nonce = evicted[i].nonce

\* A free entry: its address is not read again, the nonce is.
Released(e) == [e EXCEPT !.valid = FALSE, !.issued = FALSE, !.bytes = NoBytes]

AfterAnswer(i, e) ==
  IF ~Answered(i) THEN e
  ELSE IF stAck_r.fail THEN [e EXCEPT !.issued = FALSE]
  ELSE Released(e)

NextEntry(i, stStall) ==
  IF Inserts /\ i = EvInsert THEN Enqueued(i)
  ELSE LET e == IF Refused(i, stStall) THEN [evicted[i] EXCEPT !.issued = FALSE]
                                       ELSE evicted[i]
           a == AfterAnswer(i, e)
       IN  IF Unissued # {} /\ i = ReIssue THEN [a EXCEPT !.issued = TRUE] ELSE a

StOp(i, e) == [id |-> i, nonce |-> e.nonce, block |-> e.block, word |-> e.word,
               bytes |-> e.bytes, isMgmt |-> e.isMgmt]

NextUopSt ==
  IF Unissued # {} THEN StOp(ReIssue, evicted[ReIssue])
  ELSE IF Inserts THEN StOp(EvInsert, Enqueued(EvInsert))
  ELSE NoStOp

\* One clock edge; ack is OUT_stAck of the load/store unit.
SQBClock(uops, stStall, ack) ==
  /\ fusedUOp_r' = IF Accepts(uops) THEN Fused(uops)
                   ELSE IF Inserts THEN NoFused ELSE fusedUOp_r
  /\ evicted' = [i \in EvIdx |-> NextEntry(i, stStall)]
  /\ uopSt' = NextUopSt
  /\ stAck_r' = ack

\* Fault: entries that have been issued do not count.
BusyUnissued(uops) ==
  Unissued # {} \/ fusedUOp_r # NoFused \/ \E i \in 1 .. 2 : uops[i] # NoStore

\* OUT_busy
SQBBusy(uops) ==
  \/ \E i \in EvIdx : evicted[i].valid
  \/ fusedUOp_r # NoFused
  \/ \E i \in 1 .. 2 : uops[i] # NoStore

-----------------------------------------------------------------------------
(***************************************************************************)
(* What a load gets to see (OUT_fwd, laid over the data from the cache by  *)
(* the load/store unit): the entries in ascending order, then the waiting  *)
(* block.  For device stores, which are not forwarded, it is the value the *)
(* device will have in the end.                                            *)
(***************************************************************************)
\* The bytes of an entry where they belong in its block.
Placed(e) ==
  IF ~IsMMIO(e) THEN e.bytes
  ELSE [l \in Lanes |-> IF l[1] = e.word THEN e.bytes[<<0, l[2]>>] ELSE NoByte]

Forward(e, block, data) == IF e.block = block THEN Over(Placed(e), data) ELSE data

ForwardEvicted(block, data) ==
  LET upTo[n \in 0 .. NumEvicted] ==
        IF n = 0 THEN data
        ELSE IF evicted[n - 1].valid THEN Forward(evicted[n - 1], block, upTo[n - 1])
        ELSE upTo[n - 1]
  IN  upTo[NumEvicted]

LookupThrough(cache) ==
  [b \in Blocks |->
     LET d == ForwardEvicted(b, cache[b])
     IN  IF fusedUOp_r = NoFused THEN d ELSE Forward(fusedUOp_r, b, d)]

-----------------------------------------------------------------------------
SQBTypeOK ==
  /\ fusedUOp_r \in FusedUOp \cup {NoFused}
  /\ evicted \in [EvIdx -> EQEntry]
  /\ uopSt \in ST_UOp \cup {NoStOp}
  /\ stAck_r \in ST_Ack \cup {NoAck}

SQBInit ==
  /\ fusedUOp_r = NoFused
  /\ evicted \in [EvIdx -> {e \in EQEntry : ~e.valid /\ e.nonce = 0 /\ e.bytes = NoBytes}]
  /\ uopSt = NoStOp
  /\ stAck_r = NoAck

=============================================================================
