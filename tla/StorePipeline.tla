--------------------------- MODULE StorePipeline ---------------------------
(***************************************************************************)
(* The way of a store through LoadStoreUnit.sv: a delay line of two stages *)
(* while the cache table is read, then a write to the cache if the line is *)
(* there, or a negative answer.  Misses, transfers and evictions only      *)
(* decide whether a store hits; cache stands for the data wherever it is,  *)
(* extMem for what main memory holds after management operations.          *)
(***************************************************************************)
EXTENDS StoreQueueBackend

VARIABLES
  stOps,    \* <<stOps[0], stOps[1]>> of the code
  cache,    \* what a load reads; for a device, what was written to it
  extMem    \* main memory, as far as management operations wrote it back

pipeVars == <<stOps, cache, extMem>>

\* Fault: a device store is answered like one to the cache.
StAckByHit(hit) ==
  IF stOps[2] = NoStOp THEN NoAck
  ELSE [idx  |-> stOps[2].id, nonce |-> stOps[2].nonce, fail |-> ~hit]

\* OUT_stAck.  hit: the cache took the data, or the miss logic the operation.
StAck(hit) ==
  IF stOps[2] = NoStOp THEN NoAck
  ELSE [idx  |-> stOps[2].id, nonce |-> stOps[2].nonce,
        fail |-> ~hit /\ ~IsMMIO(stOps[2])]

\* The cache write of the operation that has passed the delay line.
CacheWrite(mem, hit) ==
  IF stOps[2] # NoStOp /\ ~IsMMIO(stOps[2]) /\ ~stOps[2].isMgmt /\ hit
  THEN [mem EXCEPT ![stOps[2].block] = Over(stOps[2].bytes, @)]
  ELSE mem

\* The bypass unit writes an external device with the operation it is offered.
ExternalWrite(stStall) == uopSt # NoStOp /\ uopSt.block \in ExtMMIO /\ ~stStall

\* Device stores run when they are offered.  Internal devices do not look at
\* OUT_stStall; the bypass unit does.
DeviceWrite(mem, stStall) ==
  IF uopSt # NoStOp /\ IsMMIO(uopSt) /\ (uopSt.block \in ExtMMIO => ~stStall)
  THEN [mem EXCEPT ![uopSt.block] = Over(Placed(uopSt), @)]
  ELSE mem

\* A management operation writes its line back to main memory.
WriteBack(hit) ==
  IF stOps[2] # NoStOp /\ stOps[2].isMgmt /\ ~IsMMIO(stOps[2]) /\ hit
  THEN [b \in Blocks |-> IF LineOf[b] = LineOf[stOps[2].block] THEN cache[b] ELSE extMem[b]]
  ELSE extMem

PipeClock(stStall, hit) ==
  /\ stOps' = <<IF stStall THEN NoStOp ELSE uopSt, stOps[1]>>
  /\ cache' = DeviceWrite(CacheWrite(cache, hit), stStall)
  /\ extMem' = WriteBack(hit)

PipeTypeOK ==
  /\ stOps \in [1 .. 2 -> ST_UOp \cup {NoStOp}]
  /\ cache \in Memory
  /\ extMem \in Memory

PipeInit ==
  /\ stOps = <<NoStOp, NoStOp>>
  /\ cache \in [Blocks -> [Lanes -> Vals]]
  /\ extMem = cache

=============================================================================
