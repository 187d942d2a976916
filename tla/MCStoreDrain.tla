---------------------------- MODULE MCStoreDrain ----------------------------
(***************************************************************************)
(* Instances of StoreDrain for TLC.                                        *)
(***************************************************************************)
EXTENDS StoreDrain

St(b, w, m, v) == [block |-> b, word |-> w, wmask |-> m, val |-> v]

\* Two blocks that compete for the entries and the issue port.
SlotStores == {St(0, 0, {0}, 1), St(1, 0, {0}, 1)}

\* Two stores to a word that overlap in part: fusing and masks.
MaskStores == {St(0, 0, {0}, 0), St(0, 0, {0, 1}, 1)}

\* A register of a device and memory.
DeviceStores == {St(2, 1, {0}, 0), St(2, 1, {0}, 1), St(0, 1, {0}, 1)}

\* A store and a management operation on its line.
CboStores == {St(0, 0, {0}, 1), St(0, 0, {}, 0)}

OneLine == [b \in Blocks |-> 0]

\* Memory is the same in all behaviours where no store can reach it.
MCInit ==
  /\ Init
  /\ \A b \in Blocks, l \in Lanes :
       (\A u \in Stores : ImageAt(u, u.word)[l] = NoByte \/ u.block # b) => cache[b][l] = 1

MCSpec == MCInit /\ [][Next]_vars

(***************************************************************************)
(* MCView: the address of a free entry is never read again, and a nonce    *)
(* is only compared with those of the same entry and incremented.  (TypeOK *)
(* is there to make TLC evaluate every variable before it stores a state.) *)
(***************************************************************************)
EntryView(i) ==
  IF evicted[i].valid THEN [evicted[i] EXCEPT !.nonce = 0] ELSE << >>

Age(op, i) == (evicted[i].nonce - op.nonce) % NumNonces

OpView(op)   == IF op = NoStOp THEN op ELSE [op EXCEPT !.nonce = Age(op, op.id)]
AckView(ack) == IF ack = NoAck THEN ack ELSE [ack EXCEPT !.nonce = Age(ack, ack.idx)]

MCView ==
  <<TypeOK, fusedUOp_r, [i \in EvIdx |-> EntryView(i)], OpView(uopSt), AckView(stAck_r),
    [k \in 1 .. 2 |-> OpView(stOps[k])], cache, extMem, sqOut, memoryWait, flushed, owed>>
=============================================================================
