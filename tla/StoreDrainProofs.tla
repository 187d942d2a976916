-------------------------- MODULE StoreDrainProofs --------------------------
(***************************************************************************)
(* Proofs about StoreDrain for every number of blocks, entries, values and *)
(* nonces: its invariants, and that it implements OrderedMemory.           *)
(***************************************************************************)
EXTENDS StoreDrain, NatProofs

-----------------------------------------------------------------------------
(* Indices that priority encoders choose. *)

\* The entry with the highest index, of some.
LEMMA MaxEntry ==
  ASSUME NEW S, S \subseteq EvIdx, S # {}
  PROVE  Max(S) \in S
<1>1. NumEvicted - 1 \in Nat /\ S \subseteq 0 .. (NumEvicted - 1)
  BY SQBAssumption, SMT DEF EvIdx
<1>2. PICK x \in S : \A y \in S : x >= y  BY <1>1, GreatestNat
<1>3. QED  BY <1>2 DEF Max

\* The entry with the lowest index, of some.
LEMMA MinEntry ==
  ASSUME NEW S, S \subseteq EvIdx, S # {}
  PROVE  Min(S) \in S
<1>1. S \subseteq Nat  BY SQBAssumption, SMT DEF EvIdx
<1>2. PICK x \in S : \A y \in S : x <= y  BY <1>1, LeastNat
<1>3. QED  BY <1>2 DEF Min

\* The waiting block goes to an entry of the same block or to a free one.
LEMMA EvInsertChoice ==
  ASSUME Inserts
  PROVE  /\ EvInsert \in EvIdx
         /\ Matches # {} => EvInsert \in Matches
         /\ Matches = {} => EvInsert \in Free
<1>1. Matches \subseteq EvIdx /\ Free \subseteq EvIdx /\ Matches \cup Free # {}
  BY DEF Inserts, Matches, Free
<1>2. CASE Matches # {}
  BY <1>1, <1>2, MaxEntry DEF EvInsert
<1>3. CASE Matches = {}
  BY <1>1, <1>3, MinEntry DEF EvInsert
<1>4. QED  BY <1>2, <1>3

\* An entry is issued again only if it is not issued.
LEMMA ReIssueChoice ==
  ASSUME Unissued # {}
  PROVE  ReIssue \in EvIdx /\ evicted[ReIssue].valid /\ ~evicted[ReIssue].issued
<1>1. Unissued \subseteq EvIdx  BY DEF Unissued
<1>2. ReIssue \in Unissued  BY <1>1, MinEntry DEF ReIssue
<1>3. QED  BY <1>2 DEF Unissued

-----------------------------------------------------------------------------
(* Types. *)

\* A nonce stays within its bits.
LEMMA NextNonceType ==
  ASSUME NEW n \in Nonces
  PROVE  /\ NextNonce(n) \in Nonces
         /\ NextNonce(n) = IF n = NumNonces - 1 THEN 0 ELSE n + 1
  BY SQBAssumption, SMT DEF NextNonce, Nonces

\* Laying bytes over bytes makes an image, and over memory makes memory.
LEMMA OverType ==
  ASSUME NEW new \in Image, NEW old
  PROVE  /\ old \in Image => Over(new, old) \in Image
         /\ old \in [Lanes -> Byte] => Over(new, old) \in [Lanes -> Byte]
<1>1. \A l \in Lanes : new[l] \in Byte \cup {NoByte}  BY DEF Image
<1>2. ASSUME old \in Image  PROVE Over(new, old) \in Image
  <2>1. \A l \in Lanes : old[l] \in Byte \cup {NoByte}  BY <1>2 DEF Image
  <2> QED  BY <1>1, <2>1 DEF Image, Over
<1>3. ASSUME old \in [Lanes -> Byte]  PROVE Over(new, old) \in [Lanes -> Byte]
  BY <1>1, <1>3 DEF Over
<1>4. QED  BY <1>2, <1>3

\* The bytes of one store are an image.
LEMMA ImageAtType ==
  ASSUME NEW u \in SQ_UOp, NEW w
  PROVE  ImageAt(u, w) \in Image
  BY DEF ImageAt, Image, SQ_UOp, Byte

\* The bytes of a device store are an image where they belong, too.
LEMMA PlacedType ==
  ASSUME NEW e, e.bytes \in Image
  PROVE  Placed(e) \in Image
<1>1. \A l \in Lanes : <<0, l[2]>> \in Lanes
  BY StoreTypesAssumption, SMT DEF Lanes, Words
<1>2. \A l \in Lanes : e.bytes[<<0, l[2]>>] \in Byte \cup {NoByte}
  BY <1>1 DEF Image
<1>3. QED  BY <1>2 DEF Placed, Image

\* What the ports of the store queue offer.
LEMMA UopsType ==
  ASSUME TypeOK
  PROVE  /\ \A i \in 1 .. 2 : Uops[i] # NoStore => Uops[i] \in SQ_UOp
         /\ Uops[1] # NoStore => Len(sqOut) >= 1
         /\ Uops[2] # NoStore => Len(sqOut) >= 2
         /\ Taken(Uops) \in Nat /\ Taken(Uops) <= Len(sqOut)
<1>1. sqOut \in Seq(SQ_UOp) /\ Len(sqOut) \in Nat  BY DEF TypeOK
<1>2. ASSUME NEW i \in 1 .. 2, Uops[i] # NoStore
      PROVE  Uops[i] \in SQ_UOp /\ Len(sqOut) >= i
  <2>1. i <= Len(sqOut) /\ Uops[i] = sqOut[i]  BY <1>1, <1>2 DEF Uops
  <2> QED  BY <1>1, <2>1, SMT
<1>3. 1 \in 1 .. 2 /\ 2 \in 1 .. 2  BY SMT
<1>4. /\ Uops[1] # NoStore => Len(sqOut) >= 1
      /\ Uops[2] # NoStore => Len(sqOut) >= 2
  BY <1>2, <1>3
<1>5. Taken(Uops) \in Nat /\ Taken(Uops) <= Len(sqOut)
  BY <1>1, <1>4, SMT DEF Taken, Accepts, FusesWith
<1>6. QED  BY <1>2, <1>4, <1>5

\* Fusing one or two stores makes a block.
LEMMA FusedType ==
  ASSUME TypeOK, Uops[1] # NoStore
  PROVE  Fused(Uops) \in FusedUOp
<1>1. Uops[1] \in SQ_UOp  BY UopsType, SMT
<1>2. FuseBase(Uops[1]) \in FusedUOp
  <2>1. 0 \in Words  BY StoreTypesAssumption, SMT DEF Words
  <2>2. IsMgmt(Uops[1]) \in BOOLEAN  BY DEF IsMgmt
  <2>3. Uops[1].block \in Blocks /\ Uops[1].word \in Words  BY <1>1 DEF SQ_UOp
  <2>4. ImageAt(Uops[1], IF Uncached(Uops[1]) THEN 0 ELSE Uops[1].word) \in Image
    BY <1>1, ImageAtType
  <2> QED  BY <2>1, <2>2, <2>3, <2>4 DEF FuseBase, FusedUOp
<1>3. CASE FusesWith(Uops[2], Uops[1])
  <2>1. Uops[2] \in SQ_UOp  BY <1>3, UopsType, SMT DEF FusesWith
  <2>2. ImageAt(Uops[2], Uops[2].word) \in Image  BY <2>1, ImageAtType
  <2>3. Over(ImageAt(Uops[2], Uops[2].word), FuseBase(Uops[1]).bytes) \in Image
    BY <1>2, <2>2, OverType DEF FusedUOp
  <2> QED  BY <1>2, <1>3, <2>3 DEF Fused, FusedUOp
<1>4. CASE ~FusesWith(Uops[2], Uops[1])
  BY <1>2, <1>4 DEF Fused
<1>5. QED  BY <1>3, <1>4

\* An entry into which the waiting block was put.
LEMMA EnqueuedType ==
  ASSUME TypeOK, Inserts
  PROVE  Enqueued(EvInsert) \in EQEntry
<1>1. fusedUOp_r \in FusedUOp /\ evicted[EvInsert] \in EQEntry
  BY EvInsertChoice DEF TypeOK, SQBTypeOK, Inserts
<1>2. MergedBytes(EvInsert) \in Image
  <2>1. fusedUOp_r.bytes \in Image /\ evicted[EvInsert].bytes \in Image
    BY <1>1 DEF FusedUOp, EQEntry
  <2>2. CASE fusedUOp_r.isMgmt
    BY <2>2 DEF MergedBytes, Image, Byte
  <2>3. CASE ~fusedUOp_r.isMgmt
    BY <2>1, <2>3, OverType DEF MergedBytes
  <2> QED  BY <2>2, <2>3
<1>3. NextNonce(evicted[EvInsert].nonce) \in Nonces
  BY <1>1, NextNonceType DEF EQEntry
<1>4. (Unissued = {}) \in BOOLEAN  OBVIOUS
<1>5. QED  BY <1>1, <1>2, <1>3, <1>4 DEF Enqueued, EQEntry, FusedUOp

\* The operation of an entry.
LEMMA StOpType ==
  ASSUME NEW i \in EvIdx, NEW e \in EQEntry
  PROVE  StOp(i, e) \in ST_UOp
  BY DEF StOp, ST_UOp, EQEntry

\* An entry after a clock edge at which nothing was put into it.
LEMMA NextEntryType ==
  ASSUME TypeOK, NEW i \in EvIdx, NEW stStall \in BOOLEAN
  PROVE  NextEntry(i, stStall) \in EQEntry
<1> DEFINE e == IF Refused(i, stStall) THEN [evicted[i] EXCEPT !.issued = FALSE]
                                       ELSE evicted[i]
           a == AfterAnswer(i, e)
<1>1. CASE Inserts /\ i = EvInsert
  BY <1>1, EnqueuedType DEF NextEntry
<1>2. CASE ~(Inserts /\ i = EvInsert)
  <2>1. evicted[i] \in EQEntry  BY DEF TypeOK, SQBTypeOK
  <2>2. e \in EQEntry  BY <2>1 DEF EQEntry
  <2>3. NoBytes \in Image  BY DEF NoBytes, Image
  <2>4. Released(e) \in EQEntry  BY <2>2, <2>3 DEF Released, EQEntry
  <2>5. a \in EQEntry
    <3> HIDE DEF e
    <3> QED  BY <2>2, <2>4 DEF AfterAnswer, EQEntry
  <2>6. NextEntry(i, stStall)
          = IF Unissued # {} /\ i = ReIssue THEN [a EXCEPT !.issued = TRUE] ELSE a
    BY <1>2 DEF NextEntry
  <2> HIDE DEF a
  <2> QED  BY <2>5, <2>6 DEF EQEntry
<1>3. QED  BY <1>1, <1>2

\* The operation offered next.
LEMMA NextUopStType ==
  ASSUME TypeOK
  PROVE  NextUopSt \in ST_UOp \cup {NoStOp}
<1>1. CASE Unissued # {}
  <2>1. evicted[ReIssue] \in EQEntry  BY <1>1, ReIssueChoice DEF TypeOK, SQBTypeOK
  <2> QED  BY <1>1, <2>1, ReIssueChoice, StOpType DEF NextUopSt
<1>2. CASE Unissued = {} /\ Inserts
  BY <1>2, EvInsertChoice, EnqueuedType, StOpType DEF NextUopSt
<1>3. CASE Unissued = {} /\ ~Inserts
  BY <1>3 DEF NextUopSt
<1>4. QED  BY <1>1, <1>2, <1>3

\* A clock edge of the backend leaves its registers well-typed.
LEMMA SQBClockType ==
  ASSUME TypeOK, NEW stStall \in BOOLEAN, NEW ack \in ST_Ack \cup {NoAck},
         SQBClock(Uops, stStall, ack)
  PROVE  SQBTypeOK'
<1>1. fusedUOp_r' \in FusedUOp \cup {NoFused}
  <2>1. Accepts(Uops) => Fused(Uops) \in FusedUOp  BY FusedType DEF Accepts
  <2>2. fusedUOp_r \in FusedUOp \cup {NoFused}  BY DEF TypeOK, SQBTypeOK
  <2> QED  BY <2>1, <2>2 DEF SQBClock
<1>2. evicted' \in [EvIdx -> EQEntry]
  BY NextEntryType DEF SQBClock
<1>3. uopSt' \in ST_UOp \cup {NoStOp}
  BY NextUopStType DEF SQBClock
<1>4. stAck_r' \in ST_Ack \cup {NoAck}
  BY DEF SQBClock
<1>5. QED  BY <1>1, <1>2, <1>3, <1>4 DEF SQBTypeOK, FusedUOp, EQEntry, ST_UOp, ST_Ack,
             Image, EvIdx, Nonces, Words, Lanes, Byte

\* A clock edge of the store pipeline leaves its registers well-typed.
LEMMA PipeClockType ==
  ASSUME TypeOK, NEW stStall \in BOOLEAN, NEW hit \in BOOLEAN, PipeClock(stStall, hit)
  PROVE  PipeTypeOK' /\ StAck(hit) \in ST_Ack \cup {NoAck}
<1>1. /\ stOps[1] \in ST_UOp \cup {NoStOp}
      /\ stOps[2] \in ST_UOp \cup {NoStOp}
      /\ uopSt \in ST_UOp \cup {NoStOp}
      /\ cache \in Memory /\ extMem \in Memory
  BY SMT DEF TypeOK, PipeTypeOK, SQBTypeOK
<1>2. stOps' \in [1 .. 2 -> ST_UOp \cup {NoStOp}]
  <2>1. stOps' = <<IF stStall THEN NoStOp ELSE uopSt, stOps[1]>>  BY DEF PipeClock
  <2> QED  BY <1>1, <2>1, SMT
<1>3. CacheWrite(cache, hit) \in Memory
  <2>1. CASE stOps[2] # NoStOp
    <3>1. stOps[2].bytes \in Image /\ stOps[2].block \in Blocks  BY <1>1, <2>1 DEF ST_UOp
    <3>2. Over(stOps[2].bytes, cache[stOps[2].block]) \in [Lanes -> Byte]
      BY <1>1, <3>1, OverType DEF Memory
    <3> QED  BY <1>1, <3>2 DEF CacheWrite, Memory
  <2>2. CASE stOps[2] = NoStOp
    BY <1>1, <2>2 DEF CacheWrite
  <2> QED  BY <2>1, <2>2
<1>4. ASSUME NEW m \in Memory  PROVE DeviceWrite(m, stStall) \in Memory
  <2>1. CASE uopSt # NoStOp
    <3>1. uopSt.bytes \in Image /\ uopSt.block \in Blocks  BY <1>1, <2>1 DEF ST_UOp
    <3>2. Over(Placed(uopSt), m[uopSt.block]) \in [Lanes -> Byte]
      BY <1>4, <3>1, PlacedType, OverType DEF Memory
    <3> QED  BY <1>4, <3>2 DEF DeviceWrite, Memory
  <2>2. CASE uopSt = NoStOp
    BY <1>4, <2>2 DEF DeviceWrite
  <2> QED  BY <2>1, <2>2
<1>5. cache' \in Memory  BY <1>3, <1>4 DEF PipeClock
<1>6. extMem' \in Memory
  <2>1. extMem' = WriteBack(hit)  BY DEF PipeClock
  <2> QED  BY <1>1, <2>1 DEF WriteBack, Memory
<1>7. StAck(hit) \in ST_Ack \cup {NoAck}
  BY <1>1 DEF StAck, ST_Ack, ST_UOp, IsMMIO
<1>8. QED  BY <1>2, <1>5, <1>6, <1>7 DEF PipeTypeOK, Memory, ST_UOp, Image, EvIdx, Nonces,
             Words, Lanes, Byte

\* The store queue's ports never hold more than they can.
LEMMA RefillType ==
  ASSUME TypeOK, NEW new \in Arrivals, Len(new) <= Room, Refill(new)
  PROVE  sqOut' \in Seq(SQ_UOp) /\ Len(sqOut') <= NumPorts
<1>1. new \in Seq(SQ_UOp)
  <2>1. Stores \subseteq SQ_UOp  BY StoreDrainAssumption
  <2>2. PICK n \in 0 .. 2 : new \in [1 .. n -> Stores]  BY DEF Arrivals
  <2>3. new \in [1 .. n -> SQ_UOp] /\ n \in Nat  BY <2>1, <2>2, SMT
  <2> QED  BY <2>3, SMT
<1>2. sqOut \in Seq(SQ_UOp) /\ Len(sqOut) \in Nat  BY DEF TypeOK
<1>3. Taken(Uops) \in Nat /\ Taken(Uops) <= Len(sqOut)  BY UopsType
<1> DEFINE rest == SubSeq(sqOut, Taken(Uops) + 1, Len(sqOut))
<1>4. rest \in Seq(SQ_UOp) /\ Len(rest) = Len(sqOut) - Taken(Uops)
  BY <1>2, <1>3, SMT
<1>5. sqOut' = rest \o new  BY DEF Refill
<1> HIDE DEF rest
<1>6. rest \o new \in Seq(SQ_UOp) /\ Len(rest \o new) = Len(rest) + Len(new)
  BY <1>1, <1>4, SMT
<1>7. Len(new) <= NumPorts - Len(rest)  BY <1>4 DEF Room
<1>8. NumPorts \in Nat /\ Len(new) \in Nat /\ Len(rest) \in Nat
  BY <1>1, <1>4, StoreDrainAssumption, SMT
<1>9. QED  BY <1>5, <1>6, <1>7, <1>8, SMT

\* What is owed are stores.
LEMMA OwedType ==
  ASSUME TypeOK, NEW stStall \in BOOLEAN
  PROVE  OwedAfter(stStall) \in Seq(SQ_UOp)
<1> DEFINE rest == IF ExternalWrite(stStall) THEN SubSeq(owed, 2, Len(owed)) ELSE owed
           taken == IF Accepts(Uops) /\ Uops[1].block \in ExtMMIO THEN <<Uops[1]>> ELSE << >>
<1>1. owed \in Seq(SQ_UOp)  BY DEF TypeOK
<1>2. rest \in Seq(SQ_UOp)  BY <1>1, SMT
<1>3. taken \in Seq(SQ_UOp)
  <2>1. 1 \in 1 .. 2  BY SMT
  <2>2. Accepts(Uops) => Uops[1] \in SQ_UOp  BY <2>1, UopsType DEF Accepts
  <2> QED  BY <2>2, SMT
<1>4. OwedAfter(stStall) = rest \o taken  BY DEF OwedAfter
<1> HIDE DEF rest, taken
<1>5. QED  BY <1>2, <1>3, <1>4, SMT

\* The registers are well-typed after reset.
LEMMA InitType == Init => TypeOK
<1> SUFFICES ASSUME Init PROVE TypeOK  OBVIOUS
<1>1. SQBTypeOK  BY DEF Init, SQBInit, SQBTypeOK
<1>2. PipeTypeOK
  <2>1. cache \in Memory /\ extMem \in Memory  BY DEF Init, PipeInit, Memory, Byte
  <2>2. stOps \in [1 .. 2 -> ST_UOp \cup {NoStOp}]  BY SMT DEF Init, PipeInit
  <2> QED  BY <2>1, <2>2 DEF PipeTypeOK
<1>3. sqOut \in Seq(SQ_UOp) /\ Len(sqOut) <= NumPorts
  BY StoreDrainAssumption, SMT DEF Init
<1>4. owed \in Seq(SQ_UOp)  BY SMT DEF Init
<1>5. QED  BY <1>1, <1>2, <1>3, <1>4 DEF Init, TypeOK

\* A clock cycle keeps them so.
LEMMA NextTypeCorrect == TypeOK /\ [Next]_vars => TypeOK'
<1> SUFFICES ASSUME TypeOK, [Next]_vars PROVE TypeOK'  OBVIOUS
<1>1. CASE Next
  <2>1. PICK new \in Arrivals, stStall \in BOOLEAN, hit \in BOOLEAN :
          Len(new) <= Room /\ Cycle(new, stStall, hit)
    BY <1>1 DEF Next
  <2>2. PipeTypeOK' /\ StAck(hit) \in ST_Ack \cup {NoAck}
    BY <2>1, PipeClockType DEF Cycle
  <2>3. SQBTypeOK'  BY <2>1, <2>2, SQBClockType DEF Cycle
  <2>4. sqOut' \in Seq(SQ_UOp) /\ Len(sqOut') <= NumPorts
    BY <2>1, RefillType DEF Cycle
  <2>5. memoryWait' \in BOOLEAN
    <3>1. Busy \in BOOLEAN  BY DEF Busy, SQBBusy
    <3> QED  BY <2>1, <3>1, StoreDrainAssumption DEF Cycle, FenceClock
  <2>6. flushed' \subseteq Blocks  BY <2>1 DEF Cycle, FlushedAfter
  <2>7. owed' \in Seq(SQ_UOp)  BY <2>1, OwedType DEF Cycle
  <2> QED  BY <2>2, <2>3, <2>4, <2>5, <2>6, <2>7 DEF TypeOK, SQ_UOp, Words
<1>2. CASE UNCHANGED vars
  BY <1>2 DEF vars, sqbVars, pipeVars, TypeOK, SQBTypeOK, PipeTypeOK
<1>3. QED  BY <1>1, <1>2

(***************************************************************************)
(* Every register of the drain path holds a value of its type, whatever    *)
(* is fused, merged, refused or answered (StoreQueueBackend.sv,            *)
(* LoadStoreUnit.sv).                                                      *)
(***************************************************************************)
THEOREM StoreTypeCorrect == Spec => []TypeOK
<1>1. Init => TypeOK  BY InitType
<1>2. TypeOK /\ [Next]_vars => TypeOK'  BY NextTypeCorrect
<1>3. QED  BY <1>1, <1>2, PTL DEF Spec

-----------------------------------------------------------------------------
(***************************************************************************)
(* The inductive invariant.  An operation of entry i passes four stages:   *)
(* offered (1), in the delay line (2, 3), answered (4).  How many versions *)
(* it is behind its entry is what its nonce is there for.                  *)
(***************************************************************************)
OpAt(k) == IF k = 1 THEN uopSt ELSE IF k = 2 THEN stOps[1] ELSE stOps[2]

Held(k, i) ==
  IF k = 4 THEN stAck_r # NoAck /\ stAck_r.idx = i
           ELSE OpAt(k) # NoStOp /\ OpAt(k).id = i

NonceAt(k) == IF k = 4 THEN stAck_r.nonce ELSE OpAt(k).nonce

Distance(n, m) == IF m <= n THEN n - m ELSE n - m + NumNonces

Behind(k, i) == Distance(evicted[i].nonce, NonceAt(k))

\* Operations only exist for valid entries.
HeldIsValid == \A k \in 1 .. 4, i \in EvIdx : Held(k, i) => evicted[i].valid

\* The current version of an entry is only under way if the entry is marked as issued.
CurrentIsIssued ==
  \A k \in 1 .. 4, i \in EvIdx :
    Held(k, i) /\ Behind(k, i) = 0 =>
      evicted[i].issued /\ (k # 4 => OpAt(k) = StOp(i, evicted[i]))

\* Merging does not move an entry to another block.
SameBlock ==
  \A k \in 1 .. 3, i \in EvIdx : Held(k, i) => OpAt(k).block = evicted[i].block

\* Operations of an entry are under way in the order of their versions.
OlderIsAhead ==
  \A j \in 1 .. 4, k \in 1 .. 4, i \in EvIdx :
    j < k /\ Held(j, i) /\ Held(k, i) => Behind(j, i) < Behind(k, i)

\* An operation is at most one version older for each stage it is in.
BehindBound == \A k \in 1 .. 4, i \in EvIdx : Held(k, i) => Behind(k, i) <= k

\* Nothing is merged with a device store, and there is only one in evicted.
DeviceIsCurrent ==
  \A k \in 1 .. 4, i \in EvIdx : Held(k, i) /\ IsMMIO(evicted[i]) => Behind(k, i) = 0

OneDeviceStore ==
  \A i, j \in EvIdx :
    /\ evicted[i].valid /\ evicted[j].valid
    /\ IsMMIO(evicted[i]) /\ IsMMIO(evicted[j])
    => i = j

DrainInv ==
  /\ TypeOK
  /\ HeldIsValid
  /\ CurrentIsIssued
  /\ SameBlock
  /\ OlderIsAhead
  /\ BehindBound
  /\ DeviceIsCurrent
  /\ OneDeviceStore
  /\ OneEntryPerBlock

\* What the stages do on one clock edge.
Tick(stStall, hit) == SQBClock(Uops, stStall, StAck(hit)) /\ PipeClock(stStall, hit)

Merged(i) == Inserts /\ i = EvInsert

\* The distance of two nonces, and what the next version does to it.
LEMMA DistanceStep ==
  ASSUME NEW n \in Nonces, NEW m \in Nonces
  PROVE  /\ Distance(n, m) \in Nat
         /\ Distance(n, m) = 0 <=> n = m
         /\ Distance(n, m) + 1 < NumNonces =>
              Distance(NextNonce(n), m) = Distance(n, m) + 1
<1>1. n \in Int /\ m \in Int /\ 0 <= n /\ 0 <= m /\ n < NumNonces /\ m < NumNonces
      /\ NumNonces \in Nat
  BY SQBAssumption, SMT DEF Nonces
<1>2. NextNonce(n) = IF n = NumNonces - 1 THEN 0 ELSE n + 1
  BY NextNonceType
<1>3. QED  BY <1>1, <1>2, SMT DEF Distance

\* The nonces that are compared are nonces.
LEMMA HeldNonce ==
  ASSUME TypeOK, NEW k \in 1 .. 4, NEW i \in EvIdx, Held(k, i)
  PROVE  NonceAt(k) \in Nonces /\ evicted[i].nonce \in Nonces
<1>1. evicted[i].nonce \in Nonces  BY DEF TypeOK, SQBTypeOK, EQEntry
<1>2. CASE k = 4
  <2>1. stAck_r # NoAck /\ NonceAt(k) = stAck_r.nonce  BY <1>2 DEF Held, NonceAt
  <2>2. stAck_r \in ST_Ack  BY <2>1 DEF TypeOK, SQBTypeOK
  <2> QED  BY <1>1, <2>1, <2>2 DEF ST_Ack
<1>3. CASE k # 4
  <2>1. OpAt(k) \in ST_UOp \cup {NoStOp}
    <3>1. uopSt \in ST_UOp \cup {NoStOp}  BY DEF TypeOK, SQBTypeOK
    <3>2. stOps[1] \in ST_UOp \cup {NoStOp} /\ stOps[2] \in ST_UOp \cup {NoStOp}
      BY SMT DEF TypeOK, PipeTypeOK
    <3> QED  BY <3>1, <3>2 DEF OpAt
  <2>2. OpAt(k) # NoStOp /\ NonceAt(k) = OpAt(k).nonce  BY <1>3 DEF Held, NonceAt
  <2>3. OpAt(k) \in ST_UOp  BY <2>1, <2>2
  <2> QED  BY <1>1, <2>2, <2>3 DEF ST_UOp
<1>4. QED  BY <1>1, <1>2, <1>3

\* Behind is a number.
LEMMA BehindType ==
  ASSUME TypeOK, NEW k \in 1 .. 4, NEW i \in EvIdx, Held(k, i)
  PROVE  Behind(k, i) \in Nat
  BY HeldNonce, DistanceStep DEF Behind

\* An answer to the current version is an operation that is not behind.
LEMMA AnsweredIsCurrent ==
  ASSUME TypeOK, NEW i \in EvIdx, Answered(i)
  PROVE  Held(4, i) /\ Behind(4, i) = 0
<1>1. Held(4, i) /\ NonceAt(4) = evicted[i].nonce
  BY SMT DEF Answered, Held, NonceAt
<1>2. 4 \in 1 .. 4  BY SMT
<1>3. QED  BY <1>1, <1>2, HeldNonce, DistanceStep DEF Behind

\* Operations move on by one stage; a refused one does not.
LEMMA MovesOn ==
  ASSUME NEW stStall \in BOOLEAN, NEW hit \in BOOLEAN, Tick(stStall, hit),
         NEW k \in 2 .. 4, NEW i \in EvIdx, Held(k, i)'
  PROVE  /\ k - 1 \in 1 .. 3
         /\ Held(k - 1, i)
         /\ NonceAt(k)' = NonceAt(k - 1)
         /\ k # 4 => OpAt(k)' = OpAt(k - 1)
         /\ k = 2 => ~stStall
<1>1. /\ stOps' = <<IF stStall THEN NoStOp ELSE uopSt, stOps[1]>>
      /\ stAck_r' = StAck(hit)
  BY DEF Tick, PipeClock, SQBClock
<1>2. stOps'[1] = (IF stStall THEN NoStOp ELSE uopSt) /\ stOps'[2] = stOps[1]
  BY <1>1
<1>3. CASE k = 2
  BY <1>2, <1>3, SMT DEF Held, NonceAt, OpAt
<1>4. CASE k = 3
  BY <1>2, <1>4, SMT DEF Held, NonceAt, OpAt
<1>5. CASE k = 4
  <2>1. stAck_r' # NoAck /\ stAck_r'.idx = i  BY <1>5 DEF Held
  <2>2. stOps[2] # NoStOp  BY <1>1, <2>1 DEF StAck
  <2>3. stAck_r'.idx = stOps[2].id /\ stAck_r'.nonce = stOps[2].nonce
    BY <1>1, <2>2 DEF StAck
  <2> QED  BY <1>5, <2>1, <2>2, <2>3, SMT DEF Held, NonceAt, OpAt
<1>6. QED  BY <1>3, <1>4, <1>5, SMT

\* A new offer is the entry to be issued again, or the one just enqueued.
LEMMA Offer ==
  ASSUME NEW stStall \in BOOLEAN, NEW hit \in BOOLEAN, Tick(stStall, hit),
         NEW i \in EvIdx, Held(1, i)'
  PROVE  \/ /\ Unissued # {} /\ i = ReIssue
            /\ uopSt' = StOp(i, evicted[i])
         \/ /\ Unissued = {} /\ Merged(i)
            /\ uopSt' = StOp(i, Enqueued(i))
<1>1. uopSt' = NextUopSt /\ uopSt' # NoStOp /\ uopSt'.id = i
  BY SMT DEF Tick, SQBClock, Held, OpAt
<1>2. CASE Unissued # {}
  BY <1>1, <1>2 DEF NextUopSt, StOp
<1>3. CASE Unissued = {}
  BY <1>1, <1>3 DEF NextUopSt, StOp, Merged
<1>4. QED  BY <1>2, <1>3

\* The block is put into an entry.
LEMMA MergedEntry ==
  ASSUME NEW stStall \in BOOLEAN, NEW hit \in BOOLEAN, Tick(stStall, hit),
         NEW i \in EvIdx, Merged(i)
  PROVE  /\ evicted'[i] = Enqueued(i)
         /\ evicted'[i].valid
         /\ evicted'[i].nonce = NextNonce(evicted[i].nonce)
         /\ evicted'[i].block = fusedUOp_r.block
         /\ evicted'[i].issued = (Unissued = {})
         /\ evicted[i].valid => evicted[i].block = fusedUOp_r.block
<1>1. evicted'[i] = Enqueued(i)
  BY DEF Tick, SQBClock, NextEntry, Merged
<1>2. evicted[i].valid => evicted[i].block = fusedUOp_r.block
  BY EvInsertChoice DEF Merged, Matches, Free
<1>3. QED  BY <1>1, <1>2 DEF Enqueued

\* What happens to the other entries.
LEMMA OtherEntry ==
  ASSUME TypeOK, NEW stStall \in BOOLEAN, NEW hit \in BOOLEAN, Tick(stStall, hit),
         NEW i \in EvIdx, ~Merged(i)
  PROVE  /\ evicted'[i].nonce = evicted[i].nonce
         /\ evicted'[i].block = evicted[i].block
         /\ evicted'[i].valid => evicted[i].valid
         /\ evicted[i].valid /\ ~Answered(i) => evicted'[i].valid
         /\ ~Answered(i) => StOp(i, evicted'[i]) = StOp(i, evicted[i])
         /\ Unissued # {} /\ i = ReIssue => evicted'[i].issued
         /\ evicted[i].issued /\ ~Answered(i) /\ ~Refused(i, stStall) => evicted'[i].issued
<1> DEFINE e == IF Refused(i, stStall) THEN [evicted[i] EXCEPT !.issued = FALSE]
                                       ELSE evicted[i]
           a == AfterAnswer(i, e)
<1>1. evicted'[i] = IF Unissued # {} /\ i = ReIssue THEN [a EXCEPT !.issued = TRUE] ELSE a
  BY DEF Tick, SQBClock, NextEntry, Merged
<1>2. evicted[i] \in EQEntry  BY DEF TypeOK, SQBTypeOK
<1>3. /\ e \in EQEntry
      /\ e.nonce = evicted[i].nonce /\ e.block = evicted[i].block
      /\ e.valid = evicted[i].valid /\ e.bytes = evicted[i].bytes
      /\ e.word = evicted[i].word /\ e.isMgmt = evicted[i].isMgmt
      /\ evicted[i].issued /\ ~Refused(i, stStall) => e.issued
  BY <1>2 DEF EQEntry
<1> HIDE DEF e
<1>4. Released(e) \in EQEntry
  <2>1. NoBytes \in Image  BY DEF NoBytes, Image
  <2> QED  BY <1>3, <2>1 DEF Released, EQEntry
<1>5. /\ a \in EQEntry
      /\ a.nonce = e.nonce /\ a.block = e.block
      /\ a.valid => e.valid
      /\ ~Answered(i) => a = e
  BY <1>3, <1>4 DEF AfterAnswer, Released, EQEntry
<1> HIDE DEF a
<1>6. /\ evicted'[i].nonce = a.nonce /\ evicted'[i].block = a.block
      /\ evicted'[i].valid = a.valid /\ evicted'[i].bytes = a.bytes
      /\ evicted'[i].word = a.word /\ evicted'[i].isMgmt = a.isMgmt
      /\ Unissued # {} /\ i = ReIssue => evicted'[i].issued
      /\ a.issued => evicted'[i].issued
  BY <1>1, <1>5 DEF EQEntry
<1>7. ~Answered(i) => StOp(i, evicted'[i]) = StOp(i, evicted[i])
  BY <1>3, <1>5, <1>6 DEF StOp
<1>8. QED  BY <1>3, <1>5, <1>6, <1>7

\* How far behind the operations are after the clock edge.
LEMMA BehindMoves ==
  ASSUME NumNonces >= 5, DrainInv,
         NEW stStall \in BOOLEAN, NEW hit \in BOOLEAN, Tick(stStall, hit),
         NEW k \in 2 .. 4, NEW i \in EvIdx, Held(k, i)'
  PROVE  /\ Behind(k - 1, i) \in Nat /\ Behind(k - 1, i) <= k - 1
         /\ Behind(k, i)' = Behind(k - 1, i) + (IF Merged(i) THEN 1 ELSE 0)
<1>1. /\ k - 1 \in 1 .. 4 /\ k - 1 <= 3
      /\ Held(k - 1, i)
      /\ NonceAt(k)' = NonceAt(k - 1)
  BY MovesOn, SMT
<1>2. /\ NonceAt(k - 1) \in Nonces /\ evicted[i].nonce \in Nonces
      /\ Behind(k - 1, i) \in Nat
  BY <1>1, HeldNonce, BehindType DEF DrainInv
<1>3. Behind(k - 1, i) <= k - 1  BY <1>1 DEF DrainInv, BehindBound
<1>4. Behind(k, i)' = Distance(evicted'[i].nonce, NonceAt(k - 1))
  BY <1>1 DEF Behind, Distance
<1>5. CASE Merged(i)
  <2>1. evicted'[i].nonce = NextNonce(evicted[i].nonce)  BY <1>5, MergedEntry
  <2>2. NumNonces \in Nat  BY SQBAssumption
  <2>3. Behind(k - 1, i) + 1 < NumNonces  BY <1>1, <1>2, <1>3, <2>2, SMT
  <2>4. Distance(NextNonce(evicted[i].nonce), NonceAt(k - 1)) = Behind(k - 1, i) + 1
    BY <1>2, <2>3, DistanceStep DEF Behind
  <2> QED  BY <1>2, <1>3, <1>4, <1>5, <2>1, <2>4
<1>6. CASE ~Merged(i)
  <2>1. evicted'[i].nonce = evicted[i].nonce  BY <1>6, OtherEntry DEF DrainInv
  <2>2. Behind(k, i)' = Behind(k - 1, i)  BY <1>4, <2>1 DEF Behind
  <2> QED  BY <1>2, <1>3, <1>6, <2>2, SMT
<1>7. QED  BY <1>5, <1>6

\* How far behind a new offer is.
LEMMA BehindOffer ==
  ASSUME NumNonces >= 5, DrainInv,
         NEW stStall \in BOOLEAN, NEW hit \in BOOLEAN, Tick(stStall, hit),
         NEW i \in EvIdx, Held(1, i)'
  PROVE  \/ /\ Unissued # {} /\ i = ReIssue
            /\ uopSt' = StOp(i, evicted[i])
            /\ Behind(1, i)' = IF Merged(i) THEN 1 ELSE 0
         \/ /\ Unissued = {} /\ Merged(i)
            /\ uopSt' = StOp(i, evicted'[i])
            /\ Behind(1, i)' = 0
<1>1. Behind(1, i)' = Distance(evicted'[i].nonce, uopSt'.nonce)
  BY SMT DEF Behind, Distance, NonceAt, OpAt
<1>2. evicted[i].nonce \in Nonces  BY DEF DrainInv, TypeOK, SQBTypeOK, EQEntry
<1>3. CASE Unissued # {} /\ i = ReIssue /\ uopSt' = StOp(i, evicted[i])
  <2>1. uopSt'.nonce = evicted[i].nonce  BY <1>3 DEF StOp
  <2>2. CASE Merged(i)
    <3>1. evicted'[i].nonce = NextNonce(evicted[i].nonce)  BY <2>2, MergedEntry
    <3>2. Distance(evicted[i].nonce, evicted[i].nonce) = 0  BY <1>2, DistanceStep
    <3>3. 0 + 1 < NumNonces  BY SQBAssumption, SMT
    <3>4. Distance(NextNonce(evicted[i].nonce), evicted[i].nonce) = 0 + 1
      BY <1>2, <3>2, <3>3, DistanceStep
    <3> QED  BY <1>1, <1>3, <2>1, <2>2, <3>1, <3>4, SMT
  <2>3. CASE ~Merged(i)
    <3>1. evicted'[i].nonce = evicted[i].nonce  BY <2>3, OtherEntry DEF DrainInv
    <3> QED  BY <1>1, <1>2, <1>3, <2>1, <2>3, <3>1, DistanceStep
  <2> QED  BY <2>2, <2>3
<1>4. CASE Unissued = {} /\ Merged(i) /\ uopSt' = StOp(i, Enqueued(i))
  <2>1. evicted'[i] = Enqueued(i) /\ evicted'[i].nonce = NextNonce(evicted[i].nonce)
    BY <1>4, MergedEntry
  <2>2. uopSt'.nonce = evicted'[i].nonce  BY <1>4, <2>1 DEF StOp
  <2>3. evicted'[i].nonce \in Nonces  BY <1>2, <2>1, NextNonceType
  <2> QED  BY <1>1, <1>4, <2>1, <2>2, <2>3, DistanceStep
<1>5. QED  BY <1>3, <1>4, Offer

\* While the current version of an entry is answered nothing else of it is under way;
\* an entry that is issued again was not answered.
LEMMA AnsweredAlone ==
  ASSUME DrainInv, NEW i \in EvIdx, Answered(i)
  PROVE  /\ \A k \in 1 .. 3 : ~Held(k, i)
         /\ ~(Unissued # {} /\ i = ReIssue)
<1>1. Held(4, i) /\ Behind(4, i) = 0  BY AnsweredIsCurrent DEF DrainInv
<1>2. ASSUME NEW k \in 1 .. 3, Held(k, i)  PROVE FALSE
  <2>1. k \in 1 .. 4 /\ 4 \in 1 .. 4 /\ k < 4  BY SMT
  <2>2. Behind(k, i) < 0  BY <1>1, <1>2, <2>1 DEF DrainInv, OlderIsAhead
  <2>3. Behind(k, i) \in Nat  BY <1>2, <2>1, BehindType DEF DrainInv
  <2> QED  BY <2>2, <2>3, SMT
<1>3. evicted[i].issued
  <2>1. 4 \in 1 .. 4  BY SMT
  <2> QED  BY <1>1, <2>1 DEF DrainInv, CurrentIsIssued
<1>4. QED  BY <1>2, <1>3, ReIssueChoice

\* An operation under way belongs to a valid entry after the clock edge, too.
LEMMA HeldStaysValid ==
  ASSUME NumNonces >= 5, DrainInv,
         NEW stStall \in BOOLEAN, NEW hit \in BOOLEAN, Tick(stStall, hit)
  PROVE  HeldIsValid'
<1> SUFFICES ASSUME NEW k \in 1 .. 4, NEW i \in EvIdx, Held(k, i)'
             PROVE  evicted'[i].valid
  BY DEF HeldIsValid
<1>1. CASE Merged(i)
  BY <1>1, MergedEntry
<1>2. CASE ~Merged(i)
  <2>1. evicted[i].valid /\ ~Answered(i)
    <3>1. CASE k = 1
      <4>1. Unissued # {} /\ i = ReIssue  BY <1>2, <3>1, BehindOffer
      <4> QED  BY <4>1, ReIssueChoice, AnsweredAlone
    <3>2. CASE k # 1
      <4>1. k \in 2 .. 4  BY <3>2, SMT
      <4>2. k - 1 \in 1 .. 3 /\ Held(k - 1, i)  BY <4>1, MovesOn
      <4>3. k - 1 \in 1 .. 4  BY <4>2, SMT
      <4>4. evicted[i].valid  BY <4>2, <4>3 DEF DrainInv, HeldIsValid
      <4> QED  BY <4>2, <4>4, AnsweredAlone
    <3> QED  BY <3>1, <3>2
  <2> QED  BY <1>2, <2>1, OtherEntry DEF DrainInv
<1>3. QED  BY <1>1, <1>2

\* The current version stays marked as issued, and what is under way stays a copy of it.
LEMMA CurrentStaysIssued ==
  ASSUME NumNonces >= 5, DrainInv,
         NEW stStall \in BOOLEAN, NEW hit \in BOOLEAN, Tick(stStall, hit)
  PROVE  CurrentIsIssued'
<1> SUFFICES ASSUME NEW k \in 1 .. 4, NEW i \in EvIdx, Held(k, i)', Behind(k, i)' = 0
             PROVE  /\ evicted'[i].issued
                    /\ k # 4 => OpAt(k)' = StOp(i, evicted'[i])
  BY DEF CurrentIsIssued, StOp
<1>1. CASE k = 1
  <2>1. OpAt(k)' = uopSt'  BY <1>1 DEF OpAt
  <2>2. CASE Unissued # {} /\ i = ReIssue /\ uopSt' = StOp(i, evicted[i])
             /\ Behind(1, i)' = IF Merged(i) THEN 1 ELSE 0
    <3>1. ~Merged(i)  BY <1>1, <2>2, SMT
    <3>2. ~Answered(i)  BY <2>2, AnsweredAlone
    <3> QED  BY <2>1, <2>2, <3>1, <3>2, OtherEntry DEF DrainInv
  <2>3. CASE Unissued = {} /\ Merged(i) /\ uopSt' = StOp(i, evicted'[i])
    BY <2>1, <2>3, MergedEntry
  <2> QED  BY <1>1, <2>2, <2>3, BehindOffer
<1>2. CASE k # 1
  <2>1. k \in 2 .. 4  BY <1>2, SMT
  <2>2. /\ k - 1 \in 1 .. 3 /\ k - 1 \in 1 .. 4
        /\ Held(k - 1, i)
        /\ k # 4 => OpAt(k)' = OpAt(k - 1)
        /\ k = 2 => ~stStall
    BY <2>1, MovesOn, SMT
  <2>3. ~Merged(i) /\ Behind(k - 1, i) = 0  BY <2>1, BehindMoves, SMT
  <2>4. evicted[i].issued /\ OpAt(k - 1) = StOp(i, evicted[i])
    <3>1. k - 1 # 4  BY <2>2, SMT
    <3> QED  BY <2>2, <2>3, <3>1 DEF DrainInv, CurrentIsIssued
  <2>5. ~Answered(i)  BY <2>2, AnsweredAlone
  <2>6. ~Refused(i, stStall)
    <3> SUFFICES ASSUME Refused(i, stStall) PROVE FALSE  OBVIOUS
    <3>1. stStall /\ Held(1, i)  BY SMT DEF Refused, Held, OpAt
    <3>2. 1 \in 1 .. 4 /\ 1 < k - 1  BY <2>1, <2>2, <3>1, SMT
    <3>3. Behind(1, i) < Behind(k - 1, i)
      BY <2>2, <3>1, <3>2 DEF DrainInv, OlderIsAhead
    <3>4. Behind(1, i) \in Nat  BY <3>1, <3>2, BehindType DEF DrainInv
    <3> QED  BY <2>3, <3>3, <3>4, SMT
  <2> QED  BY <2>2, <2>3, <2>4, <2>5, <2>6, OtherEntry DEF DrainInv
<1>3. QED  BY <1>1, <1>2

\* Operations stay with the block of their entry.
LEMMA BlockStays ==
  ASSUME NumNonces >= 5, DrainInv,
         NEW stStall \in BOOLEAN, NEW hit \in BOOLEAN, Tick(stStall, hit)
  PROVE  SameBlock'
<1> SUFFICES ASSUME NEW k \in 1 .. 3, NEW i \in EvIdx, Held(k, i)'
             PROVE  OpAt(k)'.block = evicted'[i].block
  BY DEF SameBlock
<1>1. evicted[i].valid => evicted'[i].block = evicted[i].block
  BY MergedEntry, OtherEntry DEF DrainInv
<1>2. CASE k = 1
  <2>1. OpAt(k)' = uopSt'  BY <1>2 DEF OpAt
  <2>2. CASE Unissued # {} /\ i = ReIssue /\ uopSt' = StOp(i, evicted[i])
    BY <1>1, <2>1, <2>2, ReIssueChoice DEF StOp
  <2>3. CASE uopSt' = StOp(i, evicted'[i])
    BY <2>1, <2>3 DEF StOp
  <2> QED  BY <1>2, <2>2, <2>3, BehindOffer
<1>3. CASE k # 1
  <2>1. k \in 2 .. 4 /\ k # 4  BY <1>3, SMT
  <2>2. k - 1 \in 1 .. 3 /\ Held(k - 1, i) /\ OpAt(k)' = OpAt(k - 1)
    BY <2>1, MovesOn
  <2>3. k - 1 \in 1 .. 4  BY <2>2, SMT
  <2>4. evicted[i].valid  BY <2>2, <2>3 DEF DrainInv, HeldIsValid
  <2> QED  BY <1>1, <2>2, <2>4 DEF DrainInv, SameBlock
<1>4. QED  BY <1>2, <1>3

\* Versions stay in order, and no more behind than their stage allows.
LEMMA OrderStays ==
  ASSUME NumNonces >= 5, DrainInv,
         NEW stStall \in BOOLEAN, NEW hit \in BOOLEAN, Tick(stStall, hit)
  PROVE  OlderIsAhead' /\ BehindBound'
<1>1. ASSUME NEW k \in 1 .. 4, NEW i \in EvIdx, Held(k, i)'
      PROVE  Behind(k, i)' <= k
  <2>1. CASE k = 1
    BY <1>1, <2>1, BehindOffer, SMT
  <2>2. CASE k # 1
    <3>1. k \in 2 .. 4  BY <2>2, SMT
    <3> QED  BY <1>1, <3>1, BehindMoves, SMT
  <2> QED  BY <2>1, <2>2
<1>2. ASSUME NEW j \in 1 .. 4, NEW k \in 1 .. 4, NEW i \in EvIdx,
             j < k, Held(j, i)', Held(k, i)'
      PROVE  Behind(j, i)' < Behind(k, i)'
  <2>1. k \in 2 .. 4  BY <1>2, SMT
  <2>2. k - 1 \in 1 .. 4 /\ Held(k - 1, i)  BY <1>2, <2>1, MovesOn, SMT
  <2>3. /\ Behind(k - 1, i) \in Nat
        /\ Behind(k, i)' = Behind(k - 1, i) + (IF Merged(i) THEN 1 ELSE 0)
    BY <1>2, <2>1, BehindMoves
  <2>4. CASE j = 1
    <3>1. CASE Unissued # {} /\ i = ReIssue /\ Behind(1, i)' = IF Merged(i) THEN 1 ELSE 0
      <4>1. Behind(k - 1, i) # 0
        BY <2>2, <3>1, ReIssueChoice DEF DrainInv, CurrentIsIssued
      <4> QED  BY <2>3, <2>4, <3>1, <4>1, SMT
    <3>2. CASE Merged(i) /\ Behind(1, i)' = 0
      BY <2>3, <2>4, <3>2, SMT
    <3> QED  BY <1>2, <2>4, <3>1, <3>2, BehindOffer
  <2>5. CASE j # 1
    <3>1. j \in 2 .. 4 /\ j - 1 \in 1 .. 4 /\ j - 1 < k - 1  BY <1>2, <2>5, SMT
    <3>2. Held(j - 1, i)  BY <1>2, <3>1, MovesOn
    <3>3. /\ Behind(j - 1, i) \in Nat
          /\ Behind(j, i)' = Behind(j - 1, i) + (IF Merged(i) THEN 1 ELSE 0)
      BY <1>2, <3>1, BehindMoves
    <3>4. Behind(j - 1, i) < Behind(k - 1, i)
      BY <2>2, <3>1, <3>2 DEF DrainInv, OlderIsAhead
    <3> QED  BY <2>3, <3>3, <3>4, SMT
  <2> QED  BY <2>4, <2>5
<1>3. QED  BY <1>1, <1>2 DEF OlderIsAhead, BehindBound

\* Nothing is merged with a device store, and no second one enters.
LEMMA DevicesStay ==
  ASSUME NumNonces >= 5, DrainInv,
         NEW stStall \in BOOLEAN, NEW hit \in BOOLEAN, Tick(stStall, hit)
  PROVE  DeviceIsCurrent' /\ OneDeviceStore' /\ OneEntryPerBlock'
<1>1. ASSUME NEW i \in EvIdx, Merged(i), IsMMIO(evicted'[i])
      PROVE  /\ ~evicted[i].valid
             /\ \A j \in EvIdx : ~(evicted[j].valid /\ IsMMIO(evicted[j]))
  <2>1. IsMMIO(fusedUOp_r)  BY <1>1, MergedEntry DEF IsMMIO
  <2>2. ~MmioOpInEv  BY <1>1, <2>1 DEF Merged, Inserts
  <2>3. evicted[i].valid => IsMMIO(evicted[i])  BY <1>1, <2>1, MergedEntry DEF IsMMIO
  <2> QED  BY <2>2, <2>3 DEF MmioOpInEv
<1>2. ASSUME NEW i \in EvIdx, ~Merged(i), evicted'[i].valid
      PROVE  evicted[i].valid /\ evicted'[i].block = evicted[i].block
  BY <1>2, OtherEntry DEF DrainInv
<1>3. ASSUME NEW k \in 1 .. 4, NEW i \in EvIdx, Held(k, i)', IsMMIO(evicted'[i])
      PROVE  Behind(k, i)' = 0
  <2>1. CASE k = 1
    <3>1. CASE Unissued # {} /\ i = ReIssue /\ Behind(1, i)' = IF Merged(i) THEN 1 ELSE 0
      <4>1. ~Merged(i)  BY <1>1, <1>3, <3>1, ReIssueChoice
      <4> QED  BY <2>1, <3>1, <4>1
    <3>2. CASE Behind(1, i)' = 0
      BY <2>1, <3>2
    <3> QED  BY <1>3, <2>1, <3>1, <3>2, BehindOffer
  <2>2. CASE k # 1
    <3>1. k \in 2 .. 4  BY <2>2, SMT
    <3>2. k - 1 \in 1 .. 4 /\ Held(k - 1, i)  BY <1>3, <3>1, MovesOn, SMT
    <3>3. evicted[i].valid  BY <3>2 DEF DrainInv, HeldIsValid
    <3>4. ~Merged(i)  BY <1>1, <1>3, <3>3
    <3>5. IsMMIO(evicted[i])  BY <1>3, <3>4, OtherEntry DEF DrainInv, IsMMIO
    <3>6. Behind(k - 1, i) = 0  BY <3>2, <3>5 DEF DrainInv, DeviceIsCurrent
    <3> QED  BY <1>3, <3>1, <3>4, <3>6, BehindMoves, SMT
  <2> QED  BY <2>1, <2>2
<1>4. ASSUME NEW i \in EvIdx, NEW j \in EvIdx, evicted'[i].valid, evicted'[j].valid,
             IsMMIO(evicted'[i]), IsMMIO(evicted'[j])
      PROVE  i = j
  <2>1. CASE Merged(i) /\ Merged(j)
    BY <2>1 DEF Merged
  <2>2. CASE Merged(i) /\ ~Merged(j)
    BY <1>1, <1>2, <1>4, <2>2 DEF IsMMIO
  <2>3. CASE ~Merged(i) /\ Merged(j)
    BY <1>1, <1>2, <1>4, <2>3 DEF IsMMIO
  <2>4. CASE ~Merged(i) /\ ~Merged(j)
    BY <1>2, <1>4, <2>4 DEF DrainInv, OneDeviceStore, IsMMIO
  <2> QED  BY <2>1, <2>2, <2>3, <2>4
<1>5. ASSUME NEW i \in EvIdx, NEW j \in EvIdx, Merged(i), ~Merged(j),
             evicted'[j].valid, evicted'[i].block = evicted'[j].block
      PROVE  i = j
  <2>1. evicted[j].valid /\ evicted[j].block = fusedUOp_r.block
    BY <1>2, <1>5, MergedEntry
  <2>2. Matches # {}  BY <2>1 DEF Matches
  <2>3. evicted[i].valid /\ evicted[i].block = fusedUOp_r.block
    BY <1>5, <2>2, EvInsertChoice DEF Merged, Matches
  <2> QED  BY <2>1, <2>3 DEF DrainInv, OneEntryPerBlock
<1>6. ASSUME NEW i \in EvIdx, NEW j \in EvIdx, evicted'[i].valid, evicted'[j].valid,
             evicted'[i].block = evicted'[j].block
      PROVE  i = j
  <2>1. CASE Merged(i) /\ Merged(j)
    BY <2>1 DEF Merged
  <2>2. CASE Merged(i) /\ ~Merged(j)
    BY <1>5, <1>6, <2>2
  <2>3. CASE ~Merged(i) /\ Merged(j)
    BY <1>5, <1>6, <2>3
  <2>4. CASE ~Merged(i) /\ ~Merged(j)
    BY <1>2, <1>6, <2>4 DEF DrainInv, OneEntryPerBlock
  <2> QED  BY <2>1, <2>2, <2>3, <2>4
<1>7. DeviceIsCurrent'  BY <1>3 DEF DeviceIsCurrent, IsMMIO
<1>8. OneDeviceStore'  BY <1>4 DEF OneDeviceStore, IsMMIO
<1>9. OneEntryPerBlock'  BY <1>6 DEF OneEntryPerBlock
<1>10. QED  BY <1>7, <1>8, <1>9

\* After reset nothing is under way and evicted is empty.
LEMMA InitDrain == Init => DrainInv
<1> SUFFICES ASSUME Init PROVE DrainInv  OBVIOUS
<1>1. TypeOK  BY InitType
<1>2. \A i \in EvIdx : ~evicted[i].valid  BY DEF Init, SQBInit
<1>3. ASSUME NEW k \in 1 .. 4, NEW i \in EvIdx  PROVE ~Held(k, i)
  <2>1. uopSt = NoStOp /\ stAck_r = NoAck  BY DEF Init, SQBInit
  <2>2. stOps[1] = NoStOp /\ stOps[2] = NoStOp  BY DEF Init, PipeInit
  <2> QED  BY <2>1, <2>2 DEF Held, OpAt
<1>4. HeldIsValid /\ CurrentIsIssued /\ OlderIsAhead /\ BehindBound /\ DeviceIsCurrent
  BY <1>3 DEF HeldIsValid, CurrentIsIssued, OlderIsAhead, BehindBound, DeviceIsCurrent
<1>5. SameBlock
  <2>1. \A k \in 1 .. 3 : k \in 1 .. 4  BY SMT
  <2> QED  BY <1>3, <2>1 DEF SameBlock
<1>6. OneDeviceStore /\ OneEntryPerBlock  BY <1>2 DEF OneDeviceStore, OneEntryPerBlock
<1>7. QED  BY <1>1, <1>4, <1>5, <1>6 DEF DrainInv

\* A clock cycle keeps the invariant.
LEMMA NextDrain ==
  ASSUME NumNonces >= 5, DrainInv, [Next]_vars
  PROVE  DrainInv'
<1>1. TypeOK'  BY NextTypeCorrect DEF DrainInv
<1>2. CASE Next
  <2>1. PICK new \in Arrivals, stStall \in BOOLEAN, hit \in BOOLEAN : Cycle(new, stStall, hit)
    BY <1>2 DEF Next
  <2>2. Tick(stStall, hit)  BY <2>1 DEF Cycle, Tick
  <2>3. HeldIsValid'  BY <2>2, HeldStaysValid
  <2>4. CurrentIsIssued'  BY <2>2, CurrentStaysIssued
  <2>5. SameBlock'  BY <2>2, BlockStays
  <2>6. OlderIsAhead' /\ BehindBound'  BY <2>2, OrderStays
  <2>7. DeviceIsCurrent' /\ OneDeviceStore' /\ OneEntryPerBlock'  BY <2>2, DevicesStay
  <2> QED  BY <1>1, <2>3, <2>4, <2>5, <2>6, <2>7 DEF DrainInv
<1>3. CASE UNCHANGED vars
  <2>1. /\ evicted' = evicted /\ uopSt' = uopSt /\ stAck_r' = stAck_r /\ stOps' = stOps
    BY <1>3 DEF vars, sqbVars, pipeVars
  <2>2. HeldIsValid'  BY <2>1 DEF DrainInv, HeldIsValid, Held, OpAt
  <2>3. CurrentIsIssued'
    BY <2>1 DEF DrainInv, CurrentIsIssued, Held, OpAt, Behind, Distance, NonceAt, StOp
  <2>4. SameBlock'  BY <2>1 DEF DrainInv, SameBlock, Held, OpAt
  <2>5. OlderIsAhead' /\ BehindBound'
    BY <2>1 DEF DrainInv, OlderIsAhead, BehindBound, Held, OpAt, Behind, Distance, NonceAt
  <2>6. DeviceIsCurrent'
    BY <2>1 DEF DrainInv, DeviceIsCurrent, Held, OpAt, Behind, Distance, NonceAt, IsMMIO
  <2>7. OneDeviceStore' /\ OneEntryPerBlock'
    BY <2>1 DEF DrainInv, OneDeviceStore, OneEntryPerBlock, IsMMIO
  <2> QED  BY <1>1, <2>2, <2>3, <2>4, <2>5, <2>6, <2>7 DEF DrainInv
<1>4. QED  BY <1>2, <1>3

\* The invariant holds in every reachable state.
LEMMA DrainInvariant ==
  ASSUME NumNonces >= 5
  PROVE  Spec => []DrainInv
<1>1. Init => DrainInv  BY InitDrain
<1>2. DrainInv /\ [Next]_vars => DrainInv'  BY NextDrain
<1>3. QED  BY <1>1, <1>2, PTL DEF Spec

-----------------------------------------------------------------------------
(* What follows from it. *)

\* What is in flight is in one of the stages of its entry.
LEMMA InFlightHeld ==
  ASSUME TypeOK, NEW op \in InFlight
  PROVE  /\ op.id \in EvIdx
         /\ \E k \in 1 .. 3 : Held(k, op.id) /\ op = OpAt(k)
<1>1. op \in {uopSt, stOps[1], stOps[2]} /\ op # NoStOp  BY DEF InFlight
<1>2. op \in ST_UOp
  <2>1. uopSt \in ST_UOp \cup {NoStOp}  BY DEF TypeOK, SQBTypeOK
  <2>2. stOps[1] \in ST_UOp \cup {NoStOp} /\ stOps[2] \in ST_UOp \cup {NoStOp}
    BY SMT DEF TypeOK, PipeTypeOK
  <2> QED  BY <1>1, <2>1, <2>2
<1>3. PICK k \in 1 .. 3 : op = OpAt(k)
  <2>1. OpAt(1) = uopSt /\ OpAt(2) = stOps[1] /\ OpAt(3) = stOps[2]  BY SMT DEF OpAt
  <2>2. 1 \in 1 .. 3 /\ 2 \in 1 .. 3 /\ 3 \in 1 .. 3  BY SMT
  <2> QED  BY <1>1, <2>1, <2>2
<1>4. Held(k, op.id)  BY <1>1, <1>3, SMT DEF Held
<1>5. QED  BY <1>2, <1>3, <1>4 DEF ST_UOp

\* The current operation of an entry carries the data of the entry.
LEMMA NonceStep == DrainInv => NonceNamesVersion
<1> SUFFICES ASSUME DrainInv, NEW op \in InFlight, op.nonce = evicted[op.id].nonce
             PROVE  evicted[op.id].valid /\ op = StOp(op.id, evicted[op.id])
  BY DEF NonceNamesVersion
<1>1. op.id \in EvIdx  BY InFlightHeld DEF DrainInv
<1>2. PICK k \in 1 .. 3 : Held(k, op.id) /\ op = OpAt(k)  BY InFlightHeld DEF DrainInv
<1>3. k \in 1 .. 4 /\ k # 4  BY SMT
<1>4. NonceAt(k) = evicted[op.id].nonce  BY <1>2, <1>3 DEF NonceAt
<1>5. Behind(k, op.id) = 0
  BY <1>1, <1>2, <1>3, <1>4, HeldNonce, DistanceStep DEF Behind, DrainInv
<1>6. QED  BY <1>1, <1>2, <1>3, <1>5 DEF DrainInv, HeldIsValid, CurrentIsIssued

\* An idle backend has nothing in flight.
LEMMA IdleStep == DrainInv => IdleMeansDone
<1> SUFFICES ASSUME DrainInv, NEW op \in InFlight PROVE Busy
  BY DEF IdleMeansDone
<1>1. op.id \in EvIdx  BY InFlightHeld DEF DrainInv
<1>2. PICK k \in 1 .. 3 : Held(k, op.id)  BY InFlightHeld DEF DrainInv
<1>3. k \in 1 .. 4  BY SMT
<1>4. evicted[op.id].valid  BY <1>1, <1>2, <1>3 DEF DrainInv, HeldIsValid
<1>5. QED  BY <1>1, <1>4 DEF Busy, SQBBusy

\* A device store on offer is the one in evicted.
LEMMA DeviceStep == DrainInv => DeviceStoresInOrder
<1> SUFFICES ASSUME DrainInv, uopSt # NoStOp, IsMMIO(uopSt)
             PROVE  /\ {i \in EvIdx : evicted[i].valid /\ IsMMIO(evicted[i])} = {uopSt.id}
                    /\ uopSt = StOp(uopSt.id, evicted[uopSt.id])
  BY DEF DeviceStoresInOrder
<1>1. uopSt.id \in EvIdx  BY DEF DrainInv, TypeOK, SQBTypeOK, ST_UOp
<1>2. 1 \in 1 .. 3 /\ 1 \in 1 .. 4 /\ 1 # 4  BY SMT
<1>3. Held(1, uopSt.id) /\ OpAt(1) = uopSt  BY <1>2 DEF Held, OpAt
<1>4. evicted[uopSt.id].valid  BY <1>1, <1>2, <1>3 DEF DrainInv, HeldIsValid
<1>5. IsMMIO(evicted[uopSt.id])
  BY <1>1, <1>2, <1>3 DEF DrainInv, SameBlock, IsMMIO
<1>6. Behind(1, uopSt.id) = 0  BY <1>1, <1>2, <1>3, <1>5 DEF DrainInv, DeviceIsCurrent
<1>7. uopSt = StOp(uopSt.id, evicted[uopSt.id])
  BY <1>1, <1>2, <1>3, <1>6 DEF DrainInv, CurrentIsIssued
<1>8. QED  BY <1>1, <1>4, <1>5, <1>7 DEF DrainInv, OneDeviceStore

(***************************************************************************)
(* The nonce does its work for five values or more (StNonce_t has eight):  *)
(* an answer with the nonce of its entry answers the version that is in    *)
(* the entry (StoreQueueBackend.sv:222).                                   *)
(***************************************************************************)
THEOREM NonceCorrect ==
  ASSUME NumNonces >= 5
  PROVE  Spec => []NonceNamesVersion
<1>1. Spec => []DrainInv  BY DrainInvariant
<1>2. DrainInv => NonceNamesVersion  BY NonceStep
<1>3. QED  BY <1>1, <1>2, PTL

(***************************************************************************)
(* A fence does not end before all writes have left the store pipeline     *)
(* (StoreQueueBackend.sv:43, TrapHandler.sv:75).                           *)
(***************************************************************************)
THEOREM IdleCorrect ==
  ASSUME NumNonces >= 5
  PROVE  Spec => []IdleMeansDone
<1>1. Spec => []DrainInv  BY DrainInvariant
<1>2. DrainInv => IdleMeansDone  BY IdleStep
<1>3. QED  BY <1>1, <1>2, PTL

(***************************************************************************)
(* No block has two entries, so the order of entries does not matter to a  *)
(* lookup (StoreQueueBackend.sv:170).                                      *)
(***************************************************************************)
THEOREM OneEntryCorrect ==
  ASSUME NumNonces >= 5
  PROVE  Spec => []OneEntryPerBlock
<1>1. Spec => []DrainInv  BY DrainInvariant
<1>2. DrainInv => OneEntryPerBlock  BY DEF DrainInv
<1>3. QED  BY <1>1, <1>2, PTL

(***************************************************************************)
(* Stores to devices happen in program order, however entries are issued   *)
(* (StoreQueueBackend.sv:169).                                             *)
(***************************************************************************)
THEOREM DeviceOrderCorrect ==
  ASSUME NumNonces >= 5
  PROVE  Spec => []DeviceStoresInOrder
<1>1. Spec => []DrainInv  BY DrainInvariant
<1>2. DrainInv => DeviceStoresInOrder  BY DeviceStep
<1>3. QED  BY <1>1, <1>2, PTL

-----------------------------------------------------------------------------
(***************************************************************************)
(* Loads see committed stores in order: StoreDrain implements              *)
(* OrderedMemory.  A lookup reads the waiting block, laid over the one     *)
(* entry of the block, laid over the cache.                                *)
(***************************************************************************)
EntryOf(b) == CHOOSE i \in EvIdx : evicted[i].valid /\ evicted[i].block = b
IsStored(b) == \E i \in EvIdx : evicted[i].valid /\ evicted[i].block = b

EvictedAt(b) == IF IsStored(b) THEN Placed(evicted[EntryOf(b)]) ELSE NoBytes
WaitingAt(b) == IF fusedUOp_r # NoFused /\ fusedUOp_r.block = b THEN Placed(fusedUOp_r) ELSE NoBytes

ReadAt(b) == Over(WaitingAt(b), Over(EvictedAt(b), cache[b]))

LookupReads == \A b \in Blocks : LookupThrough(cache)[b] = ReadAt(b)

\* No other entry has the block.
LEMMA EntryIs ==
  ASSUME OneEntryPerBlock, NEW i \in EvIdx, evicted[i].valid
  PROVE  IsStored(evicted[i].block) /\ EntryOf(evicted[i].block) = i
<1>1. IsStored(evicted[i].block)  BY DEF IsStored
<1>2. /\ EntryOf(evicted[i].block) \in EvIdx
      /\ evicted[EntryOf(evicted[i].block)].valid
      /\ evicted[EntryOf(evicted[i].block)].block = evicted[i].block
  BY <1>1 DEF IsStored, EntryOf
<1>3. QED  BY <1>1, <1>2 DEF OneEntryPerBlock

\* The entries in ascending order: only one of them has the block.
LEMMA ForwardOne ==
  ASSUME OneEntryPerBlock, NEW b, NEW d
  PROVE  ForwardEvicted(b, d) = IF IsStored(b) THEN Over(Placed(evicted[EntryOf(b)]), d) ELSE d
<1> DEFINE Passed(n) == IsStored(b) /\ EntryOf(b) < n
           Seen(n) == IF Passed(n) THEN Over(Placed(evicted[EntryOf(b)]), d) ELSE d
           Step(f, n) == IF n = 0 THEN d
                         ELSE IF evicted[n - 1].valid THEN Forward(evicted[n - 1], b, f[n - 1])
                         ELSE f[n - 1]
           upTo[n \in 0 .. NumEvicted] ==
             IF n = 0 THEN d
             ELSE IF evicted[n - 1].valid THEN Forward(evicted[n - 1], b, upTo[n - 1])
             ELSE upTo[n - 1]
<1>1. ForwardEvicted(b, d) = upTo[NumEvicted]  BY DEF ForwardEvicted
<1>2. NumEvicted \in Nat /\ NumEvicted \in 0 .. NumEvicted
  BY SQBAssumption, SMT
<1>3. IsStored(b) => /\ EntryOf(b) \in EvIdx
                     /\ evicted[EntryOf(b)].valid
                     /\ evicted[EntryOf(b)].block = b
  BY DEF IsStored, EntryOf
<1>4. IsStored(b) => EntryOf(b) \in Int /\ 0 <= EntryOf(b) /\ EntryOf(b) < NumEvicted
  BY <1>2, <1>3, SMT DEF EvIdx
<1>5. ASSUME NEW n \in 0 .. NumEvicted, n # 0, NEW f, f[n - 1] = Seen(n - 1)
      PROVE  Step(f, n) = Seen(n)
  <2>1. n \in Int /\ n - 1 \in EvIdx /\ n - 1 \in Int  BY <1>2, <1>5, SMT DEF EvIdx
  <2>2. CASE evicted[n - 1].valid /\ evicted[n - 1].block = b
    <3>1. IsStored(b) /\ EntryOf(b) = n - 1  BY <2>1, <2>2, EntryIs
    <3>2. Passed(n) /\ ~Passed(n - 1)  BY <2>1, <3>1, SMT
    <3>3. Seen(n) = Over(Placed(evicted[n - 1]), d) /\ Seen(n - 1) = d  BY <3>1, <3>2
    <3> HIDE DEF Seen, Passed
    <3> QED  BY <1>5, <2>2, <3>3 DEF Forward
  <2>3. CASE ~(evicted[n - 1].valid /\ evicted[n - 1].block = b)
    <3>1. IsStored(b) => EntryOf(b) # n - 1  BY <1>3, <2>3
    <3>2. Passed(n) = Passed(n - 1)  BY <1>4, <2>1, <3>1, SMT
    <3>3. Seen(n) = Seen(n - 1)  BY <3>2
    <3> HIDE DEF Seen, Passed
    <3> QED  BY <1>5, <2>3, <3>3 DEF Forward
  <2> QED  BY <2>2, <2>3
<1>6. Seen(0) = d  BY <1>4, SMT
<1>7. \E f : f = [n \in 0 .. NumEvicted |-> Step(f, n)]
  <2> DEFINE w == [n \in 0 .. NumEvicted |-> Seen(n)]
  <2>1. ASSUME NEW n \in 0 .. NumEvicted  PROVE w[n] = Step(w, n)
    <3>1. CASE n = 0  BY <1>6, <3>1
    <3>2. CASE n # 0
      <4>1. n - 1 \in 0 .. NumEvicted  BY <1>2, <3>2, SMT
      <4>2. w[n - 1] = Seen(n - 1) /\ w[n] = Seen(n)  BY <4>1
      <4> HIDE DEF w, Seen, Step
      <4> QED  BY <1>5, <3>2, <4>2
    <3> QED  BY <3>1, <3>2
  <2>2. w = [n \in 0 .. NumEvicted |-> w[n]]  OBVIOUS
  <2> HIDE DEF w, Step
  <2>3. w = [n \in 0 .. NumEvicted |-> Step(w, n)]  BY <2>1, <2>2
  <2> QED  BY <2>3
<1>8. upTo = [n \in 0 .. NumEvicted |-> Step(upTo, n)]  BY <1>7
<1> HIDE DEF upTo, Step, Seen
<1>9. \A n \in 0 .. NumEvicted : upTo[n] = Step(upTo, n)  BY <1>8
<1>10. \A n \in 0 .. NumEvicted : upTo[n] = Seen(n)
  <2> DEFINE Wrong == {n \in 0 .. NumEvicted : upTo[n] # Seen(n)}
  <2>1. CASE Wrong # {}
    <3>1. Wrong \subseteq Nat  BY <1>2, SMT
    <3>2. PICK n \in Wrong : \A k \in Wrong : n <= k
      <4> HIDE DEF Wrong
      <4> QED  BY <2>1, <3>1, LeastNat
    <3>3. n \in 0 .. NumEvicted /\ upTo[n] # Seen(n)  OBVIOUS
    <3>4. n # 0  BY <1>6, <1>9, <3>3 DEF Step
    <3>5. n - 1 \in 0 .. NumEvicted /\ ~(n <= n - 1)  BY <1>2, <3>3, <3>4, SMT
    <3>6. upTo[n - 1] = Seen(n - 1)  BY <3>2, <3>5
    <3>7. Step(upTo, n) = Seen(n)  BY <1>5, <3>3, <3>4, <3>6
    <3> QED  BY <1>9, <3>3, <3>7
  <2>2. CASE Wrong = {}
    BY <2>2
  <2> QED  BY <2>1, <2>2
<1>11. Seen(NumEvicted) = IF IsStored(b) THEN Over(Placed(evicted[EntryOf(b)]), d) ELSE d
  BY <1>4 DEF Seen
<1>12. QED  BY <1>1, <1>2, <1>10, <1>11

\* A lookup sees the waiting block over the entry over the cache.
LEMMA LookupStep == DrainInv => LookupReads
<1> SUFFICES ASSUME DrainInv, NEW b \in Blocks
             PROVE  LookupThrough(cache)[b] = ReadAt(b)
  BY DEF LookupReads
<1> DEFINE d == ForwardEvicted(b, cache[b])
<1>1. LookupThrough(cache)[b] = IF fusedUOp_r = NoFused THEN d ELSE Forward(fusedUOp_r, b, d)
  BY DEF LookupThrough
<1>2. cache[b] \in [Lanes -> Byte]  BY DEF DrainInv, TypeOK, PipeTypeOK, Memory
<1>3. \A m : m \in [Lanes -> Byte] => Over(NoBytes, m) = m
  BY DEF Over, NoBytes
<1>4. d = Over(EvictedAt(b), cache[b])
  <2>1. d = IF IsStored(b) THEN Over(Placed(evicted[EntryOf(b)]), cache[b]) ELSE cache[b]
    BY ForwardOne DEF DrainInv
  <2> HIDE DEF d
  <2> QED  BY <1>2, <1>3, <2>1 DEF EvictedAt
<1> HIDE DEF d
<1>5. Over(NoBytes, d) = d
  BY <1>4 DEF Over, NoBytes
<1>6. QED  BY <1>1, <1>4, <1>5 DEF ReadAt, WaitingAt, Forward

-----------------------------------------------------------------------------
(***************************************************************************)
(* The inductive invariant behind the refinement, for programs without     *)
(* management operations.                                                  *)
(***************************************************************************)
\* The program does without cbo.clean and cbo.flush.
NoManagement == \A u \in Stores : ~IsMgmt(u)

PlainStores ==
  /\ sqOut \in Seq(Stores)
  /\ fusedUOp_r # NoFused => fusedUOp_r.isMgmt = FALSE
  /\ \A i \in EvIdx : evicted[i].valid => evicted[i].isMgmt = FALSE

\* The first block to enter an entry is not merged with what an earlier one left there.
FreeIsEmpty == \A i \in EvIdx : ~evicted[i].valid => evicted[i].bytes = NoBytes

\* Every byte that an operation under way may write is also in its entry, on top of the
\* cache: whatever an old version does to the cache, no load sees it.
Covered ==
  \A k \in 1 .. 3, i \in EvIdx :
    Held(k, i) => \A l \in Lanes : OpAt(k).bytes[l] # NoByte => evicted[i].bytes[l] # NoByte

\* The entry can be released: the cache has all of its bytes.
Written(i) ==
  \A l \in Lanes : Placed(evicted[i])[l] = NoByte \/ Placed(evicted[i])[l] = cache[evicted[i].block][l]

\* What is released was written.  A device store is written when it is accepted.
AnswerIsWritten == \A i \in EvIdx : Answered(i) /\ ~stAck_r.fail => Written(i)
DeviceIsWritten ==
  \A k \in 2 .. 4, i \in EvIdx : Held(k, i) /\ IsMMIO(evicted[i]) => Written(i)

ReadInv ==
  DrainInv /\ PlainStores /\ FreeIsEmpty /\ Covered /\ AnswerIsWritten /\ DeviceIsWritten

LEMMA InitRead == Init => ReadInv
<1> SUFFICES ASSUME Init PROVE ReadInv  OBVIOUS
<1>1. DrainInv  BY InitDrain
<1>2. \A i \in EvIdx : ~evicted[i].valid /\ evicted[i].bytes = NoBytes
  BY DEF Init, SQBInit
<1>3. ASSUME NEW k \in 1 .. 4, NEW i \in EvIdx  PROVE ~Held(k, i)
  BY <1>1, <1>2 DEF DrainInv, HeldIsValid
<1>4. PlainStores
  <2>1. sqOut \in Seq(Stores) /\ fusedUOp_r = NoFused  BY SMT DEF Init, SQBInit
  <2> QED  BY <1>2, <2>1 DEF PlainStores
<1>5. FreeIsEmpty  BY <1>2 DEF FreeIsEmpty
<1>6. Covered /\ DeviceIsWritten
  <2>1. \A k : (k \in 1 .. 3 => k \in 1 .. 4) /\ (k \in 2 .. 4 => k \in 1 .. 4)  BY SMT
  <2> QED  BY <1>3, <2>1 DEF Covered, DeviceIsWritten
<1>7. AnswerIsWritten
  <2>1. stAck_r = NoAck  BY DEF Init, SQBInit
  <2> QED  BY <2>1 DEF AnswerIsWritten, Answered
<1>8. QED  BY <1>1, <1>4, <1>5, <1>6, <1>7 DEF ReadInv

\* The store queue keeps offering stores of the program.
LEMMA OffersStay ==
  ASSUME TypeOK, sqOut \in Seq(Stores), NEW new \in Arrivals, Refill(new)
  PROVE  sqOut' \in Seq(Stores)
<1>1. new \in Seq(Stores)
  <2>1. PICK n \in 0 .. 2 : new \in [1 .. n -> Stores]  BY DEF Arrivals
  <2> QED  BY <2>1, SMT
<1>2. Taken(Uops) + 1 \in Nat /\ Taken(Uops) + 1 >= 1
  BY SMT DEF Taken
<1>3. SubSeq(sqOut, Taken(Uops) + 1, Len(sqOut)) \in Seq(Stores)
  BY <1>2, SMT
<1>4. QED  BY <1>1, <1>3, SMT DEF Refill

\* The first two stores offered.
LEMMA OfferedStores ==
  ASSUME sqOut \in Seq(Stores)
  PROVE  \A i \in 1 .. 2 : Uops[i] # NoStore => i <= Len(sqOut) /\ Uops[i] = sqOut[i] /\ Uops[i] \in Stores
<1> SUFFICES ASSUME NEW i \in 1 .. 2, Uops[i] # NoStore
             PROVE  i <= Len(sqOut) /\ Uops[i] = sqOut[i] /\ Uops[i] \in Stores
  OBVIOUS
<1>1. i <= Len(sqOut) /\ Uops[i] = sqOut[i]  BY DEF Uops
<1>2. i \in 1 .. Len(sqOut)  BY <1>1, SMT
<1>3. sqOut[i] \in Stores  BY <1>2, SMT
<1>4. QED  BY <1>1, <1>3

\* Entry i after a cycle in which nothing is put into it.
LEMMA KeptEntry ==
  ASSUME TypeOK, NEW stStall \in BOOLEAN, NEW hit \in BOOLEAN, Tick(stStall, hit),
         NEW i \in EvIdx, ~Merged(i)
  PROVE  /\ evicted'[i].isMgmt = evicted[i].isMgmt /\ evicted'[i].word = evicted[i].word
         /\ Answered(i) /\ ~stAck_r.fail =>
              evicted'[i].valid = FALSE /\ evicted'[i].bytes = NoBytes
         /\ ~(Answered(i) /\ ~stAck_r.fail) =>
              evicted'[i].valid = evicted[i].valid /\ evicted'[i].bytes = evicted[i].bytes
<1> DEFINE e == IF Refused(i, stStall) THEN [evicted[i] EXCEPT !.issued = FALSE]
                                       ELSE evicted[i]
           a == AfterAnswer(i, e)
<1>1. evicted'[i] = IF Unissued # {} /\ i = ReIssue THEN [a EXCEPT !.issued = TRUE] ELSE a
  BY DEF Tick, SQBClock, NextEntry, Merged
<1>2. evicted[i] \in EQEntry  BY DEF TypeOK, SQBTypeOK
<1>3. /\ e \in EQEntry
      /\ e.valid = evicted[i].valid /\ e.bytes = evicted[i].bytes
      /\ e.word = evicted[i].word /\ e.isMgmt = evicted[i].isMgmt
  BY <1>2 DEF EQEntry
<1> HIDE DEF e
<1>4. NoBytes \in Image  BY DEF NoBytes, Image
<1>5. /\ Released(e) \in EQEntry
      /\ Released(e).valid = FALSE /\ Released(e).bytes = NoBytes
      /\ Released(e).word = e.word /\ Released(e).isMgmt = e.isMgmt
  BY <1>3, <1>4 DEF Released, EQEntry
<1>6. /\ a \in EQEntry
      /\ a.word = e.word /\ a.isMgmt = e.isMgmt
      /\ Answered(i) /\ ~stAck_r.fail => a.valid = FALSE /\ a.bytes = NoBytes
      /\ ~(Answered(i) /\ ~stAck_r.fail) => a.valid = e.valid /\ a.bytes = e.bytes
  BY <1>3, <1>5 DEF AfterAnswer, EQEntry
<1> HIDE DEF a
<1>7. /\ evicted'[i].valid = a.valid /\ evicted'[i].bytes = a.bytes
      /\ evicted'[i].word = a.word /\ evicted'[i].isMgmt = a.isMgmt
  BY <1>1, <1>6 DEF EQEntry
<1>8. QED  BY <1>3, <1>6, <1>7

\* Merging lays the waiting block over what was there.
LEMMA MergedInto ==
  ASSUME DrainInv, PlainStores, FreeIsEmpty, NEW stStall \in BOOLEAN, NEW hit \in BOOLEAN,
         Tick(stStall, hit), NEW i \in EvIdx, Merged(i)
  PROVE  /\ evicted'[i].bytes = Over(fusedUOp_r.bytes, evicted[i].bytes)
         /\ evicted'[i].word = fusedUOp_r.word
         /\ evicted'[i].isMgmt = FALSE
         /\ ~evicted[i].valid => evicted'[i].bytes = fusedUOp_r.bytes
         /\ evicted[i].valid => ~IsMMIO(fusedUOp_r)
<1>1. fusedUOp_r # NoFused /\ fusedUOp_r.isMgmt = FALSE /\ fusedUOp_r.bytes \in Image
  BY SMT DEF Merged, Inserts, PlainStores, DrainInv, TypeOK, SQBTypeOK, FusedUOp
<1>2. evicted'[i] = Enqueued(i)  BY MergedEntry
<1>3. /\ evicted'[i].bytes = Over(fusedUOp_r.bytes, evicted[i].bytes)
      /\ evicted'[i].word = fusedUOp_r.word
      /\ evicted'[i].isMgmt = FALSE
  BY <1>1, <1>2 DEF Enqueued, MergedBytes
<1>4. Over(fusedUOp_r.bytes, NoBytes) = fusedUOp_r.bytes
  BY <1>1 DEF Over, NoBytes, Image
<1>5. ASSUME evicted[i].valid, IsMMIO(fusedUOp_r)  PROVE FALSE
  <2>1. evicted[i].block = fusedUOp_r.block  BY <1>5, MergedEntry
  <2> QED  BY <1>5, <2>1 DEF Merged, Inserts, MmioOpInEv, IsMMIO
<1>6. QED  BY <1>3, <1>4, <1>5 DEF FreeIsEmpty

LEMMA PlainStay ==
  ASSUME DrainInv, PlainStores, FreeIsEmpty, NoManagement, NEW new \in Arrivals, Refill(new),
         NEW stStall \in BOOLEAN, NEW hit \in BOOLEAN, Tick(stStall, hit)
  PROVE  PlainStores'
<1>1. sqOut' \in Seq(Stores)  BY OffersStay DEF PlainStores, DrainInv
<1>2. ASSUME fusedUOp_r' # NoFused  PROVE fusedUOp_r'.isMgmt = FALSE
  <2>1. fusedUOp_r' = IF Accepts(Uops) THEN Fused(Uops)
                      ELSE IF Inserts THEN NoFused ELSE fusedUOp_r
    BY DEF Tick, SQBClock
  <2>2. CASE Accepts(Uops)
    <3>1. 1 \in 1 .. 2 /\ Uops[1] # NoStore  BY <2>2, SMT DEF Accepts
    <3>2. Uops[1] \in Stores  BY <3>1, OfferedStores DEF PlainStores
    <3>3. FuseBase(Uops[1]).isMgmt = FALSE  BY <3>2 DEF NoManagement, FuseBase
    <3>4. Fused(Uops).isMgmt = FuseBase(Uops[1]).isMgmt  BY DEF Fused, FuseBase
    <3> QED  BY <2>1, <2>2, <3>3, <3>4
  <2>3. CASE ~Accepts(Uops)
    BY <1>2, <2>1, <2>3 DEF PlainStores
  <2> QED  BY <2>2, <2>3
<1>3. ASSUME NEW i \in EvIdx, evicted'[i].valid  PROVE evicted'[i].isMgmt = FALSE
  <2>1. CASE Merged(i)
    BY <2>1, MergedInto
  <2>2. CASE ~Merged(i)
    BY <1>3, <2>2, KeptEntry, OtherEntry DEF DrainInv, PlainStores
  <2> QED  BY <2>1, <2>2
<1>4. QED  BY <1>1, <1>2, <1>3 DEF PlainStores

\* Entries are emptied when they are released.
LEMMA FreeStays ==
  ASSUME DrainInv, FreeIsEmpty, NEW stStall \in BOOLEAN, NEW hit \in BOOLEAN, Tick(stStall, hit)
  PROVE  FreeIsEmpty'
<1> SUFFICES ASSUME NEW i \in EvIdx, ~evicted'[i].valid
             PROVE  evicted'[i].bytes = NoBytes
  BY DEF FreeIsEmpty, NoBytes
<1>1. ~Merged(i)  BY MergedEntry
<1>2. QED  BY <1>1, KeptEntry DEF DrainInv, FreeIsEmpty

\* Merging only adds bytes.
LEMMA CoverStays ==
  ASSUME NumNonces >= 5, DrainInv, PlainStores, FreeIsEmpty, Covered,
         NEW stStall \in BOOLEAN, NEW hit \in BOOLEAN, Tick(stStall, hit)
  PROVE  Covered'
<1> SUFFICES ASSUME NEW k \in 1 .. 3, NEW i \in EvIdx, Held(k, i)', NEW l \in Lanes,
                    OpAt(k)'.bytes[l] # NoByte
             PROVE  evicted'[i].bytes[l] # NoByte
  BY DEF Covered
<1>1. ASSUME evicted[i].bytes[l] # NoByte, ~Answered(i)
      PROVE  evicted'[i].bytes[l] # NoByte
  <2>1. CASE Merged(i)
    <3>1. evicted'[i].bytes = Over(fusedUOp_r.bytes, evicted[i].bytes)  BY <2>1, MergedInto
    <3> QED  BY <1>1, <3>1 DEF Over
  <2>2. CASE ~Merged(i)
    BY <1>1, <2>2, KeptEntry DEF DrainInv
  <2> QED  BY <2>1, <2>2
<1>2. CASE k = 1
  <2>1. OpAt(k)' = uopSt'  BY <1>2 DEF OpAt
  <2>2. CASE Unissued # {} /\ i = ReIssue /\ uopSt' = StOp(i, evicted[i])
    <3>1. evicted[i].bytes[l] # NoByte  BY <2>1, <2>2 DEF StOp
    <3>2. ~Answered(i)  BY <2>2, AnsweredAlone
    <3> QED  BY <1>1, <3>1, <3>2
  <2>3. CASE uopSt' = StOp(i, evicted'[i])
    BY <2>1, <2>3 DEF StOp
  <2> QED  BY <1>2, <2>2, <2>3, BehindOffer
<1>3. CASE k # 1
  <2>1. k \in 2 .. 4 /\ k # 4  BY <1>3, SMT
  <2>2. k - 1 \in 1 .. 3 /\ Held(k - 1, i) /\ OpAt(k)' = OpAt(k - 1)
    BY <2>1, MovesOn
  <2>3. evicted[i].bytes[l] # NoByte  BY <2>2 DEF Covered
  <2>4. ~Answered(i)  BY <2>2, AnsweredAlone
  <2> QED  BY <1>1, <2>3, <2>4
<1>4. QED  BY <1>2, <1>3

-----------------------------------------------------------------------------
(* What a cycle does to the cache. *)

WritesLine(b, hit) ==
  stOps[2] # NoStOp /\ stOps[2].block = b /\ b \notin MMIO /\ ~stOps[2].isMgmt /\ hit
WritesDevice(b, stStall) ==
  uopSt # NoStOp /\ uopSt.block = b /\ b \in MMIO /\ (b \in ExtMMIO => ~stStall)

LEMMA CacheStep ==
  ASSUME TypeOK, NEW stStall \in BOOLEAN, NEW hit \in BOOLEAN, Tick(stStall, hit), NEW b \in Blocks
  PROVE  cache'[b] = IF WritesLine(b, hit) THEN Over(stOps[2].bytes, cache[b])
                     ELSE IF WritesDevice(b, stStall) THEN Over(Placed(uopSt), cache[b])
                     ELSE cache[b]
<1> DEFINE m == CacheWrite(cache, hit)
<1>1. cache' = DeviceWrite(m, stStall)  BY DEF Tick, PipeClock
<1>2. cache \in Memory  BY DEF TypeOK, PipeTypeOK
<1>3. /\ m = [m EXCEPT ![b] = m[b]] /\ DOMAIN m = Blocks
      /\ m[b] = IF WritesLine(b, hit) THEN Over(stOps[2].bytes, cache[b]) ELSE cache[b]
  BY <1>2 DEF CacheWrite, WritesLine, IsMMIO, Memory
<1> HIDE DEF m
<1>4. cache'[b] = IF WritesDevice(b, stStall) THEN Over(Placed(uopSt), m[b]) ELSE m[b]
  BY <1>1, <1>3 DEF DeviceWrite, WritesDevice, IsMMIO
<1>5. ~(WritesLine(b, hit) /\ WritesDevice(b, stStall))  BY DEF WritesLine, WritesDevice
<1>6. QED  BY <1>3, <1>4, <1>5

\* The placed bytes depend on the block, the word and the bytes.
LEMMA PlacedSame ==
  ASSUME NEW e, NEW f, e.block = f.block, e.word = f.word, e.bytes = f.bytes
  PROVE  Placed(e) = Placed(f)
  BY DEF Placed, IsMMIO

\* What is written comes from the entry of the block.
LEMMA WriterHasEntry ==
  ASSUME ReadInv, NEW stStall \in BOOLEAN, NEW hit \in BOOLEAN, NEW b
  PROVE  /\ WritesLine(b, hit) =>
              \E i \in EvIdx : /\ Held(3, i) /\ evicted[i].valid /\ evicted[i].block = b
                               /\ \A l \in Lanes : stOps[2].bytes[l] # NoByte =>
                                                     Placed(evicted[i])[l] # NoByte
         /\ WritesDevice(b, stStall) =>
              \E i \in EvIdx : /\ Held(1, i) /\ evicted[i].valid /\ evicted[i].block = b
                               /\ Placed(uopSt) = Placed(evicted[i])
<1>1. ASSUME WritesLine(b, hit)
      PROVE  \E i \in EvIdx : /\ Held(3, i) /\ evicted[i].valid /\ evicted[i].block = b
                              /\ \A l \in Lanes : stOps[2].bytes[l] # NoByte =>
                                                    Placed(evicted[i])[l] # NoByte
  <2> DEFINE i == stOps[2].id
  <2>1. stOps[2] # NoStOp /\ stOps[2].block = b /\ b \notin MMIO  BY <1>1 DEF WritesLine
  <2>2. i \in EvIdx
    <3>1. stOps[2] \in ST_UOp \cup {NoStOp}  BY SMT DEF ReadInv, DrainInv, TypeOK, PipeTypeOK
    <3> QED  BY <2>1, <3>1 DEF ST_UOp
  <2>3. 3 \in 1 .. 3 /\ 3 \in 1 .. 4 /\ 3 # 4 /\ 3 # 1 /\ 3 # 2  BY SMT
  <2>4. OpAt(3) = stOps[2]  BY <2>3 DEF OpAt
  <2>5. Held(3, i)  BY <2>1, <2>3, <2>4 DEF Held
  <2>6. evicted[i].valid /\ evicted[i].block = b
    BY <2>1, <2>2, <2>3, <2>4, <2>5 DEF ReadInv, DrainInv, HeldIsValid, SameBlock
  <2>7. \A l \in Lanes : stOps[2].bytes[l] # NoByte => evicted[i].bytes[l] # NoByte
    BY <2>2, <2>3, <2>4, <2>5 DEF ReadInv, Covered
  <2>8. Placed(evicted[i]) = evicted[i].bytes  BY <2>1, <2>6 DEF Placed, IsMMIO
  <2> QED  BY <2>2, <2>5, <2>6, <2>7, <2>8
<1>2. ASSUME WritesDevice(b, stStall)
      PROVE  \E i \in EvIdx : /\ Held(1, i) /\ evicted[i].valid /\ evicted[i].block = b
                              /\ Placed(uopSt) = Placed(evicted[i])
  <2> DEFINE i == uopSt.id
  <2>1. uopSt # NoStOp /\ uopSt.block = b /\ b \in MMIO  BY <1>2 DEF WritesDevice
  <2>2. i \in EvIdx
    BY <2>1 DEF ReadInv, DrainInv, TypeOK, SQBTypeOK, ST_UOp
  <2>3. 1 \in 1 .. 3 /\ 1 \in 1 .. 4 /\ 1 # 4  BY SMT
  <2>4. OpAt(1) = uopSt  BY DEF OpAt
  <2>5. Held(1, i)  BY <2>1, <2>3, <2>4 DEF Held
  <2>6. evicted[i].valid /\ evicted[i].block = b
    BY <2>1, <2>2, <2>3, <2>4, <2>5 DEF ReadInv, DrainInv, HeldIsValid, SameBlock
  <2>7. uopSt = StOp(i, evicted[i])
    <3>1. Behind(1, i) = 0
      BY <2>1, <2>2, <2>3, <2>5, <2>6 DEF ReadInv, DrainInv, DeviceIsCurrent, IsMMIO
    <3> QED  BY <2>2, <2>3, <2>4, <2>5, <3>1 DEF ReadInv, DrainInv, CurrentIsIssued
  <2>8. Placed(uopSt) = Placed(evicted[i])  BY <2>7, PlacedSame DEF StOp
  <2> QED  BY <2>2, <2>5, <2>6, <2>8
<1>3. QED  BY <1>1, <1>2

\* What is written to the cache under an entry is covered by the entry.
LEMMA CacheUnderEntry ==
  ASSUME ReadInv, NEW stStall \in BOOLEAN, NEW hit \in BOOLEAN, Tick(stStall, hit),
         NEW i \in EvIdx, evicted[i].valid, NEW l \in Lanes
  PROVE  LET b == evicted[i].block
         IN  cache'[b][l] = cache[b][l] \/ Placed(evicted[i])[l] # NoByte
<1> DEFINE b == evicted[i].block
<1>1. b \in Blocks  BY DEF ReadInv, DrainInv, TypeOK, SQBTypeOK, EQEntry
<1>2. ASSUME NEW j \in EvIdx, evicted[j].valid, evicted[j].block = b  PROVE j = i
  BY <1>2 DEF ReadInv, DrainInv, OneEntryPerBlock
<1> HIDE DEF b
<1>3. cache'[b] = IF WritesLine(b, hit) THEN Over(stOps[2].bytes, cache[b])
                  ELSE IF WritesDevice(b, stStall) THEN Over(Placed(uopSt), cache[b])
                  ELSE cache[b]
  BY <1>1, CacheStep DEF ReadInv, DrainInv
<1>4. CASE WritesLine(b, hit)
  <2>1. stOps[2].bytes[l] # NoByte => Placed(evicted[i])[l] # NoByte
    BY <1>2, <1>4, WriterHasEntry
  <2>2. cache'[b] = Over(stOps[2].bytes, cache[b])  BY <1>3, <1>4
  <2> QED  BY <2>1, <2>2 DEF Over, b
<1>5. CASE ~WritesLine(b, hit) /\ WritesDevice(b, stStall)
  <2>1. Placed(uopSt) = Placed(evicted[i])
    BY <1>2, <1>5, WriterHasEntry
  <2>2. cache'[b] = Over(Placed(uopSt), cache[b])  BY <1>3, <1>5
  <2> QED  BY <2>1, <2>2 DEF Over, b
<1>6. CASE ~WritesLine(b, hit) /\ ~WritesDevice(b, stStall)
  BY <1>3, <1>6 DEF b
<1>7. QED  BY <1>4, <1>5, <1>6

\* Nothing is written under an entry that is released, or where there is no entry.
LEMMA CacheLeftAlone ==
  ASSUME ReadInv, NEW stStall \in BOOLEAN, NEW hit \in BOOLEAN, Tick(stStall, hit), NEW b \in Blocks,
         \A i \in EvIdx : evicted[i].valid /\ evicted[i].block = b => Answered(i)
  PROVE  cache'[b] = cache[b]
<1>1. 3 \in 1 .. 3 /\ 1 \in 1 .. 3  BY SMT
<1>2. \A i \in EvIdx : evicted[i].valid /\ evicted[i].block = b => ~Held(3, i) /\ ~Held(1, i)
  BY <1>1, AnsweredAlone DEF ReadInv
<1>3. ~WritesLine(b, hit) /\ ~WritesDevice(b, stStall)
  BY <1>2, WriterHasEntry
<1>4. QED  BY <1>3, CacheStep DEF ReadInv, DrainInv

-----------------------------------------------------------------------------
(* What is released was written. *)

\* Bytes stay written while only they are written.
LEMMA WrittenStays ==
  ASSUME NEW i, NEW c, NEW d, Written(i), c = cache[evicted[i].block],
         d = c \/ d = Over(Placed(evicted[i]), c)
  PROVE  \A l \in Lanes : Placed(evicted[i])[l] = NoByte \/ Placed(evicted[i])[l] = d[l]
  BY DEF Written, Over

\* An entry that was not changed is written if its bytes are.
LEMMA WrittenNext ==
  ASSUME ReadInv, NEW stStall \in BOOLEAN, NEW hit \in BOOLEAN, Tick(stStall, hit),
         NEW i \in EvIdx, ~Merged(i), ~Answered(i),
         \A l \in Lanes : \/ Placed(evicted[i])[l] = NoByte
                          \/ Placed(evicted[i])[l] = cache'[evicted[i].block][l]
  PROVE  Written(i)'
<1>1. /\ evicted'[i].block = evicted[i].block
      /\ evicted'[i].word = evicted[i].word
      /\ evicted'[i].bytes = evicted[i].bytes
  BY OtherEntry, KeptEntry DEF ReadInv, DrainInv
<1>2. Placed(evicted'[i]) = Placed(evicted[i])  BY <1>1, PlacedSame
<1>3. Written(i)' = \A l \in Lanes : \/ Placed(evicted'[i])[l] = NoByte
                                     \/ Placed(evicted'[i])[l] = cache'[evicted'[i].block][l]
  BY DEF Written, Placed, IsMMIO
<1>4. QED  BY <1>1, <1>2, <1>3

\* A device store is written when it leaves the offer, and stays so.
LEMMA DeviceStaysWritten ==
  ASSUME NumNonces >= 5, ReadInv, DrainInv',
         NEW stStall \in BOOLEAN, NEW hit \in BOOLEAN, Tick(stStall, hit)
  PROVE  DeviceIsWritten'
<1> SUFFICES ASSUME NEW k \in 2 .. 4, NEW i \in EvIdx, Held(k, i)', IsMMIO(evicted'[i])
             PROVE  Written(i)'
  BY DEF DeviceIsWritten, IsMMIO
<1> DEFINE b == evicted[i].block
           c == cache[b]
<1>1. /\ k - 1 \in 1 .. 3 /\ k - 1 \in 1 .. 4 /\ k \in 1 .. 4
      /\ Held(k - 1, i)
      /\ k = 2 => ~stStall
  BY MovesOn, SMT
<1>2. Behind(k, i)' = 0  BY <1>1 DEF DrainInv, DeviceIsCurrent, IsMMIO
<1>3. ~Merged(i) /\ Behind(k - 1, i) = 0
  BY <1>2, BehindMoves, SMT DEF ReadInv
<1>4. ~Answered(i)  BY <1>1, AnsweredAlone DEF ReadInv
<1>5. evicted[i].valid  BY <1>1 DEF ReadInv, DrainInv, HeldIsValid
<1>6. b \in Blocks /\ b \in MMIO
  <2>1. evicted'[i].block = b  BY <1>3, OtherEntry DEF ReadInv, DrainInv
  <2> QED  BY <2>1 DEF ReadInv, DrainInv, TypeOK, SQBTypeOK, EQEntry, IsMMIO
<1>7. ~WritesLine(b, hit)  BY <1>6 DEF WritesLine
<1>8. cache'[b] = IF WritesDevice(b, stStall) THEN Over(Placed(uopSt), c) ELSE c
  BY <1>6, <1>7, CacheStep DEF ReadInv, DrainInv
<1>9. WritesDevice(b, stStall) => Placed(uopSt) = Placed(evicted[i])
  <2>1. \A j \in EvIdx : evicted[j].valid /\ evicted[j].block = b => j = i
    BY <1>5 DEF ReadInv, DrainInv, OneEntryPerBlock
  <2> QED  BY <2>1, WriterHasEntry
<1>10. \A l \in Lanes : Placed(evicted[i])[l] = NoByte \/ Placed(evicted[i])[l] = cache'[b][l]
  <2>1. CASE k = 2
    <3>1. k - 1 = 1  BY <2>1, SMT
    <3>2. uopSt # NoStOp /\ uopSt = StOp(i, evicted[i])
      <4>1. 1 # 4 /\ 1 \in 1 .. 4  BY SMT
      <4>2. OpAt(1) = uopSt  BY DEF OpAt
      <4> QED  BY <1>1, <1>3, <3>1, <4>1, <4>2 DEF Held, ReadInv, DrainInv, CurrentIsIssued
    <3>3. WritesDevice(b, stStall)
      BY <1>1, <1>6, <2>1, <3>2 DEF WritesDevice, StOp
    <3>4. cache'[b] = Over(Placed(evicted[i]), c)  BY <1>8, <1>9, <3>3
    <3> HIDE DEF c, b
    <3> QED  BY <3>4 DEF Over
  <2>2. CASE k # 2
    <3>1. k - 1 \in 2 .. 4  BY <2>2, SMT
    <3>2. Written(i)  BY <1>1, <1>6, <3>1 DEF ReadInv, DeviceIsWritten, IsMMIO
    <3>3. cache'[b] = c \/ cache'[b] = Over(Placed(evicted[i]), c)
      BY <1>8, <1>9
    <3> QED  BY <3>2, <3>3, WrittenStays
  <2> QED  BY <2>1, <2>2
<1>11. QED  BY <1>3, <1>4, <1>10, WrittenNext

\* The answer says that the bytes were written.
LEMMA AnswerStaysWritten ==
  ASSUME NumNonces >= 5, ReadInv, DrainInv', DeviceIsWritten',
         NEW stStall \in BOOLEAN, NEW hit \in BOOLEAN, Tick(stStall, hit)
  PROVE  AnswerIsWritten'
<1> SUFFICES ASSUME NEW i \in EvIdx, Answered(i)', ~stAck_r'.fail
             PROVE  Written(i)'
  BY DEF AnswerIsWritten
<1> DEFINE b == evicted[i].block
<1>1. Held(4, i)' /\ Behind(4, i)' = 0
  <2>1. Held(4, i)'  BY SMT DEF Answered, Held
  <2>2. NonceAt(4)' = evicted'[i].nonce  BY SMT DEF Answered, NonceAt
  <2>3. evicted'[i].nonce \in Nonces  BY DEF DrainInv, TypeOK, SQBTypeOK, EQEntry
  <2>4. Behind(4, i)' = Distance(evicted'[i].nonce, evicted'[i].nonce)
    BY <2>2 DEF Behind, Distance
  <2>5. Behind(4, i)' = 0  BY <2>3, <2>4, DistanceStep
  <2> QED  BY <2>1, <2>5
<1>2. 4 \in 2 .. 4 /\ 4 - 1 = 3 /\ 3 \in 1 .. 3 /\ 3 \in 1 .. 4 /\ 3 # 4 /\ 3 # 1 /\ 3 # 2
  BY SMT
<1>3. Held(3, i)  BY <1>1, <1>2, MovesOn
<1>4. ~Merged(i) /\ Behind(3, i) = 0
  <2>1. /\ Behind(4 - 1, i) \in Nat
        /\ Behind(4, i)' = Behind(4 - 1, i) + (IF Merged(i) THEN 1 ELSE 0)
    BY <1>1, <1>2, BehindMoves DEF ReadInv
  <2> QED  BY <1>1, <1>2, <2>1, SMT
<1>5. ~Answered(i)  BY <1>2, <1>3, AnsweredAlone DEF ReadInv
<1>6. evicted[i].valid  BY <1>2, <1>3 DEF ReadInv, DrainInv, HeldIsValid
<1>7. stOps[2] # NoStOp /\ stOps[2] = StOp(i, evicted[i])
  <2>1. OpAt(3) = stOps[2]  BY <1>2 DEF OpAt
  <2> QED  BY <1>2, <1>3, <1>4, <2>1 DEF Held, ReadInv, DrainInv, CurrentIsIssued
<1>8. b \in Blocks  BY DEF ReadInv, DrainInv, TypeOK, SQBTypeOK, EQEntry
<1>9. CASE IsMMIO(evicted[i])
  <2>1. evicted'[i].block = evicted[i].block
    BY <1>4, OtherEntry DEF ReadInv, DrainInv
  <2>2. IsMMIO(evicted'[i])  BY <1>9, <2>1 DEF IsMMIO
  <2> QED  BY <1>1, <1>2, <2>2 DEF DeviceIsWritten, IsMMIO
<1>10. CASE ~IsMMIO(evicted[i])
  <2>1. evicted[i].isMgmt = FALSE  BY <1>6 DEF ReadInv, PlainStores
  <2>2. stOps[2].block = b /\ b \notin MMIO /\ ~stOps[2].isMgmt /\ stOps[2].bytes = evicted[i].bytes
    BY <1>7, <1>10, <2>1 DEF StOp, IsMMIO
  <2>3. hit
    <3>1. stAck_r' = StAck(hit)  BY DEF Tick, SQBClock
    <3>2. stAck_r'.fail = (~hit /\ ~IsMMIO(stOps[2]))  BY <1>7, <3>1 DEF StAck
    <3> QED  BY <2>2, <3>2 DEF IsMMIO
  <2>4. WritesLine(b, hit)  BY <1>7, <2>2, <2>3 DEF WritesLine
  <2>5. cache'[b] = Over(evicted[i].bytes, cache[b])
    BY <1>8, <2>2, <2>4, CacheStep DEF ReadInv, DrainInv
  <2>6. Placed(evicted[i]) = evicted[i].bytes  BY <1>10 DEF Placed
  <2>7. \A l \in Lanes : Placed(evicted[i])[l] = NoByte \/ Placed(evicted[i])[l] = cache'[b][l]
    BY <2>5, <2>6 DEF Over
  <2> QED  BY <1>4, <1>5, <2>7, WrittenNext
<1>11. QED  BY <1>9, <1>10

LEMMA NextRead ==
  ASSUME NumNonces >= 5, NoManagement, ReadInv, [Next]_vars
  PROVE  ReadInv'
<1>1. DrainInv'  BY NextDrain DEF ReadInv
<1>2. CASE Next
  <2>1. PICK new \in Arrivals, stStall \in BOOLEAN, hit \in BOOLEAN : Cycle(new, stStall, hit)
    BY <1>2 DEF Next
  <2>2. Tick(stStall, hit) /\ Refill(new)  BY <2>1 DEF Cycle, Tick
  <2>3. PlainStores'  BY <2>2, PlainStay DEF ReadInv
  <2>4. FreeIsEmpty'  BY <2>2, FreeStays DEF ReadInv
  <2>5. Covered'  BY <2>2, CoverStays DEF ReadInv
  <2>6. DeviceIsWritten'  BY <1>1, <2>2, DeviceStaysWritten
  <2>7. AnswerIsWritten'  BY <1>1, <2>2, <2>6, AnswerStaysWritten
  <2> QED  BY <1>1, <2>3, <2>4, <2>5, <2>6, <2>7 DEF ReadInv
<1>3. CASE UNCHANGED vars
  <2>1. /\ evicted' = evicted /\ uopSt' = uopSt /\ stAck_r' = stAck_r /\ stOps' = stOps
        /\ cache' = cache /\ sqOut' = sqOut /\ fusedUOp_r' = fusedUOp_r
    BY <1>3 DEF vars, sqbVars, pipeVars
  <2>2. PlainStores' /\ FreeIsEmpty'  BY <2>1 DEF ReadInv, PlainStores, FreeIsEmpty, NoBytes
  <2>3. Covered'  BY <2>1 DEF ReadInv, Covered, Held, OpAt
  <2>4. \A i \in EvIdx : Written(i)' = Written(i)  BY <2>1 DEF Written, Placed, IsMMIO
  <2>5. DeviceIsWritten'  BY <2>1, <2>4 DEF ReadInv, DeviceIsWritten, Held, OpAt, IsMMIO
  <2>6. AnswerIsWritten'  BY <2>1, <2>4 DEF ReadInv, AnswerIsWritten, Answered
  <2> QED  BY <1>1, <2>2, <2>3, <2>5, <2>6 DEF ReadInv
<1>4. QED  BY <1>2, <1>3

LEMMA ReadInvariant ==
  ASSUME NumNonces >= 5, NoManagement
  PROVE  Spec => []ReadInv
<1>1. Init => ReadInv  BY InitRead
<1>2. ReadInv /\ [Next]_vars => ReadInv'  BY NextRead
<1>3. QED  BY <1>1, <1>2, PTL DEF Spec

-----------------------------------------------------------------------------
(* A cycle, as loads see it. *)

\* What the waiting block adds to what was taken over before, if it enters evicted.
Entering(b) == IF Inserts /\ fusedUOp_r.block = b THEN Placed(fusedUOp_r) ELSE NoBytes

\* The entry and the cache below it change by what enters, and by nothing else.
LEMMA EntriesRead ==
  ASSUME ReadInv, DrainInv', NEW stStall \in BOOLEAN, NEW hit \in BOOLEAN, Tick(stStall, hit),
         NEW b \in Blocks
  PROVE  Over(EvictedAt(b)', cache'[b]) = Over(Entering(b), Over(EvictedAt(b), cache[b]))
<1>1. cache[b] \in [Lanes -> Byte] /\ cache'[b] \in [Lanes -> Byte]
  BY DEF ReadInv, DrainInv, TypeOK, PipeTypeOK, Memory
<1>2. IsStored(b)' = \E i \in EvIdx : evicted'[i].valid /\ evicted'[i].block = b
  BY DEF IsStored
<1>3. ASSUME NEW i \in EvIdx, evicted'[i].valid, evicted'[i].block = b
      PROVE  EvictedAt(b)' = Placed(evicted'[i])
  <2>1. EntryOf(b)' = CHOOSE j \in EvIdx : evicted'[j].valid /\ evicted'[j].block = b
    BY DEF EntryOf
  <2>2. EntryOf(b)' = i  BY <1>3, <2>1 DEF DrainInv, OneEntryPerBlock
  <2> QED  BY <1>2, <1>3, <2>2 DEF EvictedAt, Placed, IsMMIO
<1>4. ASSUME \A i \in EvIdx : ~(evicted'[i].valid /\ evicted'[i].block = b)
      PROVE  EvictedAt(b)' = NoBytes
  BY <1>2, <1>4 DEF EvictedAt, NoBytes
<1>5. CASE ~IsStored(b)
  <2>1. EvictedAt(b) = NoBytes  BY <1>5 DEF EvictedAt
  <2>2. \A i \in EvIdx : ~(evicted[i].valid /\ evicted[i].block = b)  BY <1>5 DEF IsStored
  <2>3. cache'[b] = cache[b]  BY <2>2, CacheLeftAlone
  <2>4. CASE Inserts /\ fusedUOp_r.block = b
    <3> DEFINE i == EvInsert
    <3>1. i \in EvIdx /\ Merged(i)  BY <2>4, EvInsertChoice DEF Merged
    <3> HIDE DEF i
    <3>2. /\ evicted'[i].valid /\ evicted'[i].block = b
          /\ evicted[i].valid => evicted[i].block = b
      BY <2>4, <3>1, MergedEntry
    <3>3. ~evicted[i].valid  BY <2>2, <3>1, <3>2
    <3>4. evicted'[i].bytes = fusedUOp_r.bytes /\ evicted'[i].word = fusedUOp_r.word
      BY <3>1, <3>3, MergedInto DEF ReadInv
    <3>5. Placed(evicted'[i]) = Placed(fusedUOp_r)
      BY <2>4, <3>2, <3>4, PlacedSame
    <3>6. EvictedAt(b)' = Placed(fusedUOp_r)  BY <1>3, <3>1, <3>2, <3>5
    <3>7. Entering(b) = Placed(fusedUOp_r)  BY <2>4 DEF Entering
    <3> QED  BY <1>1, <2>1, <2>3, <3>6, <3>7 DEF Over, NoBytes
  <2>5. CASE ~(Inserts /\ fusedUOp_r.block = b)
    <3>1. ASSUME NEW i \in EvIdx, evicted'[i].valid, evicted'[i].block = b
          PROVE  FALSE
      <4>1. CASE Merged(i)
        BY <2>5, <3>1, <4>1, MergedEntry DEF Merged
      <4>2. CASE ~Merged(i)
        BY <2>2, <3>1, <4>2, OtherEntry DEF ReadInv, DrainInv
      <4> QED  BY <4>1, <4>2
    <3>2. EvictedAt(b)' = NoBytes  BY <1>4, <3>1
    <3>3. Entering(b) = NoBytes  BY <2>5 DEF Entering
    <3> QED  BY <1>1, <2>1, <2>3, <3>2, <3>3 DEF Over, NoBytes
  <2> QED  BY <2>4, <2>5
<1>6. CASE IsStored(b)
  <2>1. PICK i \in EvIdx : evicted[i].valid /\ evicted[i].block = b  BY <1>6 DEF IsStored
  <2>2. EvictedAt(b) = Placed(evicted[i])
    BY <2>1, EntryIs DEF EvictedAt, ReadInv, DrainInv
  <2>3. \A l \in Lanes : cache'[b][l] = cache[b][l] \/ Placed(evicted[i])[l] # NoByte
    BY <2>1, CacheUnderEntry
  <2>4. CASE Merged(i)
    <3>1. Entering(b) = Placed(fusedUOp_r) /\ ~IsMMIO(fusedUOp_r) /\ fusedUOp_r.block = b
      BY <2>1, <2>4, MergedEntry, MergedInto DEF Entering, Merged, ReadInv
    <3>2. /\ evicted'[i].valid /\ evicted'[i].block = b
          /\ evicted'[i].bytes = Over(fusedUOp_r.bytes, evicted[i].bytes)
      BY <2>4, <3>1, MergedEntry, MergedInto DEF ReadInv
    <3>3. /\ Placed(fusedUOp_r) = fusedUOp_r.bytes
          /\ Placed(evicted[i]) = evicted[i].bytes
          /\ Placed(evicted'[i]) = evicted'[i].bytes
      BY <2>1, <3>1, <3>2 DEF Placed, IsMMIO
    <3>4. EvictedAt(b)' = Over(Entering(b), EvictedAt(b))
      BY <1>3, <2>2, <3>1, <3>2, <3>3
    <3> QED  BY <2>2, <2>3, <3>4 DEF Over
  <2>5. CASE ~Merged(i)
    <3>1. ~(Inserts /\ fusedUOp_r.block = b)
      BY <2>1, <2>5, EvInsertChoice DEF Merged, Matches, ReadInv, DrainInv, OneEntryPerBlock
    <3>2. Entering(b) = NoBytes  BY <3>1 DEF Entering
    <3>3. evicted'[i].block = b /\ evicted'[i].word = evicted[i].word
      BY <2>1, <2>5, OtherEntry, KeptEntry DEF ReadInv, DrainInv
    <3>4. CASE ~(Answered(i) /\ ~stAck_r.fail)
      <4>1. evicted'[i].valid /\ evicted'[i].bytes = evicted[i].bytes
        BY <2>1, <2>5, <3>4, KeptEntry DEF ReadInv, DrainInv
      <4>2. Placed(evicted'[i]) = Placed(evicted[i])
        BY <2>1, <3>3, <4>1, PlacedSame
      <4>3. EvictedAt(b)' = EvictedAt(b)  BY <1>3, <2>2, <3>3, <4>1, <4>2
      <4> QED  BY <2>2, <2>3, <3>2, <4>3 DEF Over, NoBytes
    <3>5. CASE Answered(i) /\ ~stAck_r.fail
      <4>1. ASSUME NEW j \in EvIdx, evicted'[j].valid, evicted'[j].block = b
            PROVE  FALSE
        <5>1. CASE Merged(j)
          BY <3>1, <4>1, <5>1, MergedEntry DEF Merged
        <5>2. CASE ~Merged(j)
          <6>1. evicted[j].valid /\ evicted[j].block = b
            BY <4>1, <5>2, OtherEntry DEF ReadInv, DrainInv
          <6>2. j = i  BY <2>1, <6>1 DEF ReadInv, DrainInv, OneEntryPerBlock
          <6> QED  BY <2>5, <3>5, <4>1, <6>2, KeptEntry DEF ReadInv, DrainInv
        <5> QED  BY <5>1, <5>2
      <4>2. EvictedAt(b)' = NoBytes  BY <1>4, <4>1
      <4>3. \A j \in EvIdx : evicted[j].valid /\ evicted[j].block = b => Answered(j)
        BY <2>1, <3>5 DEF ReadInv, DrainInv, OneEntryPerBlock
      <4>4. cache'[b] = cache[b]  BY <4>3, CacheLeftAlone
      <4>5. \A l \in Lanes : \/ Placed(evicted[i])[l] = NoByte
                             \/ Placed(evicted[i])[l] = cache[b][l]
        BY <2>1, <3>5 DEF ReadInv, AnswerIsWritten, Written
      <4> QED  BY <2>2, <3>2, <4>2, <4>4, <4>5 DEF Over, NoBytes
    <3> QED  BY <3>4, <3>5
  <2> QED  BY <2>4, <2>5
<1>7. QED  BY <1>5, <1>6

\* A store to a device keeps its word, and is not shifted.
LEMMA DeviceImage ==
  ASSUME NEW u \in SQ_UOp, IsMMIO(u)
  PROVE  Placed(FuseBase(u)) = ImageAt(u, u.word)
<1>1. FuseBase(u).bytes = ImageAt(u, 0) /\ FuseBase(u).word = u.word
  BY DEF FuseBase, Uncached
<1>2. Placed(FuseBase(u)) = [l \in Lanes |-> IF l[1] = u.word
                                             THEN ImageAt(u, 0)[<<0, l[2]>>] ELSE NoByte]
  BY <1>1 DEF FuseBase, Placed, IsMMIO
<1>3. ASSUME NEW l \in Lanes
      PROVE  ImageAt(u, 0)[<<0, l[2]>>] = IF l[2] \in u.wmask THEN u.val ELSE NoByte
  <2>1. 0 \in Words  BY StoreTypesAssumption, SMT DEF Words
  <2>2. <<0, l[2]>> \in Lanes  BY <2>1 DEF Lanes
  <2> QED  BY <2>2 DEF ImageAt
<1> QED  BY <1>2, <1>3 DEF ImageAt

\* One store that is taken over.
LEMMA TakenImage ==
  ASSUME NoManagement, NEW u \in Stores
  PROVE  Placed(FuseBase(u)) = ImageAt(u, u.word)
<1>1. u \in SQ_UOp /\ ~IsMgmt(u)  BY StoreDrainAssumption DEF NoManagement
<1>2. FuseBase(u).block = u.block  BY DEF FuseBase
<1>3. CASE ~IsMMIO(u)
  <2>1. FuseBase(u).bytes = ImageAt(u, u.word)
    BY <1>1, <1>3 DEF FuseBase, Uncached
  <2> QED  BY <1>2, <1>3, <2>1 DEF Placed, IsMMIO
<1>4. CASE IsMMIO(u)
  BY <1>1, <1>4, DeviceImage
<1>5. QED  BY <1>3, <1>4

\* The waiting block after the cycle, for a load.
LEMMA WaitingRead ==
  ASSUME ReadInv, NoManagement, NEW stStall \in BOOLEAN, NEW hit \in BOOLEAN, Tick(stStall, hit),
         NEW b \in Blocks, NEW m
  PROVE  /\ Taken(Uops) = 0 =>
              Over(WaitingAt(b)', Over(Entering(b), m)) = Over(WaitingAt(b), m)
         /\ Taken(Uops) # 0 => Entering(b) = WaitingAt(b)
         /\ Taken(Uops) = 1 =>
              WaitingAt(b)' = IF sqOut[1].block = b THEN ImageAt(sqOut[1], sqOut[1].word) ELSE NoBytes
         /\ Taken(Uops) = 2 =>
              /\ sqOut[2].block = sqOut[1].block
              /\ WaitingAt(b)' =
                   IF sqOut[1].block = b
                   THEN Over(ImageAt(sqOut[2], sqOut[2].word), ImageAt(sqOut[1], sqOut[1].word))
                   ELSE NoBytes
<1>1. fusedUOp_r' = IF Accepts(Uops) THEN Fused(Uops)
                    ELSE IF Inserts THEN NoFused ELSE fusedUOp_r
  BY DEF Tick, SQBClock
<1>2. WaitingAt(b)' = IF fusedUOp_r' # NoFused /\ fusedUOp_r'.block = b
                      THEN Placed(fusedUOp_r') ELSE NoBytes
  BY DEF WaitingAt, Placed, IsMMIO, NoBytes
<1>3. Taken(Uops) = 0 <=> ~Accepts(Uops)  BY SMT DEF Taken
<1>4. CASE ~Accepts(Uops)
  <2>1. CASE Inserts
    <3>1. Entering(b) = WaitingAt(b)  BY <2>1 DEF Entering, WaitingAt, Inserts
    <3>2. WaitingAt(b)' = NoBytes  BY <1>1, <1>2, <1>4, <2>1
    <3> QED  BY <1>3, <1>4, <3>1, <3>2, SMT DEF Over, NoBytes, Taken
  <2>2. CASE ~Inserts
    <3>1. Entering(b) = NoBytes  BY <2>2 DEF Entering
    <3>2. WaitingAt(b)' = WaitingAt(b)  BY <1>1, <1>2, <1>4, <2>2 DEF WaitingAt
    <3> QED  BY <1>3, <1>4, <3>1, <3>2, SMT DEF Over, NoBytes, Taken
  <2> QED  BY <2>1, <2>2
<1>5. CASE Accepts(Uops)
  <2>1. Entering(b) = WaitingAt(b)
    BY <1>5 DEF Accepts, Entering, WaitingAt, Inserts
  <2>2. /\ Uops[1] # NoStore /\ Uops[1] = sqOut[1] /\ Uops[1] \in Stores
        /\ Uops[2] # NoStore => Uops[2] = sqOut[2] /\ Uops[2] \in Stores
    <3>1. 1 \in 1 .. 2 /\ 2 \in 1 .. 2  BY SMT
    <3> QED  BY <1>5, <3>1, OfferedStores DEF Accepts, ReadInv, PlainStores
  <2>3. Fused(Uops) \in FusedUOp  BY <2>2, FusedType DEF ReadInv, DrainInv
  <2>4. fusedUOp_r' # NoFused /\ fusedUOp_r' = Fused(Uops)  BY <1>1, <1>5, <2>3, InvalidAssumption
  <2>5. CASE ~FusesWith(Uops[2], Uops[1])
    <3>1. Taken(Uops) = 1  BY <1>5, <2>5 DEF Taken
    <3>2. Fused(Uops) = FuseBase(Uops[1])  BY <2>5 DEF Fused
    <3>3. Fused(Uops).block = sqOut[1].block  BY <2>2, <3>2 DEF FuseBase
    <3>4. Placed(Fused(Uops)) = ImageAt(sqOut[1], sqOut[1].word)
      BY <2>2, <3>2, TakenImage
    <3> QED  BY <1>2, <2>1, <2>4, <3>1, <3>3, <3>4
  <2>6. CASE FusesWith(Uops[2], Uops[1])
    <3>1. Taken(Uops) = 2  BY <1>5, <2>6 DEF Taken
    <3>2. Uops[2] = sqOut[2] /\ ~Uncached(sqOut[1]) /\ sqOut[2].block = sqOut[1].block
      BY <2>2, <2>6 DEF FusesWith
    <3>3. /\ Fused(Uops).block = sqOut[1].block
          /\ Fused(Uops).bytes = Over(ImageAt(sqOut[2], sqOut[2].word), ImageAt(sqOut[1], sqOut[1].word))
      BY <2>2, <2>6, <3>2 DEF Fused, FuseBase
    <3>4. Placed(Fused(Uops)) = Fused(Uops).bytes
      BY <3>2, <3>3 DEF Placed, Uncached, IsMMIO
    <3> QED  BY <1>2, <2>1, <2>4, <3>1, <3>2, <3>3, <3>4
  <2> QED  BY <2>5, <2>6
<1>6. QED  BY <1>4, <1>5

-----------------------------------------------------------------------------
(* The steps of OrderedMemory. *)

LEMMA SameTypes ==
  /\ OM!SQ_UOp = SQ_UOp /\ OM!Memory = Memory
  /\ \A m, u : OM!Apply(m, u) = Apply(m, u)
  BY DEF OM!SQ_UOp, SQ_UOp, OM!Memory, Memory, OM!Words, Words, OM!Lanes, Lanes, OM!Byte, Byte,
         OM!Apply, Apply, OM!Over, Over, OM!ImageAt, ImageAt

\* No store, one store, or two stores one after the other.
LEMMA FoldStores ==
  ASSUME NEW m, NEW s, DOMAIN s \in {{}, {1}, {1, 2}}
  PROVE  /\ DOMAIN s = {} => OM!FoldLeft(OM!Apply, m, s) = m
         /\ DOMAIN s = {1} => OM!FoldLeft(OM!Apply, m, s) = Apply(m, s[1])
         /\ DOMAIN s = {1, 2} => OM!FoldLeft(OM!Apply, m, s) = Apply(Apply(m, s[1]), s[2])
<1> DEFINE it[S \in SUBSET DOMAIN s] ==
             IF S = {} THEN m ELSE LET x == OM!Max(S) IN OM!Apply(it[S \ {x}], s[x])
           Step(f, S) ==
             IF S = {} THEN m ELSE LET x == OM!Max(S) IN OM!Apply(f[S \ {x}], s[x])
<1>1. OM!FoldLeft(OM!Apply, m, s) = it[DOMAIN s]
  BY DEF OM!FoldLeft, OM!MapThenFoldSet
<1>2. OM!Max({1}) = 1 /\ OM!Max({2}) = 2 /\ OM!Max({1, 2}) = 2
  <2>1. OM!Max({1}) = 1  BY SMT DEF OM!Max
  <2>2. OM!Max({2}) = 2  BY SMT DEF OM!Max
  <2>3. OM!Max({1, 2}) = 2  BY SMT DEF OM!Max
  <2> QED  BY <2>1, <2>2, <2>3
<1>3. /\ {1} \ {1} = {} /\ {2} \ {2} = {} /\ {1, 2} \ {2} = {1}
      /\ {1} # {2} /\ {1, 2} # {1} /\ {1, 2} # {2} /\ {1} # {} /\ {2} # {} /\ {1, 2} # {}
  <2>1. {1} \ {1} = {} /\ {2} \ {2} = {} /\ {1, 2} \ {2} = {1}  OBVIOUS
  <2>2. {1} # {2} /\ {1, 2} # {1} /\ {1, 2} # {2}  OBVIOUS
  <2> QED  BY <2>1, <2>2
<1>4. \E f : f = [S \in SUBSET DOMAIN s |-> Step(f, S)]
  <2> DEFINE w == [S \in SUBSET DOMAIN s |->
                     IF S = {} THEN m ELSE IF S = {1} THEN OM!Apply(m, s[1])
                     ELSE IF S = {2} THEN OM!Apply(m, s[2])
                     ELSE OM!Apply(OM!Apply(m, s[1]), s[2])]
  <2>1. ASSUME NEW S \in SUBSET DOMAIN s  PROVE w[S] = Step(w, S)
    <3>1. S = {} \/ S = {1} \/ S = {2} \/ S = {1, 2}  OBVIOUS
    <3>2. /\ S = {} => w[S] = m
          /\ S = {1} => w[{}] = m /\ w[S] = OM!Apply(m, s[1])
          /\ S = {2} => w[{}] = m /\ w[S] = OM!Apply(m, s[2])
          /\ S = {1, 2} => /\ w[{1}] = OM!Apply(m, s[1])
                           /\ w[S] = OM!Apply(OM!Apply(m, s[1]), s[2])
      BY <1>3
    <3> HIDE DEF w
    <3> QED  BY <1>2, <1>3, <3>1, <3>2
  <2>2. w = [S \in SUBSET DOMAIN s |-> w[S]]  OBVIOUS
  <2> HIDE DEF w, Step
  <2>3. w = [S \in SUBSET DOMAIN s |-> Step(w, S)]  BY <2>1, <2>2
  <2> QED  BY <2>3
<1>5. it = [S \in SUBSET DOMAIN s |-> Step(it, S)]  BY <1>4
<1> HIDE DEF it
<1>6. \A S \in SUBSET DOMAIN s : it[S] = Step(it, S)
  <2> HIDE DEF Step
  <2> QED  BY <1>5
<1>7. it[{}] = m  BY <1>6
<1>8. 1 \in DOMAIN s => it[{1}] = OM!Apply(m, s[1])
  <2> SUFFICES ASSUME 1 \in DOMAIN s  PROVE it[{1}] = OM!Apply(m, s[1])
    OBVIOUS
  <2>1. it[{1}] = Step(it, {1})  BY <1>6
  <2>2. Step(it, {1}) = OM!Apply(it[{1} \ {1}], s[1])  BY <1>2, <1>3
  <2> QED  BY <1>3, <1>7, <2>1, <2>2
<1>9. DOMAIN s = {1, 2} => it[{1, 2}] = OM!Apply(it[{1}], s[2])
  <2> SUFFICES ASSUME DOMAIN s = {1, 2}  PROVE it[{1, 2}] = OM!Apply(it[{1}], s[2])
    OBVIOUS
  <2>1. it[{1, 2}] = Step(it, {1, 2})  BY <1>6
  <2>2. Step(it, {1, 2}) = OM!Apply(it[{1, 2} \ {2}], s[2])  BY <1>2, <1>3
  <2> QED  BY <1>3, <2>1, <2>2
<1>10. QED  BY <1>1, <1>7, <1>8, <1>9, SameTypes

\* The queue loses what was taken, and may get further stores.
LEMMA QueueStep ==
  ASSUME TypeOK, TypeOK', NEW new \in Seq(SQ_UOp), Refill(new)
  PROVE  LET k == Taken(Uops)
         IN  /\ k \in 0 .. Len(sqOut)
             /\ sqOut' \in Seq(OM!SQ_UOp)
             /\ OM!IsPrefix(SubSeq(sqOut, k + 1, Len(sqOut)), sqOut')
<1> DEFINE k == Taken(Uops)
           s == SubSeq(sqOut, k + 1, Len(sqOut))
<1>1. k \in Nat /\ k <= Len(sqOut)  BY UopsType
<1>2. sqOut \in Seq(SQ_UOp) /\ Len(sqOut) \in Nat  BY DEF TypeOK
<1>3. s \in Seq(SQ_UOp)  BY <1>1, <1>2, SMT
<1>4. sqOut' = s \o new  BY DEF Refill
<1>5. sqOut' \in Seq(OM!SQ_UOp)  BY SameTypes DEF TypeOK
<1> HIDE DEF s
<1>6. Len(s) <= Len(s \o new) /\ SubSeq(s, 1, Len(s)) = SubSeq(s \o new, 1, Len(s))
  BY <1>3, SMT
<1>7. OM!IsPrefix(s, sqOut')  BY <1>4, <1>6 DEF OM!IsPrefix
<1>8. QED  BY <1>1, <1>2, <1>5, <1>7, SMT DEF s

\* A lookup is a function of blocks to bytes.
LEMMA LookupType ==
  ASSUME LookupReads
  PROVE  /\ LookupThrough(cache) = [b \in Blocks |-> LookupThrough(cache)[b]]
         /\ \A b \in Blocks : /\ LookupThrough(cache)[b] = ReadAt(b)
                              /\ Over(NoBytes, ReadAt(b)) = ReadAt(b)
<1>1. LookupThrough(cache) = [b \in Blocks |-> LookupThrough(cache)[b]]
  BY DEF LookupThrough
<1>2. ASSUME NEW b \in Blocks  PROVE Over(NoBytes, ReadAt(b)) = ReadAt(b)
  BY DEF ReadAt, Over, NoBytes
<1>3. QED  BY <1>1, <1>2 DEF LookupReads

\* What a store does to one block.
LEMMA ApplyAt ==
  ASSUME NEW m, m = [b \in Blocks |-> m[b]], NEW u \in SQ_UOp
  PROVE  /\ Apply(m, u) = [b \in Blocks |-> Apply(m, u)[b]]
         /\ \A b \in Blocks : Apply(m, u)[b] = IF u.block = b THEN Over(ImageAt(u, u.word), m[b]) ELSE m[b]
<1>1. u.block \in Blocks  BY DEF SQ_UOp
<1>2. Apply(m, u) = [m EXCEPT ![u.block] = Over(ImageAt(u, u.word), m[u.block])]  BY DEF Apply
<1> DEFINE o == Over(ImageAt(u, u.word), m[u.block])
<1> HIDE DEF o
<1>3. Apply(m, u) = [b \in Blocks |-> IF u.block = b THEN o ELSE m[b]]
  BY <1>1, <1>2 DEF o
<1>4. QED  BY <1>3 DEF o

\* The stores that are taken over take effect, in order, and nothing else does.
LEMMA MemoryStep ==
  ASSUME ReadInv, ReadInv', NoManagement,
         NEW stStall \in BOOLEAN, NEW hit \in BOOLEAN, Tick(stStall, hit)
  PROVE  LookupThrough(cache)'
           = OM!FoldLeft(OM!Apply, LookupThrough(cache), SubSeq(sqOut, 1, Taken(Uops)))
<1> DEFINE V == LookupThrough(cache)
           s == SubSeq(sqOut, 1, Taken(Uops))
<1>1. LookupReads  BY LookupStep DEF ReadInv
<1>2. LookupReads'
  <2>1. DrainInv'  BY DEF ReadInv
  <2> QED  BY <2>1, LookupStep, PTL
<1>3. /\ V = [b \in Blocks |-> V[b]]
      /\ \A b \in Blocks : V[b] = ReadAt(b) /\ Over(NoBytes, V[b]) = V[b]
  BY <1>1, LookupType
<1>4. /\ V' = [b \in Blocks |-> V'[b]]
      /\ \A b \in Blocks : V'[b] = ReadAt(b)'
  <2>1. V' = [b \in Blocks |-> V'[b]]  BY DEF LookupThrough
  <2> QED  BY <1>2, <2>1 DEF LookupReads
<1>5. ASSUME NEW b \in Blocks
      PROVE  V'[b] = Over(WaitingAt(b)', Over(Entering(b), Over(EvictedAt(b), cache[b])))
  <2>1. ReadAt(b)' = Over(WaitingAt(b)', Over(EvictedAt(b)', cache'[b]))
    BY DEF ReadAt, Over
  <2>2. Over(EvictedAt(b)', cache'[b]) = Over(Entering(b), Over(EvictedAt(b), cache[b]))
    BY EntriesRead DEF ReadInv
  <2> HIDE DEF V
  <2> QED  BY <1>4, <2>1, <2>2
<1>6. ASSUME NEW b \in Blocks
      PROVE  /\ Taken(Uops) = 0 => V'[b] = V[b]
             /\ Taken(Uops) # 0 => V'[b] = Over(WaitingAt(b)', V[b])
  <2>1. /\ Taken(Uops) = 0 =>
             Over(WaitingAt(b)', Over(Entering(b), Over(EvictedAt(b), cache[b])))
               = Over(WaitingAt(b), Over(EvictedAt(b), cache[b]))
        /\ Taken(Uops) # 0 => Entering(b) = WaitingAt(b)
    BY WaitingRead
  <2>2. V[b] = Over(WaitingAt(b), Over(EvictedAt(b), cache[b]))  BY <1>3 DEF ReadAt
  <2> HIDE DEF V
  <2> QED  BY <1>5, <2>1, <2>2
<1>7. /\ sqOut \in Seq(SQ_UOp) /\ Len(sqOut) \in Nat
      /\ Taken(Uops) \in {0, 1, 2} /\ Taken(Uops) <= Len(sqOut)
  <2>1. sqOut \in Seq(SQ_UOp) /\ Len(sqOut) \in Nat  BY DEF ReadInv, DrainInv, TypeOK
  <2>2. Taken(Uops) <= Len(sqOut)  BY UopsType DEF ReadInv, DrainInv
  <2> QED  BY <2>1, <2>2 DEF Taken
<1> HIDE DEF V
<1>8. CASE Taken(Uops) = 0
  <2>1. DOMAIN s = {}  BY <1>7, <1>8, SMT
  <2> HIDE DEF s
  <2>2. OM!FoldLeft(OM!Apply, V, s) = V  BY <2>1, FoldStores
  <2>3. V' = V  BY <1>3, <1>4, <1>6, <1>8
  <2> QED  BY <2>2, <2>3 DEF V, s
<1>9. CASE Taken(Uops) = 1
  <2> DEFINE u == sqOut[1]
  <2>1. DOMAIN s = {1} /\ s[1] = u /\ u \in SQ_UOp  BY <1>7, <1>9, SMT
  <2> HIDE DEF s, u
  <2>2. OM!FoldLeft(OM!Apply, V, s) = Apply(V, u)  BY <2>1, FoldStores
  <2>3. ASSUME NEW b \in Blocks  PROVE V'[b] = Apply(V, u)[b]
    <3>1. WaitingAt(b)' = IF u.block = b THEN ImageAt(u, u.word) ELSE NoBytes
      BY <1>9, WaitingRead DEF u
    <3>2. V'[b] = Over(WaitingAt(b)', V[b])  BY <1>6, <1>9
    <3>3. Apply(V, u)[b] = IF u.block = b THEN Over(ImageAt(u, u.word), V[b]) ELSE V[b]
      BY <1>3, <2>1, ApplyAt
    <3> QED  BY <1>3, <3>1, <3>2, <3>3
  <2>4. Apply(V, u) = [b \in Blocks |-> Apply(V, u)[b]]  BY <1>3, <2>1, ApplyAt
  <2>5. V' = Apply(V, u)  BY <1>4, <2>3, <2>4
  <2> QED  BY <2>2, <2>5 DEF V, s
<1>10. CASE Taken(Uops) = 2
  <2> DEFINE u == sqOut[1]
             v == sqOut[2]
             W == Apply(V, u)
  <2>1. DOMAIN s = {1, 2} /\ s[1] = u /\ s[2] = v /\ u \in SQ_UOp /\ v \in SQ_UOp
    BY <1>7, <1>10, SMT
  <2>2. /\ W = [b \in Blocks |-> W[b]]
        /\ \A b \in Blocks : W[b] = IF u.block = b THEN Over(ImageAt(u, u.word), V[b]) ELSE V[b]
    <3> HIDE DEF u
    <3> QED  BY <1>3, <2>1, ApplyAt
  <2> HIDE DEF s, u, v, W
  <2>3. OM!FoldLeft(OM!Apply, V, s) = Apply(W, v)  BY <2>1, FoldStores DEF W
  <2>4. ASSUME NEW b \in Blocks  PROVE V'[b] = Apply(W, v)[b]
    <3>1. /\ v.block = u.block
          /\ WaitingAt(b)' = IF u.block = b
                             THEN Over(ImageAt(v, v.word), ImageAt(u, u.word)) ELSE NoBytes
      BY <1>10, WaitingRead DEF u, v
    <3>2. V'[b] = Over(WaitingAt(b)', V[b])  BY <1>6, <1>10
    <3>3. Apply(W, v)[b] = IF v.block = b THEN Over(ImageAt(v, v.word), W[b]) ELSE W[b]
      BY <2>1, <2>2, ApplyAt
    <3>4. Over(Over(ImageAt(v, v.word), ImageAt(u, u.word)), V[b])
            = Over(ImageAt(v, v.word), Over(ImageAt(u, u.word), V[b]))
      BY DEF Over
    <3> QED  BY <1>3, <2>2, <3>1, <3>2, <3>3, <3>4
  <2>5. Apply(W, v) = [b \in Blocks |-> Apply(W, v)[b]]  BY <2>1, <2>2, ApplyAt
  <2>6. V' = Apply(W, v)  BY <1>4, <2>4, <2>5
  <2> QED  BY <2>3, <2>6 DEF V, s
<1>11. QED  BY <1>7, <1>8, <1>9, <1>10

\* After reset a load reads the cache.
LEMMA InitOrdered == Init => OM!OMInit
<1> SUFFICES ASSUME Init  PROVE OM!OMInit
  OBVIOUS
<1>1. DrainInv  BY InitDrain
<1>2. LookupReads  BY <1>1, LookupStep
<1>3. cache \in Memory  BY <1>1 DEF DrainInv, TypeOK, PipeTypeOK
<1>4. ASSUME NEW b \in Blocks  PROVE LookupThrough(cache)[b] = cache[b]
  <2>1. EvictedAt(b) = NoBytes /\ WaitingAt(b) = NoBytes
    BY DEF Init, SQBInit, EvictedAt, IsStored, WaitingAt
  <2>2. cache[b] \in [Lanes -> Byte]  BY <1>3 DEF Memory
  <2>3. ReadAt(b) = cache[b]  BY <2>1, <2>2 DEF ReadAt, Over, NoBytes
  <2> QED  BY <1>2, <2>3 DEF LookupReads
<1>5. LookupThrough(cache) = [b \in Blocks |-> LookupThrough(cache)[b]]
  BY <1>2, LookupType
<1>6. LookupThrough(cache) = cache  BY <1>3, <1>4, <1>5 DEF Memory
<1>7. sqOut = << >>  BY DEF Init
<1>8. QED  BY <1>3, <1>6, <1>7, SameTypes DEF OM!OMInit

\* Every clock cycle is a step of OrderedMemory, or changes nothing that a load sees.
LEMMA StepOrdered ==
  ASSUME NoManagement, ReadInv, ReadInv', [Next]_vars
  PROVE  [OM!OMNext]_<<sqOut, LookupThrough(cache)>>
<1>1. CASE Next
  <2>1. PICK new \in Arrivals, stStall \in BOOLEAN, hit \in BOOLEAN : Cycle(new, stStall, hit)
    BY <1>1 DEF Next
  <2>2. Tick(stStall, hit) /\ Refill(new)  BY <2>1 DEF Cycle, Tick
  <2>3. new \in Seq(SQ_UOp)
    <3>1. PICK n \in 0 .. 2 : new \in [1 .. n -> Stores]  BY DEF Arrivals
    <3>2. new \in [1 .. n -> SQ_UOp]  BY <3>1, StoreDrainAssumption
    <3> QED  BY <3>2, SMT
  <2>4. /\ Taken(Uops) \in 0 .. Len(sqOut)
        /\ sqOut' \in Seq(OM!SQ_UOp)
        /\ OM!IsPrefix(SubSeq(sqOut, Taken(Uops) + 1, Len(sqOut)), sqOut')
    BY <2>2, <2>3, QueueStep DEF ReadInv, DrainInv
  <2>5. LookupThrough(cache)'
          = OM!FoldLeft(OM!Apply, LookupThrough(cache), SubSeq(sqOut, 1, Taken(Uops)))
    BY <2>2, MemoryStep
  <2>6. OM!Perform(Taken(Uops))  BY <2>4, <2>5 DEF OM!Perform
  <2> QED  BY <2>4, <2>6 DEF OM!OMNext
<1>2. CASE UNCHANGED vars
  <2>1. /\ evicted' = evicted /\ fusedUOp_r' = fusedUOp_r /\ cache' = cache /\ sqOut' = sqOut
    BY <1>2 DEF vars, sqbVars, pipeVars
  <2>2. LookupReads  BY LookupStep DEF ReadInv
  <2>3. LookupReads'
    <3>1. DrainInv'  BY DEF ReadInv
    <3> QED  BY <3>1, LookupStep, PTL
  <2>4. LookupThrough(cache)' = [b \in Blocks |-> LookupThrough(cache)'[b]]
    BY DEF LookupThrough
  <2>5. ASSUME NEW b \in Blocks  PROVE ReadAt(b)' = ReadAt(b)
    <3>1. EvictedAt(b)' = EvictedAt(b)
      BY <2>1 DEF EvictedAt, IsStored, EntryOf, Placed, IsMMIO, NoBytes
    <3>2. WaitingAt(b)' = WaitingAt(b)
      BY <2>1 DEF WaitingAt, Placed, IsMMIO, NoBytes
    <3>3. ReadAt(b)' = Over(WaitingAt(b)', Over(EvictedAt(b)', cache'[b]))
      BY DEF ReadAt, Over
    <3> QED  BY <2>1, <3>1, <3>2, <3>3 DEF ReadAt
  <2>6. \A b \in Blocks : LookupThrough(cache)'[b] = LookupThrough(cache)[b]
    BY <2>2, <2>3, <2>5 DEF LookupReads
  <2>7. LookupThrough(cache) = [b \in Blocks |-> LookupThrough(cache)[b]]
    BY <2>2, LookupType
  <2>8. LookupThrough(cache)' = LookupThrough(cache)  BY <2>4, <2>6, <2>7
  <2> QED  BY <2>1, <2>8
<1>3. QED  BY <1>1, <1>2

(***************************************************************************)
(* Loads see committed stores in program order, from the cycle in which    *)
(* the backend takes them, and never an older value again, whatever the    *)
(* cache refuses and however stores are fused, merged and issued anew      *)
(* (StoreQueueBackend.sv).  Management operations lose stores (finding 2). *)
(***************************************************************************)
THEOREM OrderedMemoryCorrect ==
  ASSUME NumNonces >= 5, NoManagement
  PROVE  Spec => ImplementsOrderedMemory
<1>1. Spec => []ReadInv  BY ReadInvariant
<1>2. Init => OM!OMInit  BY InitOrdered
<1>3. ReadInv /\ ReadInv' /\ [Next]_vars => [OM!OMNext]_<<sqOut, LookupThrough(cache)>>
  BY StepOrdered
<1>4. QED  BY <1>1, <1>2, <1>3, PTL DEF Spec, ImplementsOrderedMemory, OM!OMSpec

-----------------------------------------------------------------------------
(***************************************************************************)
(* External devices.  What is owed to them is in two places at most: one   *)
(* entry that was not written yet, and the waiting block.                  *)
(***************************************************************************)
Unwritten(i) ==
  /\ evicted[i].valid /\ evicted[i].block \in ExtMMIO
  /\ ~evicted[i].issued \/ Held(1, i)

InEvicted == \E i \in EvIdx : Unwritten(i)
Waiting   == fusedUOp_r # NoFused /\ fusedUOp_r.block \in ExtMMIO

OwedIsKept ==
  /\ Len(owed) = (IF InEvicted THEN 1 ELSE 0) + (IF Waiting THEN 1 ELSE 0)
  /\ \A i \in EvIdx : Unwritten(i) => Writes(evicted[i], owed[1])
  /\ Waiting => Writes(fusedUOp_r, owed[Len(owed)])

\* What a device has done is not answered negatively.
DeviceNotRefused == \A i \in EvIdx : Held(4, i) /\ IsMMIO(evicted[i]) => ~stAck_r.fail

OwedInv == DrainInv /\ FreeIsEmpty /\ DeviceNotRefused /\ OwedIsKept

LEMMA InitOwed == Init => OwedInv
<1> SUFFICES ASSUME Init PROVE OwedInv  OBVIOUS
<1>1. DrainInv  BY InitDrain
<1>2. \A i \in EvIdx : ~evicted[i].valid /\ evicted[i].bytes = NoBytes
  BY DEF Init, SQBInit
<1>3. stAck_r = NoAck /\ fusedUOp_r = NoFused /\ owed = << >>  BY DEF Init, SQBInit
<1>4. DeviceNotRefused  BY <1>3, SMT DEF DeviceNotRefused, Held
<1>5. ~InEvicted /\ ~Waiting  BY <1>2, <1>3 DEF InEvicted, Unwritten, Waiting
<1>6. Len(owed) = 0  BY <1>3, SMT
<1>7. OwedIsKept  BY <1>5, <1>6, SMT DEF OwedIsKept, InEvicted
<1>8. QED  BY <1>1, <1>2, <1>4, <1>7 DEF OwedInv, FreeIsEmpty

\* Only one entry for a device is in evicted.
LEMMA UnwrittenAlone ==
  ASSUME DrainInv, NEW i \in EvIdx, Unwritten(i)
  PROVE  \A j \in EvIdx : evicted[j].valid /\ IsMMIO(evicted[j]) => i = j
<1>1. IsMMIO(evicted[i])  BY StoreTypesAssumption DEF Unwritten, IsMMIO
<1>2. QED  BY <1>1 DEF DrainInv, OneDeviceStore, Unwritten

\* The device is written with what is in an unwritten entry.
LEMMA OfferIsUnwritten ==
  ASSUME DrainInv, uopSt # NoStOp, uopSt.block \in ExtMMIO
  PROVE  /\ uopSt.id \in EvIdx
         /\ Held(1, uopSt.id)
         /\ Unwritten(uopSt.id)
         /\ uopSt = StOp(uopSt.id, evicted[uopSt.id])
<1>1. IsMMIO(uopSt)  BY StoreTypesAssumption DEF IsMMIO
<1>2. /\ {i \in EvIdx : evicted[i].valid /\ IsMMIO(evicted[i])} = {uopSt.id}
      /\ uopSt = StOp(uopSt.id, evicted[uopSt.id])
  BY <1>1, DeviceStep DEF DeviceStoresInOrder
<1>3. uopSt.id \in EvIdx /\ evicted[uopSt.id].valid  BY <1>2
<1>4. evicted[uopSt.id].block = uopSt.block  BY <1>2 DEF StOp
<1>5. Held(1, uopSt.id)  BY SMT DEF Held, OpAt
<1>6. QED  BY <1>2, <1>3, <1>4, <1>5 DEF Unwritten

\* Where the four fields of the formula for an entry come from.
LEMMA KeptAsIs ==
  ASSUME TypeOK, NEW stStall \in BOOLEAN, NEW hit \in BOOLEAN, Tick(stStall, hit),
         NEW i \in EvIdx, ~Merged(i), ~Answered(i), ~(Unissued # {} /\ i = ReIssue)
  PROVE  evicted'[i].issued = (evicted[i].issued /\ ~Refused(i, stStall))
<1>1. evicted'[i] = IF Refused(i, stStall) THEN [evicted[i] EXCEPT !.issued = FALSE]
                                           ELSE evicted[i]
  BY DEF Tick, SQBClock, NextEntry, Merged, AfterAnswer
<1>2. evicted[i] \in EQEntry  BY DEF TypeOK, SQBTypeOK
<1>3. QED  BY <1>1, <1>2 DEF EQEntry

\* An entry into which nothing is put is still unwritten unless its operation is accepted.
LEMMA UnwrittenNext ==
  ASSUME NumNonces >= 5, DrainInv, DeviceNotRefused,
         NEW stStall \in BOOLEAN, NEW hit \in BOOLEAN, Tick(stStall, hit),
         NEW i \in EvIdx, ~Merged(i)
  PROVE  /\ Unwritten(i)' <=> Unwritten(i) /\ ~(Held(1, i) /\ ~stStall)
         /\ Unwritten(i)' => StOp(i, evicted'[i]) = StOp(i, evicted[i])
<1>1. CASE ~(evicted[i].valid /\ evicted[i].block \in ExtMMIO)
  BY <1>1, OtherEntry DEF Unwritten, DrainInv
<1>2. CASE evicted[i].valid /\ evicted[i].block \in ExtMMIO /\ ~evicted[i].issued
  <2>1. IsMMIO(evicted[i])  BY <1>2, StoreTypesAssumption DEF IsMMIO
  <2>2. \A k \in 1 .. 4 : ~Held(k, i)
    BY <1>2, <2>1 DEF DrainInv, DeviceIsCurrent, CurrentIsIssued
  <2>3. 1 \in 1 .. 4 /\ 4 \in 1 .. 4  BY SMT
  <2>4. ~Answered(i) /\ ~Held(1, i)  BY <2>2, <2>3, AnsweredIsCurrent DEF DrainInv
  <2>5. ~Refused(i, stStall)  BY <2>4, SMT DEF Refused, Held, OpAt
  <2>6. evicted'[i].valid /\ evicted'[i].block = evicted[i].block
        /\ StOp(i, evicted'[i]) = StOp(i, evicted[i])
    BY <1>2, <2>4, OtherEntry DEF DrainInv
  <2>7. i \in Unissued  BY <1>2 DEF Unissued
  <2>8. CASE i = ReIssue
    <3>1. uopSt' = StOp(i, evicted[i])  BY <2>7, <2>8 DEF Tick, SQBClock, NextUopSt
    <3>2. uopSt' \in ST_UOp  BY <3>1, StOpType DEF DrainInv, TypeOK, SQBTypeOK
    <3>3. uopSt' # NoStOp /\ uopSt'.id = i  BY <3>1, <3>2, InvalidAssumption DEF StOp
    <3>4. Held(1, i)'  BY <3>3, SMT DEF Held, OpAt
    <3> QED  BY <1>2, <2>4, <2>6, <3>4 DEF Unwritten
  <2>9. CASE i # ReIssue
    <3>1. ~evicted'[i].issued  BY <1>2, <2>4, <2>9, KeptAsIs DEF DrainInv
    <3> QED  BY <1>2, <2>4, <2>6, <3>1 DEF Unwritten
  <2> QED  BY <2>8, <2>9
<1>3. CASE evicted[i].valid /\ evicted[i].block \in ExtMMIO /\ evicted[i].issued
  <2>1. IsMMIO(evicted[i])  BY <1>3, StoreTypesAssumption DEF IsMMIO
  <2>2. ~(Unissued # {} /\ i = ReIssue)  BY <1>3, ReIssueChoice
  <2>3. ~Held(1, i)'  BY <2>2, Offer
  <2>4. CASE Held(1, i)
    <3>1. ~Answered(i)
      <4>1. 1 \in 1 .. 3  BY SMT
      <4> QED  BY <2>4, <4>1, AnsweredAlone
    <3>2. Refused(i, stStall) <=> stStall  BY <2>4, SMT DEF Refused, Held, OpAt
    <3>3. evicted'[i].valid /\ evicted'[i].block = evicted[i].block
          /\ StOp(i, evicted'[i]) = StOp(i, evicted[i])
      BY <1>3, <3>1, OtherEntry DEF DrainInv
    <3>4. evicted'[i].issued = ~stStall  BY <1>3, <2>2, <3>1, <3>2, KeptAsIs DEF DrainInv
    <3> QED  BY <1>3, <2>3, <2>4, <3>3, <3>4 DEF Unwritten
  <2>5. CASE ~Held(1, i)
    <3>1. ~Refused(i, stStall)  BY <2>5, SMT DEF Refused, Held, OpAt
    <3>2. CASE Answered(i)
      <4>1. Held(4, i)  BY <3>2, AnsweredIsCurrent DEF DrainInv
      <4>2. ~stAck_r.fail  BY <2>1, <4>1 DEF DeviceNotRefused
      <4>3. ~evicted'[i].valid  BY <3>2, <4>2, KeptEntry DEF DrainInv
      <4> QED  BY <1>3, <2>5, <4>3 DEF Unwritten
    <3>3. CASE ~Answered(i)
      <4>1. evicted'[i].issued  BY <1>3, <3>1, <3>3, OtherEntry DEF DrainInv
      <4> QED  BY <1>3, <2>3, <2>5, <4>1 DEF Unwritten
    <3> QED  BY <3>2, <3>3
  <2> QED  BY <2>4, <2>5
<1>4. QED  BY <1>1, <1>2, <1>3

\* A device store enters an empty entry, and nothing else is owed from evicted.
LEMMA DeviceEnters ==
  ASSUME DrainInv, FreeIsEmpty, NEW stStall \in BOOLEAN, NEW hit \in BOOLEAN,
         Tick(stStall, hit), NEW i \in EvIdx, Merged(i), Waiting
  PROVE  /\ \A j \in EvIdx : ~(evicted[j].valid /\ IsMMIO(evicted[j]))
         /\ Unwritten(i)'
         /\ \A u : Writes(fusedUOp_r, u) => Writes(evicted'[i], u)
<1>1. IsMMIO(fusedUOp_r)  BY StoreTypesAssumption DEF Waiting, IsMMIO
<1>2. \A j \in EvIdx : ~(evicted[j].valid /\ IsMMIO(evicted[j]))
  BY <1>1 DEF Merged, Inserts, MmioOpInEv
<1>3. evicted[i].bytes = NoBytes
  BY <1>1, <1>2, MergedEntry DEF FreeIsEmpty, IsMMIO
<1>4. /\ evicted'[i] = Enqueued(i) /\ evicted'[i].valid
      /\ evicted'[i].block = fusedUOp_r.block /\ evicted'[i].issued = (Unissued = {})
  BY MergedEntry
<1>5. Unwritten(i)'
  <2>1. CASE Unissued = {}
    <3>1. uopSt' = StOp(i, Enqueued(i))  BY <2>1 DEF Tick, SQBClock, NextUopSt, Merged
    <3>2. uopSt' \in ST_UOp
      BY <3>1, EnqueuedType, StOpType DEF DrainInv, Merged
    <3>3. uopSt' # NoStOp /\ uopSt'.id = i  BY <3>1, <3>2, InvalidAssumption DEF StOp
    <3>4. Held(1, i)'  BY <3>3, SMT DEF Held, OpAt
    <3> QED  BY <1>4, <3>4 DEF Unwritten, Waiting
  <2>2. CASE Unissued # {}
    BY <1>4, <2>2 DEF Unwritten, Waiting
  <2> QED  BY <2>1, <2>2
<1>6. ASSUME NEW u, Writes(fusedUOp_r, u)  PROVE Writes(evicted'[i], u)
  <2>1. /\ evicted'[i].word = fusedUOp_r.word /\ evicted'[i].isMgmt = fusedUOp_r.isMgmt
        /\ evicted'[i].bytes = MergedBytes(i)
    BY <1>4 DEF Enqueued
  <2>2. CASE fusedUOp_r.isMgmt
    <3>1. evicted'[i].bytes = NoBytes
      BY <1>3, <2>1, <2>2 DEF MergedBytes, NoBytes
    <3>2. \A l \in Lanes : <<0, l[2]>> \in Lanes
      BY StoreTypesAssumption, SMT DEF Lanes, Words
    <3>3. Placed(evicted'[i]) = NoBytes
      BY <3>1, <3>2 DEF Placed, NoBytes
    <3>4. ImageAt(u, u.word) = NoBytes
      BY <1>6, <2>2 DEF Writes, IsMgmt, ImageAt, NoBytes
    <3> QED  BY <1>4, <1>6, <2>1, <3>3, <3>4 DEF Writes
  <2>3. CASE ~fusedUOp_r.isMgmt
    <3>1. fusedUOp_r.bytes \in Image
      BY DEF Waiting, DrainInv, TypeOK, SQBTypeOK, FusedUOp
    <3>2. evicted'[i].bytes = fusedUOp_r.bytes
      BY <1>3, <2>1, <2>3, <3>1 DEF MergedBytes, Over, NoBytes, Image
    <3>3. Placed(evicted'[i]) = Placed(fusedUOp_r)
      BY <1>4, <2>1, <3>2, PlacedSame
    <3> QED  BY <1>4, <1>6, <2>1, <3>3 DEF Writes
  <2> QED  BY <2>2, <2>3
<1>7. QED  BY <1>2, <1>5, <1>6

\* What is taken waits with its own data.
LEMMA TakenWaits ==
  ASSUME TypeOK, Accepts(Uops), Uops[1].block \in ExtMMIO
  PROVE  /\ Uops[1] \in SQ_UOp
         /\ Fused(Uops).block = Uops[1].block
         /\ Writes(Fused(Uops), Uops[1])
<1>1. 1 \in 1 .. 2 /\ Uops[1] # NoStore  BY SMT DEF Accepts
<1>2. Uops[1] \in SQ_UOp  BY <1>1, UopsType
<1>3. IsMMIO(Uops[1])  BY StoreTypesAssumption DEF IsMMIO
<1>4. Fused(Uops) = FuseBase(Uops[1])  BY <1>3 DEF Fused, FusesWith, Uncached
<1>5. FuseBase(Uops[1]).block = Uops[1].block /\ FuseBase(Uops[1]).isMgmt = IsMgmt(Uops[1])
  BY DEF FuseBase
<1>6. Placed(FuseBase(Uops[1])) = ImageAt(Uops[1], Uops[1].word)
  BY <1>2, <1>3, DeviceImage
<1>7. QED  BY <1>2, <1>4, <1>5, <1>6 DEF Writes

\* The debt before and after a cycle, in numbers.
LEMMA DebtNext ==
  ASSUME NumNonces >= 5, OwedInv,
         NEW stStall \in BOOLEAN, NEW hit \in BOOLEAN, Tick(stStall, hit)
  PROVE  /\ Inserts /\ Waiting => ~InEvicted /\ InEvicted' /\ ~ExternalWrite(stStall)
         /\ ~(Inserts /\ Waiting) => (InEvicted' <=> InEvicted /\ ~ExternalWrite(stStall))
         /\ ExternalWrite(stStall) => InEvicted
<1>1. DrainInv /\ FreeIsEmpty /\ DeviceNotRefused  BY DEF OwedInv
<1>2. ASSUME ExternalWrite(stStall)
      PROVE  uopSt.id \in EvIdx /\ Unwritten(uopSt.id) /\ Held(1, uopSt.id) /\ ~stStall
  BY <1>1, <1>2, OfferIsUnwritten DEF ExternalWrite
<1>3. ASSUME NEW i \in EvIdx, Unwritten(i), Held(1, i), ~stStall
      PROVE  ExternalWrite(stStall)
  <2>1. uopSt # NoStOp /\ uopSt.id = i  BY <1>3, SMT DEF Held, OpAt
  <2>2. 1 \in 1 .. 3 /\ OpAt(1) = uopSt  BY SMT DEF OpAt
  <2>3. uopSt.block = evicted[i].block  BY <1>1, <1>3, <2>2 DEF DrainInv, SameBlock
  <2> QED  BY <1>3, <2>1, <2>3 DEF ExternalWrite, Unwritten
<1>4. CASE Inserts /\ Waiting
  <2>1. PICK e \in EvIdx : Merged(e)  BY <1>4, EvInsertChoice DEF Merged
  <2>2. \A j \in EvIdx : ~(evicted[j].valid /\ IsMMIO(evicted[j]))
    BY <1>1, <1>4, <2>1, DeviceEnters
  <2>3. Unwritten(e)'  BY <1>1, <1>4, <2>1, DeviceEnters
  <2>4. InEvicted'  BY <2>3 DEF InEvicted, EvIdx
  <2>5. ~InEvicted
    BY <2>2, StoreTypesAssumption DEF InEvicted, Unwritten, IsMMIO
  <2> QED  BY <1>2, <1>4, <2>4, <2>5 DEF InEvicted
<1>5. CASE ~(Inserts /\ Waiting)
  <2>1. ASSUME NEW i \in EvIdx
        PROVE  Unwritten(i)' <=> Unwritten(i) /\ ~(Held(1, i) /\ ~stStall)
    <3>1. CASE Merged(i)
      <4>1. fusedUOp_r.block \notin ExtMMIO  BY <1>5, <3>1 DEF Merged, Inserts, Waiting
      <4> QED  BY <3>1, <4>1, MergedEntry DEF Unwritten
    <3>2. CASE ~Merged(i)
      BY <1>1, <3>2, UnwrittenNext
    <3> QED  BY <3>1, <3>2
  <2>2. InEvicted' <=> \E i \in EvIdx : Unwritten(i)'
    BY DEF InEvicted, EvIdx
  <2>3. ASSUME InEvicted, ~ExternalWrite(stStall)  PROVE InEvicted'
    <3>1. PICK i \in EvIdx : Unwritten(i)  BY <2>3 DEF InEvicted
    <3> QED  BY <1>3, <2>1, <2>2, <2>3, <3>1
  <2>4. ASSUME InEvicted'  PROVE InEvicted /\ ~ExternalWrite(stStall)
    <3>1. PICK i \in EvIdx : Unwritten(i)'  BY <2>2, <2>4
    <3>2. Unwritten(i) /\ ~(Held(1, i) /\ ~stStall)  BY <2>1, <3>1
    <3>3. ASSUME ExternalWrite(stStall)  PROVE FALSE
      <4>1. /\ uopSt.id \in EvIdx /\ Unwritten(uopSt.id)
            /\ Held(1, uopSt.id) /\ ~stStall
        BY <1>2, <3>3
      <4>2. evicted[uopSt.id].valid /\ IsMMIO(evicted[uopSt.id])
        BY <4>1, StoreTypesAssumption DEF Unwritten, IsMMIO
      <4>3. i = uopSt.id  BY <1>1, <3>2, <4>1, <4>2, UnwrittenAlone
      <4> QED  BY <3>2, <4>1, <4>3
    <3> QED  BY <3>2, <3>3 DEF InEvicted
  <2> QED  BY <1>2, <1>5, <2>3, <2>4 DEF InEvicted
<1>6. QED  BY <1>4, <1>5

\* The oldest of at most two stores is taken off; one more is put behind them.
LEMMA OwedSequence ==
  ASSUME NEW S, NEW s \in Seq(S), Len(s) <= 2
  PROVE  /\ Len(s) >= 1 => /\ SubSeq(s, 2, Len(s)) \in Seq(S)
                           /\ Len(SubSeq(s, 2, Len(s))) = Len(s) - 1
         /\ Len(s) = 2 => SubSeq(s, 2, Len(s))[1] = s[2]
         /\ s \o << >> = s
         /\ \A u \in S : /\ s \o <<u>> \in Seq(S)
                        /\ Len(s \o <<u>>) = Len(s) + 1
                        /\ (s \o <<u>>)[Len(s) + 1] = u
                        /\ Len(s) >= 1 => (s \o <<u>>)[1] = s[1]
  BY SMT

\* What remains owed after the device was written with the oldest store.
LEMMA OwedNext ==
  ASSUME NumNonces >= 5, OwedInv, TypeOK',
         NEW stStall \in BOOLEAN, NEW hit \in BOOLEAN, Tick(stStall, hit),
         owed' = OwedAfter(stStall)
  PROVE  OwedIsKept'
<1> DEFINE rest == IF ExternalWrite(stStall) THEN SubSeq(owed, 2, Len(owed)) ELSE owed
           Stays == Waiting /\ ~Inserts
           One(P) == IF P THEN 1 ELSE 0
<1>1. /\ DrainInv /\ FreeIsEmpty /\ DeviceNotRefused /\ TypeOK
      /\ owed \in Seq(SQ_UOp) /\ Len(owed) \in Nat
  BY DEF OwedInv, DrainInv, TypeOK
<1>2. /\ Len(owed) = One(InEvicted) + One(Waiting) /\ Len(owed) <= 2
      /\ \A i \in EvIdx : Unwritten(i) => Writes(evicted[i], owed[1])
      /\ Waiting => Writes(fusedUOp_r, owed[Len(owed)])
  BY <1>1, SMT DEF OwedInv, OwedIsKept
<1>3. /\ Inserts /\ Waiting => ~InEvicted /\ InEvicted' /\ ~ExternalWrite(stStall)
      /\ ~(Inserts /\ Waiting) => (InEvicted' <=> InEvicted /\ ~ExternalWrite(stStall))
      /\ ExternalWrite(stStall) => InEvicted
  BY DebtNext
<1>4. /\ rest \in Seq(SQ_UOp) /\ Len(rest) \in Nat
      /\ Len(rest) = One(InEvicted') + One(Stays)
  <2>1. CASE ExternalWrite(stStall)
    <3>1. InEvicted /\ ~InEvicted' /\ ~(Inserts /\ Waiting)  BY <1>3, <2>1
    <3>2. rest = SubSeq(owed, 2, Len(owed))  BY <2>1
    <3> HIDE DEF rest
    <3>3. Len(owed) >= 1  BY <1>1, <1>2, <3>1, SMT
    <3>4. rest \in Seq(SQ_UOp) /\ Len(rest) = Len(owed) - 1
      BY <1>1, <1>2, <3>2, <3>3, OwedSequence
    <3> QED  BY <1>1, <1>2, <3>1, <3>4, SMT
  <2>2. CASE ~ExternalWrite(stStall)
    <3>1. rest = owed  BY <2>2
    <3> HIDE DEF rest
    <3> QED  BY <1>1, <1>2, <1>3, <2>2, <3>1, SMT
  <2> QED  BY <2>1, <2>2
<1>5. ASSUME NEW i \in EvIdx, Unwritten(i)'  PROVE Writes(evicted'[i], rest[1])
  <2>1. InEvicted'  BY <1>5 DEF InEvicted, EvIdx
  <2>2. ~ExternalWrite(stStall) /\ rest = owed  BY <1>3, <2>1
  <2>3. CASE Merged(i)
    <3>1. Waiting /\ Inserts
      BY <1>5, <2>3, MergedEntry DEF Merged, Unwritten, Waiting, Inserts
    <3>2. Len(owed) = 1 /\ Writes(fusedUOp_r, owed[1])
      <4>1. Len(owed) = 1  BY <1>2, <1>3, <3>1, SMT
      <4> QED  BY <1>2, <3>1, <4>1
    <3> QED  BY <1>1, <2>2, <2>3, <3>1, <3>2, DeviceEnters
  <2>4. CASE ~Merged(i)
    <3>1. Unwritten(i) /\ StOp(i, evicted'[i]) = StOp(i, evicted[i])
      BY <1>1, <1>5, <2>4, UnwrittenNext
    <3>2. Writes(evicted[i], owed[1])  BY <1>2, <3>1
    <3>3. /\ evicted'[i].block = evicted[i].block /\ evicted'[i].word = evicted[i].word
          /\ evicted'[i].bytes = evicted[i].bytes /\ evicted'[i].isMgmt = evicted[i].isMgmt
      BY <3>1 DEF StOp
    <3>4. Placed(evicted'[i]) = Placed(evicted[i])  BY <3>3, PlacedSame
    <3> QED  BY <2>2, <3>2, <3>3, <3>4 DEF Writes
  <2> QED  BY <2>3, <2>4
<1>6. Stays => Writes(fusedUOp_r, rest[Len(rest)])
  <2> SUFFICES ASSUME Stays PROVE Writes(fusedUOp_r, rest[Len(rest)])  OBVIOUS
  <2>1. Writes(fusedUOp_r, owed[Len(owed)])  BY <1>2
  <2>2. CASE ExternalWrite(stStall)
    <3>1. Len(owed) = 2  BY <1>2, <1>3, <2>2, SMT
    <3>2. rest = SubSeq(owed, 2, Len(owed))  BY <2>2
    <3> HIDE DEF rest
    <3>3. Len(rest) = 1 /\ rest[1] = owed[2]
      BY <1>1, <1>2, <3>1, <3>2, OwedSequence, SMT
    <3> QED  BY <2>1, <3>1, <3>3
  <2>3. CASE ~ExternalWrite(stStall)
    <3>1. rest = owed  BY <2>3
    <3> QED  BY <2>1, <3>1
  <2> QED  BY <2>2, <2>3
<1>7. /\ fusedUOp_r' = IF Accepts(Uops) THEN Fused(Uops)
                       ELSE IF Inserts THEN NoFused ELSE fusedUOp_r
      /\ Accepts(Uops) => ~Stays
  BY DEF Tick, SQBClock, Accepts, Waiting
<1>8. owed' = rest \o IF Accepts(Uops) /\ Uops[1].block \in ExtMMIO THEN <<Uops[1]>> ELSE << >>
  BY DEF OwedAfter
<1>9. Len(rest) <= 2  BY <1>4, SMT
<1>10. CASE Accepts(Uops) /\ Uops[1].block \in ExtMMIO
  <2>1. /\ Uops[1] \in SQ_UOp /\ Fused(Uops).block \in ExtMMIO
        /\ Writes(Fused(Uops), Uops[1])
    BY <1>1, <1>10, TakenWaits
  <2>2. fusedUOp_r' = Fused(Uops) /\ Fused(Uops) \in FusedUOp
    BY <1>1, <1>7, <1>10, FusedType DEF Accepts
  <2>3. Waiting'  BY <2>1, <2>2, InvalidAssumption DEF Waiting
  <2>4. owed' = rest \o <<Uops[1]>>  BY <1>8, <1>10
  <2>5. ~Stays /\ Len(rest) = One(InEvicted')  BY <1>4, <1>7, <1>10, SMT
  <2> HIDE DEF rest
  <2>6. /\ Len(owed') = Len(rest) + 1
        /\ owed'[Len(rest) + 1] = Uops[1]
        /\ Len(rest) >= 1 => owed'[1] = rest[1]
    BY <1>4, <1>9, <2>1, <2>4, OwedSequence
  <2>7. Len(owed') = One(InEvicted') + One(Waiting')  BY <1>4, <2>3, <2>5, <2>6, SMT
  <2>8. ASSUME NEW i \in EvIdx, Unwritten(i)'  PROVE Writes(evicted'[i], owed'[1])
    <3>1. InEvicted'  BY <2>8 DEF InEvicted, EvIdx
    <3>2. Len(rest) >= 1  BY <2>5, <3>1, SMT
    <3> QED  BY <1>5, <2>6, <2>8, <3>2
  <2>9. Writes(fusedUOp_r', owed'[Len(owed')])  BY <2>1, <2>2, <2>6
  <2> QED  BY <2>7, <2>8, <2>9 DEF OwedIsKept, Writes, EvIdx, Placed, IsMMIO
<1>11. CASE ~(Accepts(Uops) /\ Uops[1].block \in ExtMMIO)
  <2>1. owed' = rest
    <3>1. owed' = rest \o << >>  BY <1>8, <1>11
    <3> HIDE DEF rest
    <3> QED  BY <1>4, <1>9, <3>1, OwedSequence
  <2>2. Waiting' <=> Stays
    <3>1. CASE Accepts(Uops)
      <4>1. Fused(Uops).block = Uops[1].block  BY DEF Fused, FuseBase
      <4> QED  BY <1>7, <1>11, <3>1, <4>1 DEF Waiting
    <3>2. CASE ~Accepts(Uops)
      BY <1>7, <3>2 DEF Waiting
    <3> QED  BY <3>1, <3>2
  <2>3. Stays => fusedUOp_r' = fusedUOp_r  BY <1>7
  <2> HIDE DEF rest
  <2>4. Len(owed') = One(InEvicted') + One(Waiting')  BY <1>4, <2>1, <2>2
  <2>5. ASSUME NEW i \in EvIdx, Unwritten(i)'  PROVE Writes(evicted'[i], owed'[1])
    BY <1>5, <2>1, <2>5
  <2>6. Waiting' => Writes(fusedUOp_r', owed'[Len(owed')])
    BY <1>6, <2>1, <2>2, <2>3
  <2> QED  BY <2>4, <2>5, <2>6 DEF OwedIsKept, Writes, EvIdx, Placed, IsMMIO
<1>12. QED  BY <1>10, <1>11

\* An answer to a device store is positive.
LEMMA DeviceAnswered ==
  ASSUME NumNonces >= 5, DrainInv,
         NEW stStall \in BOOLEAN, NEW hit \in BOOLEAN, Tick(stStall, hit)
  PROVE  DeviceNotRefused'
<1> SUFFICES ASSUME NEW i \in EvIdx, Held(4, i)', IsMMIO(evicted'[i])
             PROVE  ~stAck_r'.fail
  BY DEF DeviceNotRefused, IsMMIO
<1>1. 4 \in 2 .. 4 /\ 4 - 1 = 3 /\ 3 \in 1 .. 3 /\ 3 \in 1 .. 4  BY SMT
<1>2. Held(3, i)  BY <1>1, MovesOn
<1>3. OpAt(3) = stOps[2] /\ stOps[2] # NoStOp  BY <1>2, SMT DEF Held, OpAt
<1>4. evicted[i].valid /\ stOps[2].block = evicted[i].block
  BY <1>1, <1>2, <1>3 DEF DrainInv, HeldIsValid, SameBlock
<1>5. evicted'[i].block = evicted[i].block
  BY <1>4, MergedEntry, OtherEntry DEF DrainInv
<1>6. IsMMIO(stOps[2])  BY <1>4, <1>5 DEF IsMMIO
<1>7. stAck_r' = StAck(hit)  BY DEF Tick, SQBClock
<1>8. QED  BY <1>3, <1>6, <1>7 DEF StAck

\* A clock cycle keeps the account.
LEMMA NextOwed ==
  ASSUME NumNonces >= 5, OwedInv, [Next]_vars
  PROVE  OwedInv'
<1>1. DrainInv'  BY NextDrain DEF OwedInv
<1>2. CASE Next
  <2>1. PICK new \in Arrivals, stStall \in BOOLEAN, hit \in BOOLEAN : Cycle(new, stStall, hit)
    BY <1>2 DEF Next
  <2>2. Tick(stStall, hit) /\ owed' = OwedAfter(stStall)  BY <2>1 DEF Cycle, Tick
  <2>3. FreeIsEmpty'  BY <2>2, FreeStays DEF OwedInv
  <2>4. DeviceNotRefused'  BY <2>2, DeviceAnswered DEF OwedInv
  <2>5. OwedIsKept'  BY <1>1, <2>2, OwedNext DEF DrainInv
  <2> QED  BY <1>1, <2>3, <2>4, <2>5 DEF OwedInv
<1>3. CASE UNCHANGED vars
  <2>1. /\ evicted' = evicted /\ uopSt' = uopSt /\ stAck_r' = stAck_r /\ stOps' = stOps
        /\ fusedUOp_r' = fusedUOp_r /\ owed' = owed
    BY <1>3 DEF vars, sqbVars, pipeVars
  <2>2. FreeIsEmpty'  BY <2>1 DEF OwedInv, FreeIsEmpty, NoBytes
  <2>3. DeviceNotRefused'  BY <2>1 DEF OwedInv, DeviceNotRefused, Held, OpAt, IsMMIO
  <2>4. OwedIsKept'
    BY <2>1 DEF OwedInv, OwedIsKept, InEvicted, Waiting, Unwritten, Held, OpAt, Writes,
                Placed, IsMMIO
  <2> QED  BY <1>1, <2>2, <2>3, <2>4 DEF OwedInv
<1>4. QED  BY <1>2, <1>3

\* What is offered is the oldest debt; an idle backend owes nothing.
LEMMA OnceStep == OwedInv => ExternalWrittenOnce
<1> SUFFICES ASSUME OwedInv PROVE ExternalWrittenOnce  OBVIOUS
<1>1. /\ DrainInv /\ owed \in Seq(SQ_UOp)
      /\ Len(owed) = (IF InEvicted THEN 1 ELSE 0) + (IF Waiting THEN 1 ELSE 0)
      /\ \A i \in EvIdx : Unwritten(i) => Writes(evicted[i], owed[1])
  BY DEF OwedInv, OwedIsKept, DrainInv, TypeOK
<1>2. ASSUME uopSt # NoStOp, uopSt.block \in ExtMMIO
      PROVE  owed # << >> /\ Writes(uopSt, Head(owed))
  <2>1. /\ uopSt.id \in EvIdx /\ Unwritten(uopSt.id)
        /\ uopSt = StOp(uopSt.id, evicted[uopSt.id])
    BY <1>1, <1>2, OfferIsUnwritten
  <2>2. InEvicted  BY <2>1 DEF InEvicted
  <2>3. Len(owed) >= 1  BY <1>1, <2>2, SMT
  <2>4. owed # << >> /\ Head(owed) = owed[1]  BY <1>1, <2>3, SMT
  <2>5. Writes(evicted[uopSt.id], owed[1])  BY <1>1, <2>1
  <2>6. /\ uopSt.block = evicted[uopSt.id].block /\ uopSt.word = evicted[uopSt.id].word
        /\ uopSt.bytes = evicted[uopSt.id].bytes /\ uopSt.isMgmt = evicted[uopSt.id].isMgmt
    BY <2>1 DEF StOp
  <2>7. Placed(uopSt) = Placed(evicted[uopSt.id])  BY <2>6, PlacedSame
  <2> QED  BY <2>4, <2>5, <2>6, <2>7 DEF Writes
<1>3. ASSUME ~Busy  PROVE owed = << >>
  <2>1. ~InEvicted /\ ~Waiting
    BY <1>3 DEF Busy, SQBBusy, InEvicted, Unwritten, Waiting
  <2>2. Len(owed) = 0  BY <1>1, <2>1, SMT
  <2> QED  BY <1>1, <2>2, SMT
<1>4. QED  BY <1>2, <1>3 DEF ExternalWrittenOnce

(***************************************************************************)
(* An external device gets each store exactly once and in program order,   *)
(* whatever the bus unit refuses and however operations are answered: a    *)
(* store that was written is never offered again, and when the backend is  *)
(* idle all of them were written (StoreQueueBackend.sv:218,                *)
(* LoadStoreUnit.sv:712).                                                  *)
(***************************************************************************)
THEOREM ExternalOnceCorrect ==
  ASSUME NumNonces >= 5
  PROVE  Spec => []ExternalWrittenOnce
<1>1. Init => OwedInv  BY InitOwed
<1>2. OwedInv /\ [Next]_vars => OwedInv'  BY NextOwed
<1>3. OwedInv => ExternalWrittenOnce  BY OnceStep
<1>4. QED  BY <1>1, <1>2, <1>3, PTL DEF Spec

=============================================================================
