-------------------------- MODULE RenameMapProofs --------------------------
(***************************************************************************)
(* Rename maps every register to its newest writer in program order again  *)
(* once a redirect has been replayed (SpecMapRecovered); the registers that*)
(* uops in flight are going to read still belong to older uops or to the   *)
(* committed state (SourceTagLive); no operand looks available too early   *)
(* (WakeupSound), and none is waited for in vain (WakeupComplete); rename  *)
(* and ROB agree on the numbers of loads and stores (LsqSqNAgree).  All of *)
(* it for every size of the machine.                                       *)
(*                                                                         *)
(* The argument numbers the uops in flight by their distance from the front*)
(* of the buffer, those that rename has just handed over behind those in   *)
(* the buffer (Uops).  A cycle takes n of them off the front and adds some *)
(* at the end.  For a place in this sequence, MapsTo says what the tag of a*)
(* register is there: that of the newest older writer, or that of the      *)
(* committed map below.  The speculative map is the map at the end; in the *)
(* middle of a replay, together with the uops that are being replayed, it  *)
(* is the map at the place that the replay has got to.  A uop's operand is *)
(* what the map says at the uop's own place.  That no other uop can have   *)
(* the register is TagPartition's argument (FreeListProofs).  The number of*)
(* a load or store, too, is a function of its place: how many there are in *)
(* front of it (StoreSqNAfter, LoadSqNAfter).                              *)
(***************************************************************************)
EXTENDS FreeListProofs

\* The newest of the first p uops of u that writes r has tag t; if none of them does,
\* t is what the map below them says.
MapsTo(u, p, r, below, t) ==
  \/ \E q \in 0 .. p - 1 : /\ u[q].rd = r /\ u[q].tag = t
                           /\ \A k \in q + 1 .. p - 1 : u[k].rd # r
  \/ /\ \A q \in 0 .. p - 1 : u[q].rd # r
     /\ below = t

\* The uops in flight by their distance from baseIndex: those in the buffer, then the
\* ones rename has just handed over.
Slot(q)  == RobIdx(Plus(baseIndex, q))
RnPort(q) == q - Pos(lastIndex)
Uops ==
  [q \in Nat |->
     IF q < Pos(lastIndex)
     THEN [rd |-> entries[Slot(q)].rd, tag |-> entries[Slot(q)].tag, src |-> backend[Slot(q)].tag]
     ELSE [rd |-> rnUOp[RnPort(q)].rd, tag |-> rnUOp[RnPort(q)].tagDst, src |-> rnUOp[RnPort(q)].tag]]
InFlight == IF branch.taken THEN Pos(lastIndex) ELSE Pos(counterSqN)

\* The committed map once comUOp has been written.
Base == IF mispredFlush THEN comTag ELSE Written(comTag, comUOp)

\* The uop has executed; its operand is there.
Produced(q) == q < Pos(lastIndex) /\ (flags[Slot(q)] # "NX" \/ backend[Slot(q)].early)
\* The result has been written back: a fault only says that there is none.
Returned(q) == Produced(q) /\ (backend[Slot(q)].early \/ flags[Slot(q)] \notin MemFault)
Avail(q)    == IF q < Pos(lastIndex) THEN backend[Slot(q)].avail ELSE rnUOp[RnPort(q)].avail

\* How far the map has been rebuilt, with comUOp.
Rebuilt == IF misprReplay_r.valid THEN Pos(misprReplay_r.iterSqN) ELSE Pos(lastIndex)

TrapsWriteNothing ==
  /\ \A s \in SqNs : InROB(s) /\ flags[RobIdx(s)] = "TRAP" => entries[RobIdx(s)].rd = 0
  /\ \A i \in Port : rnUOp[i].fu = "TRAP" => rnUOp[i].rd = 0 /\ rnUOp[i].tagDst \notin RFTag
FlushRedirects == branch.flush => branch.taken
ReplayAlone == mispredFlush => \A i \in Port : ~rnUOp[i].valid
ZeroIsConstant == specTag[0] = TAG_ZERO /\ comTag[0] = TAG_ZERO

SpecMap ==
  ~branch.taken /\ ~trapUOp.valid =>
    \A r \in Reg \ {0} :
      IF mispredFlush THEN MapsTo(Uops, Rebuilt, r, Base[r], Written(specTag, comUOp)[r])
      ELSE MapsTo(Uops, InFlight, r, Base[r], specTag[r])
SourceMap ==
  ~trapUOp.valid /\ ~branch.flush =>
    \A q \in 0 .. InFlight - 1 : Uops[q].src \in RFTag =>
      \E r \in Reg \ {0} : MapsTo(Uops, q, r, Base[r], Uops[q].src)

PendingUnavailable ==
  \A p \in 0 .. InFlight - 1 :
    ~Returned(p) /\ Uops[p].tag \in RFTag /\ Uops[p].rd # 0 => Uops[p].tag \notin tagAvail
PendingUnread ==
  \A p, q \in 0 .. InFlight - 1 :
    ~Returned(p) /\ Uops[p].tag \in RFTag /\ Uops[q].src = Uops[p].tag => ~Avail(q)
ProducedAvailable ==
  \A p \in 0 .. InFlight - 1 : Returned(p) /\ Uops[p].tag \in RFTag => Uops[p].tag \in tagAvail
UnavailablePending ==
  ~trapUOp.valid /\ ~branch.flush =>
    \A q \in 0 .. InFlight - 1 : ~Avail(q) =>
      /\ Uops[q].src \in RFTag
      /\ \E p \in 0 .. q - 1 : Uops[p].tag = Uops[q].src /\ ~Returned(p)

-----------------------------------------------------------------------------
(* The map that a sequence of uops gives. *)

\* There is one tag for every register ...
LEMMA MapsToOne ==
  ASSUME NEW u, NEW p \in Int, NEW r, NEW below, NEW t, NEW s,
         MapsTo(u, p, r, below, t), MapsTo(u, p, r, below, s)
  PROVE  t = s
<1>1. CASE \A q \in 0 .. p - 1 : u[q].rd # r
  BY <1>1 DEF MapsTo
<1>2. CASE \E q \in 0 .. p - 1 : u[q].rd = r
  <2>1. PICK q \in 0 .. p - 1 : /\ u[q].rd = r /\ u[q].tag = t
                                /\ \A k \in q + 1 .. p - 1 : u[k].rd # r
    BY <1>2 DEF MapsTo
  <2>2. PICK m \in 0 .. p - 1 : /\ u[m].rd = r /\ u[m].tag = s
                                /\ \A k \in m + 1 .. p - 1 : u[k].rd # r
    BY <1>2 DEF MapsTo
  <2>3. ~(q < m)  BY <2>1, <2>2, SMT
  <2>4. ~(m < q)  BY <2>1, <2>2, SMT
  <2>5. q = m  BY <2>3, <2>4, SMT
  <2> QED  BY <2>1, <2>2, <2>5
<1>3. QED  BY <1>1, <1>2

\* ... and at least one.
LEMMA MapsToSome ==
  ASSUME NEW u, NEW p \in Nat, NEW r, NEW below
  PROVE  \E t : MapsTo(u, p, r, below, t)
<1>1. CASE \A q \in 0 .. p - 1 : u[q].rd # r
  <2>1. MapsTo(u, p, r, below, below)  BY <1>1 DEF MapsTo
  <2> QED  BY <2>1
<1>2. CASE \E q \in 0 .. p - 1 : u[q].rd = r
  <2> DEFINE T == {q \in 0 .. p - 1 : u[q].rd = r}
  <2>1. T \subseteq 0 .. p /\ T # {}  BY <1>2, SMT
  <2>2. PICK q \in T : \A k \in T : q >= k
    <3> HIDE DEF T
    <3> QED  BY <2>1, GreatestNat
  <2>3. \A k \in q + 1 .. p - 1 : u[k].rd # r  BY <2>2, SMT
  <2>4. MapsTo(u, p, r, below, u[q].tag)  BY <2>2, <2>3 DEF MapsTo
  <2> QED  BY <2>4
<1>3. QED  BY <1>1, <1>2

\* Only the first p uops matter.
LEMMA MapsToSame ==
  ASSUME NEW u, NEW v, NEW p \in Int, NEW r, NEW below, NEW t,
         \A q \in 0 .. p - 1 : v[q].rd = u[q].rd /\ v[q].tag = u[q].tag,
         MapsTo(u, p, r, below, t)
  PROVE  MapsTo(v, p, r, below, t)
<1>1. CASE \A q \in 0 .. p - 1 : u[q].rd # r
  BY <1>1 DEF MapsTo
<1>2. CASE \E q \in 0 .. p - 1 : u[q].rd = r
  <2>1. PICK q \in 0 .. p - 1 : /\ u[q].rd = r /\ u[q].tag = t
                                /\ \A k \in q + 1 .. p - 1 : u[k].rd # r
    BY <1>2 DEF MapsTo
  <2>2. \A k \in q + 1 .. p - 1 : k \in 0 .. p - 1  BY SMT
  <2>3. v[q].rd = r /\ v[q].tag = t /\ \A k \in q + 1 .. p - 1 : v[k].rd # r
    BY <2>1, <2>2
  <2> QED  BY <2>3 DEF MapsTo
<1>3. QED  BY <1>1, <1>2

\* The first n uops leave at the bottom; the map below the rest is theirs.
LEMMA MapsToShift ==
  ASSUME NEW u, NEW v, NEW n \in Nat, NEW p \in Nat, NEW r, NEW below, NEW next, NEW t,
         \A q \in 0 .. p - 1 : v[q].rd = u[q + n].rd /\ v[q].tag = u[q + n].tag,
         MapsTo(u, n, r, below, next), MapsTo(u, p + n, r, below, t)
  PROVE  MapsTo(v, p, r, next, t)
<1>1. CASE \A q \in n .. p + n - 1 : u[q].rd # r
  <2>1. \A q \in 0 .. p - 1 : q + n \in n .. p + n - 1  BY SMT
  <2>2. \A q \in 0 .. p - 1 : v[q].rd # r  BY <1>1, <2>1
  <2>3. MapsTo(u, n, r, below, t)
    <3>1. CASE \A q \in 0 .. p + n - 1 : u[q].rd # r
      <4>1. \A q \in 0 .. n - 1 : q \in 0 .. p + n - 1  BY SMT
      <4> QED  BY <3>1, <4>1 DEF MapsTo
    <3>2. CASE \E q \in 0 .. p + n - 1 : u[q].rd = r
      <4>1. PICK q \in 0 .. p + n - 1 : /\ u[q].rd = r /\ u[q].tag = t
                                        /\ \A k \in q + 1 .. p + n - 1 : u[k].rd # r
        BY <3>2 DEF MapsTo
      <4>2. q \in 0 .. n - 1  BY <1>1, <4>1, SMT
      <4>3. \A k \in q + 1 .. n - 1 : k \in q + 1 .. p + n - 1  BY SMT
      <4> QED  BY <4>1, <4>2, <4>3 DEF MapsTo
    <3> QED  BY <3>1, <3>2
  <2>4. t = next  BY <2>3, MapsToOne
  <2> QED  BY <2>2, <2>4 DEF MapsTo
<1>2. CASE \E q \in n .. p + n - 1 : u[q].rd = r
  <2>1. \E q \in 0 .. p + n - 1 : u[q].rd = r  BY <1>2, SMT
  <2>2. PICK q \in 0 .. p + n - 1 : /\ u[q].rd = r /\ u[q].tag = t
                                    /\ \A k \in q + 1 .. p + n - 1 : u[k].rd # r
    BY <2>1 DEF MapsTo
  <2>3. PICK m \in 0 .. p - 1 : m + n = q
    <3>1. n <= q  BY <1>2, <2>2, SMT
    <3>2. q - n \in 0 .. p - 1 /\ (q - n) + n = q  BY <3>1, SMT
    <3> QED  BY <3>2
  <2>4. \A k \in m + 1 .. p - 1 : k \in 0 .. p - 1 /\ k + n \in q + 1 .. p + n - 1
    BY <2>3, SMT
  <2>5. v[m].rd = r /\ v[m].tag = t /\ \A k \in m + 1 .. p - 1 : v[k].rd # r
    BY <2>2, <2>3, <2>4
  <2> QED  BY <2>5 DEF MapsTo
<1>3. QED  BY <1>1, <1>2

\* If no port below i is the last one that writes r (OlderIssue, LastWriter), none
\* writes r.
LEMMA NoPortWriter ==
  ASSUME NEW w, NEW r, NEW i \in 0 .. Width,
         \A j \in Port : ~(/\ j < i /\ w[j].valid /\ w[j].rd = r
                          /\ \A k \in Port : j < k /\ k < i => ~(w[k].valid /\ w[k].rd = r))
  PROVE  \A j \in Port : j < i => ~(w[j].valid /\ w[j].rd = r)
<1> SUFFICES ASSUME \E j \in Port : j < i /\ w[j].valid /\ w[j].rd = r  PROVE FALSE
  OBVIOUS
<1> DEFINE T == {j \in Port : j < i /\ w[j].valid /\ w[j].rd = r}
<1>1. T \subseteq 0 .. Width /\ T # {}  BY WidthType, SMT DEF Port
<1>2. PICK j \in T : \A k \in T : j >= k
  <2> HIDE DEF T
  <2> QED  BY <1>1, WidthType, GreatestNat
<1>3. \A k \in Port : j < k /\ k < i => ~(w[k].valid /\ w[k].rd = r)
  BY <1>2, WidthType, SMT DEF Port
<1>4. QED  BY <1>2, <1>3

\* What a port looks up in the table and in the ports below it is the map at the uop
\* of that port (RenameTable.sv lookup).
LEMMA MapsToLookup ==
  ASSUME NEW u, NEW p \in Nat, NEW m \in 0 .. Width, NEW w, NEW below, NEW r \in Reg \ {0},
         \A i \in Port : w[i].valid <=> i < m,
         \A i \in Port : i < m => u[p + i].rd = w[i].rd /\ u[p + i].tag = w[i].tag,
         MapsTo(u, p, r, below, specTag[r]),
         NEW i \in Port, i < m
  PROVE  MapsTo(u, p + i, r, below, LookupSpecTag(i, r, w))
<1> USE WidthType DEF Port
<1>1. CASE \E j \in Port : OlderIssue(i, j, r, w)
  <2> DEFINE j == CHOOSE k \in Port : OlderIssue(i, k, r, w)
  <2>1. j \in Port /\ OlderIssue(i, j, r, w)  BY <1>1
  <2>2. LookupSpecTag(i, r, w) = w[j].tag  BY <1>1 DEF LookupSpecTag
  <2> HIDE DEF j
  <2>3. /\ j < i /\ w[j].rd = r
        /\ \A k \in Port : j < k /\ k < i => ~(w[k].valid /\ w[k].rd = r)
    BY <2>1 DEF OlderIssue
  <2>4. p + j \in 0 .. p + i - 1 /\ u[p + j].rd = r /\ u[p + j].tag = w[j].tag
    BY <2>1, <2>3, SMT
  <2>5. ASSUME NEW q \in p + j + 1 .. p + i - 1  PROVE u[q].rd # r
    <3>1. PICK k \in Port : q = p + k /\ j < k /\ k < i
      <4>1. q - p \in Port /\ q = p + (q - p) /\ j < q - p /\ q - p < i  BY <2>1, SMT
      <4> QED  BY <4>1
    <3>2. w[k].valid /\ u[p + k].rd = w[k].rd  BY <3>1, SMT
    <3> QED  BY <2>3, <3>1, <3>2
  <2> QED  BY <2>2, <2>4, <2>5 DEF MapsTo
<1>2. CASE ~ \E j \in Port : OlderIssue(i, j, r, w)
  <2>1. LookupSpecTag(i, r, w) = specTag[r]  BY <1>2 DEF LookupSpecTag
  <2>2. ASSUME NEW q \in p .. p + i - 1  PROVE u[q].rd # r
    <3>1. PICK k \in Port : q = p + k /\ k < i
      <4>1. q - p \in Port /\ q = p + (q - p) /\ q - p < i  BY SMT
      <4> QED  BY <4>1
    <3>2. w[k].valid /\ u[p + k].rd = w[k].rd  BY <3>1, SMT
    <3>3. i \in 0 .. Width  BY SMT
    <3>4. \A j \in Port : j < i => ~(w[j].valid /\ w[j].rd = r)
      <4> HIDE DEF Port
      <4>1. \A j \in Port : ~(/\ j < i /\ w[j].valid /\ w[j].rd = r
                              /\ \A h \in Port : j < h /\ h < i => ~(w[h].valid /\ w[h].rd = r))
        BY <1>2 DEF OlderIssue
      <4> QED  BY <3>3, <4>1, NoPortWriter
    <3> QED  BY <3>1, <3>2, <3>4
  <2>3. CASE \A q \in 0 .. p - 1 : u[q].rd # r
    <3>1. specTag[r] = below  BY <2>3 DEF MapsTo
    <3>2. \A q \in 0 .. p + i - 1 : u[q].rd # r  BY <2>2, <2>3, SMT
    <3> QED  BY <2>1, <3>1, <3>2 DEF MapsTo
  <2>4. CASE \E q \in 0 .. p - 1 : u[q].rd = r
    <3>1. PICK q \in 0 .. p - 1 : /\ u[q].rd = r /\ u[q].tag = specTag[r]
                                  /\ \A k \in q + 1 .. p - 1 : u[k].rd # r
      BY <2>4 DEF MapsTo
    <3>2. q \in 0 .. p + i - 1 /\ \A k \in q + 1 .. p + i - 1 : u[k].rd # r
      BY <2>2, <3>1, SMT
    <3> QED  BY <2>1, <3>1, <3>2 DEF MapsTo
  <2> QED  BY <2>3, <2>4
<1>3. QED  BY <1>1, <1>2

\* A table that is the map at p, with the writes of the next m uops applied, is the map
\* at p + m (RenameTable.sv: rename, commit and replay write it alike).
LEMMA MapsToWritten ==
  ASSUME NEW u, NEW p \in Nat, NEW m \in 0 .. Width, NEW w, NEW table, NEW below,
         NEW r \in Reg \ {0},
         \A i \in Port : w[i].valid <=> i < m,
         \A i \in Port : i < m => u[p + i].rd = w[i].rd /\ u[p + i].tag = w[i].tag,
         MapsTo(u, p, r, below, table[r])
  PROVE  MapsTo(u, p + m, r, below, Written(table, w)[r])
<1> USE WidthType DEF Port
<1>1. CASE \E j \in Port : LastWriter(j, r, w)
  <2> DEFINE j == CHOOSE k \in Port : LastWriter(k, r, w)
  <2>1. j \in Port /\ LastWriter(j, r, w)  BY <1>1
  <2>2. Written(table, w)[r] = w[j].tag  BY <1>1 DEF Written
  <2> HIDE DEF j
  <2>3. /\ j < m /\ w[j].rd = r
        /\ \A k \in Port : j < k => ~(w[k].valid /\ w[k].rd = r)
    BY <2>1, SMT DEF LastWriter
  <2>4. p + j \in 0 .. p + m - 1 /\ u[p + j].rd = r /\ u[p + j].tag = w[j].tag
    BY <2>1, <2>3, SMT
  <2>5. ASSUME NEW q \in p + j + 1 .. p + m - 1  PROVE u[q].rd # r
    <3>1. PICK k \in Port : q = p + k /\ j < k /\ k < m
      <4>1. q - p \in Port /\ q = p + (q - p) /\ j < q - p /\ q - p < m  BY <2>1, SMT
      <4> QED  BY <4>1
    <3>2. w[k].valid /\ u[p + k].rd = w[k].rd  BY <3>1, SMT
    <3> QED  BY <2>3, <3>1, <3>2
  <2> QED  BY <2>2, <2>4, <2>5 DEF MapsTo
<1>2. CASE ~ \E j \in Port : LastWriter(j, r, w)
  <2>1. Written(table, w)[r] = table[r]  BY <1>2 DEF Written
  <2>2. ASSUME NEW q \in p .. p + m - 1  PROVE u[q].rd # r
    <3>1. PICK k \in Port : q = p + k /\ k < m
      <4>1. q - p \in Port /\ q = p + (q - p) /\ q - p < m  BY SMT
      <4> QED  BY <4>1
    <3>2. w[k].valid /\ u[p + k].rd = w[k].rd  BY <3>1, SMT
    <3>3. Width \in 0 .. Width  BY SMT
    <3>4. \A j \in Port : j < Width => ~(w[j].valid /\ w[j].rd = r)
      <4>1. \A j \in Port : ~(/\ j < Width /\ w[j].valid /\ w[j].rd = r
                              /\ \A x \in Port : j < x /\ x < Width => ~(w[x].valid /\ w[x].rd = r))
        BY <1>2, SMT DEF LastWriter
      <4> HIDE DEF Port
      <4> QED  BY <3>3, <4>1, NoPortWriter
    <3>5. k < Width  BY SMT
    <3> QED  BY <3>1, <3>2, <3>4, <3>5
  <2>3. CASE \A q \in 0 .. p - 1 : u[q].rd # r
    <3>1. table[r] = below  BY <2>3 DEF MapsTo
    <3>2. \A q \in 0 .. p + m - 1 : u[q].rd # r  BY <2>2, <2>3, SMT
    <3> QED  BY <2>1, <3>1, <3>2 DEF MapsTo
  <2>4. CASE \E q \in 0 .. p - 1 : u[q].rd = r
    <3>1. PICK q \in 0 .. p - 1 : /\ u[q].rd = r /\ u[q].tag = table[r]
                                  /\ \A k \in q + 1 .. p - 1 : u[k].rd # r
      BY <2>4 DEF MapsTo
    <3>2. q \in 0 .. p + m - 1 /\ \A k \in q + 1 .. p + m - 1 : u[k].rd # r
      BY <2>2, <3>1, SMT
    <3> QED  BY <2>1, <3>1, <3>2 DEF MapsTo
  <2> QED  BY <2>3, <2>4
<1>3. QED  BY <1>1, <1>2

-----------------------------------------------------------------------------
(* The uops in flight and how a cycle moves them. *)

\* Two advances make one.
LEMMA PlusPlus ==
  ASSUME NEW a \in SqNs, NEW n \in Nat, NEW q \in Nat, q + n < ROBSize
  PROVE  Plus(Plus(a, n), q) = Plus(a, q + n)
  BY RingType, SMT DEF Plus, SqNs

\* A number of positions is determined by where it leads.
LEMMA PlusInjective ==
  ASSUME NEW a \in SqNs, NEW n \in 0 .. Width, NEW m \in 0 .. Width, Plus(a, n) = Plus(a, m)
  PROVE  n = m
  BY RingType, WidthType, SMT DEF Plus, SqNs

\* What is in flight fits in the buffer.
LEMMA FlightType ==
  ASSUME WindowInv
  PROVE  /\ Pos(lastIndex) \in Nat /\ Pos(counterSqN) \in Nat /\ InFlight \in Nat
         /\ Pos(lastIndex) <= InFlight /\ InFlight < ROBSize
         /\ Pos(lastIndex) <= Pos(counterSqN) /\ Pos(counterSqN) < ROBSize
<1>1. /\ Pos(lastIndex) \in Int /\ Pos(lastIndex) < ROBSize /\ 0 <= Pos(lastIndex)
      /\ Pos(counterSqN) \in Int /\ Pos(counterSqN) < ROBSize
  BY SqNState, PosType DEF WindowInv
<1>2. 0 <= Pos(counterSqN) /\ Pos(lastIndex) <= Pos(counterSqN)
  BY CounterPos DEF WindowInv
<1>3. Pos(lastIndex) \in Nat /\ Pos(counterSqN) \in Nat  BY <1>1, <1>2, SMT
<1>4. QED  BY <1>1, <1>2, <1>3, SMT DEF InFlight

\* The uop at a position of the buffer.
LEMMA SlotAt ==
  ASSUME WindowInv, NEW q \in Nat, q < Pos(lastIndex)
  PROVE  /\ Plus(baseIndex, q) \in SqNs /\ Pos(Plus(baseIndex, q)) = q
         /\ InROB(Plus(baseIndex, q)) /\ Slot(q) \in RobIdxs
         /\ Uops[q].rd = entries[Slot(q)].rd /\ Uops[q].tag = entries[Slot(q)].tag
         /\ Uops[q].src = backend[Slot(q)].tag
         /\ Avail(q) = backend[Slot(q)].avail
<1>1. q < ROBSize  BY FlightType, RingType, SMT
<1>2. Plus(baseIndex, q) \in SqNs /\ Pos(Plus(baseIndex, q)) = q
  BY <1>1, AtPosition DEF WindowInv
<1>3. InROB(Plus(baseIndex, q))  BY <1>2, SMT DEF InROB, Pos
<1>4. QED  BY <1>2, <1>3, RobIdxType DEF Slot, Uops, Avail

\* The position of a uop in the buffer.
LEMMA PosOfSlot ==
  ASSUME WindowInv, NEW s, InROB(s)
  PROVE  /\ s \in SqNs /\ Pos(s) \in Nat /\ Pos(s) < Pos(lastIndex)
         /\ s = Plus(baseIndex, Pos(s)) /\ Slot(Pos(s)) = RobIdx(s)
<1>1. s \in SqNs /\ 0 <= Pos(s) /\ Pos(s) < Pos(lastIndex)  BY DEF InROB, Pos
<1>2. Pos(s) \in Nat /\ Pos(s) < ROBSize  BY <1>1, PosType, SMT DEF WindowInv
<1>3. s = Plus(baseIndex, Pos(s))  BY <1>1, <1>2, AtPosition DEF WindowInv
<1>4. QED  BY <1>1, <1>2, <1>3 DEF Slot

\* The uop at a position behind the buffer has just been renamed.
LEMMA PortAt ==
  ASSUME WindowInv, NEW q \in Nat, ~(q < Pos(lastIndex)), q < Pos(counterSqN)
  PROVE  /\ RnPort(q) \in Port /\ rnUOp[RnPort(q)].valid
         /\ rnUOp[RnPort(q)].sqN = Plus(baseIndex, q)
         /\ Uops[q].rd = rnUOp[RnPort(q)].rd /\ Uops[q].tag = rnUOp[RnPort(q)].tagDst
         /\ Uops[q].src = rnUOp[RnPort(q)].tag
         /\ Avail(q) = rnUOp[RnPort(q)].avail /\ ~Produced(q)
<1> DEFINE i == q - Pos(lastIndex)
<1>1. PICK m \in 0 .. Width :
        /\ \A j \in Port : /\ rnUOp[j].valid <=> j < m
                           /\ j < m => Pos(rnUOp[j].sqN) = Pos(lastIndex) + j
        /\ Pos(counterSqN) = Pos(lastIndex) + m
  BY DEF WindowInv, RenamedInOrder
<1>2. i \in Port /\ i < m /\ Pos(lastIndex) + i = q /\ q < ROBSize
  BY <1>1, FlightType, WidthType, RingType, SMT DEF Port
<1>3. rnUOp[i].valid /\ Pos(rnUOp[i].sqN) = q  BY <1>1, <1>2
<1>4. rnUOp[i].sqN = Plus(baseIndex, q)
  BY <1>2, <1>3, SqNState, AtPosition DEF WindowInv
<1>5. QED  BY <1>2, <1>3, <1>4 DEF RnPort, Uops, Avail, Produced

\* The slot of a renamed uop is filled by it alone.
LEMMA EnqueuedAlone ==
  ASSUME WindowInv, ~branch.taken, NEW i \in Port, rnUOp[i].valid
  PROVE  Enqueued(RobIdx(rnUOp[i].sqN), rnUOp, branch) = {i}
<1> USE DEF WindowInv
<1>1. PICK m \in 0 .. Width :
        \A j \in Port : /\ rnUOp[j].valid <=> j < m
                        /\ j < m => Pos(rnUOp[j].sqN) = Pos(lastIndex) + j
  BY DEF RenamedInOrder
<1>2. \A j \in Port : rnUOp[j].sqN \in SqNs  BY SqNState
<1>3. baseIndex \in SqNs /\ Pos(lastIndex) \in Int  BY SqNState, PosType
<1>4. i \in Enqueued(RobIdx(rnUOp[i].sqN), rnUOp, branch)  BY DEF Enqueued
<1>5. ASSUME NEW j \in Enqueued(RobIdx(rnUOp[i].sqN), rnUOp, branch)
      PROVE  j = i
  <2>1. j \in Port /\ rnUOp[j].valid /\ RobIdx(rnUOp[j].sqN) = RobIdx(rnUOp[i].sqN)
    BY DEF Enqueued
  <2>2. /\ Pos(rnUOp[j].sqN) = Pos(lastIndex) + j
        /\ Pos(rnUOp[i].sqN) = Pos(lastIndex) + i
    BY <1>1, <2>1
  <2>3. i \in Nat /\ j \in Nat  BY <2>1, WidthType, SMT DEF Port
  <2>4. 0 <= Pos(rnUOp[j].sqN) /\ 0 <= Pos(rnUOp[i].sqN)  BY <1>3, <2>2, <2>3, SMT
  <2>5. rnUOp[j].sqN = rnUOp[i].sqN
    BY <1>2, <1>3, <2>1, <2>4, RobIdxInjective DEF Pos
  <2> QED  BY <1>3, <2>2, <2>3, <2>5, SMT
<1>6. QED  BY <1>4, <1>5

\* What a slot holds after a cycle if a renamed uop enters it ...
LEMMA SlotEntered ==
  ASSUME WindowInv, RedirectCovers, ~branch.taken, NEW i \in Port, rnUOp[i].valid,
         NEW F \in AnyCompletions, BackendStep(F), EnqueueStep(rnUOp, F, branch)
  PROVE  LET k == RobIdx(rnUOp[i].sqN)
         IN  /\ entries'[k] = EntryOf(rnUOp[i]) /\ flags'[k] = InitialFlags(rnUOp[i].fu)
             /\ backend'[k] = Entered(rnUOp[i], WrittenBack(F))
<1> DEFINE k == RobIdx(rnUOp[i].sqN)
<1>1. Enqueued(k, rnUOp, branch) = {i}  BY EnqueuedAlone
<1>2. k \in RobIdxs  BY SqNState, RobIdxType DEF WindowInv
<1>3. Completed(k, F, branch) = {}
  <2>1. Enqueued(k, rnUOp, branch) # {}  BY <1>1
  <2> HIDE DEF k
  <2> QED  BY <2>1, EntersAlone
<1>4. (CHOOSE j \in Enqueued(k, rnUOp, branch) : TRUE) = i  BY <1>1
<1> HIDE DEF k
<1>5. Enqueued(k, rnUOp, branch) # {}  BY <1>1
<1>6. entries'[k] = EntryOf(rnUOp[i])  BY <1>2, <1>4, <1>5 DEF EnqueueStep
<1>7. flags'[k] = InitialFlags(rnUOp[i].fu)  BY <1>2, <1>3, <1>4, <1>5 DEF EnqueueStep
<1>8. backend'[k] = Entered(rnUOp[i], WrittenBack(F))  BY <1>2, <1>4, <1>5 DEF BackendStep
<1>9. QED  BY <1>6, <1>7, <1>8 DEF k

\* ... and if the uop in it stays.
LEMMA SlotKept ==
  ASSUME WindowInv, NEW s \in SqNs, InROB(s),
         NEW F \in AnyCompletions, BackendStep(F), EnqueueStep(rnUOp, F, branch)
  PROVE  LET k == RobIdx(s)
         IN  /\ entries'[k] = entries[k]
             /\ Completed(k, F, branch) = {} => flags'[k] = flags[k]
             /\ Completed(k, F, branch) # {} =>
                  \E u \in Completed(k, F, branch) : flags'[k] = u.flags
             /\ backend'[k].tag = backend[k].tag
             /\ backend'[k].avail = (backend[k].avail \/ backend[k].tag \in WrittenBack(F))
             /\ backend'[k].early =
                  (backend[k].early \/ \E u \in F : RobIdx(u.sqN) = k /\ u.doNotCommit)
             /\ backend'[k].fu = backend[k].fu
             /\ backend'[k].loadSqN = backend[k].loadSqN
             /\ backend'[k].storeSqN = backend[k].storeSqN
<1> DEFINE k == RobIdx(s)
<1>1. Enqueued(k, rnUOp, branch) = {} /\ k \in RobIdxs  BY EntryNotOverwritten, RobIdxType
<1> HIDE DEF k
<1> DEFINE woken == backend[k].avail \/ backend[k].tag \in WrittenBack(F)
           first == backend[k].early \/ \E u \in F : RobIdx(u.sqN) = k /\ u.doNotCommit
           wrong == backend[k].mispred
                      /\ ~ \E t \in intRes : RobIdx(t) = k /\ branch.taken /\ branch.sqN = t
                                             /\ ~branch.flush /\ ~branch.isSCFail
<1>2. backend'[k] = [backend[k] EXCEPT !.avail = woken, !.early = first, !.mispred = wrong]
  BY <1>1 DEF BackendStep
<1>3. backend[k] \in BackendUOp  BY <1>1 DEF WindowInv, TypeOK
<1>4. /\ backend'[k].tag = backend[k].tag /\ backend'[k].avail = woken /\ backend'[k].early = first
      /\ backend'[k].fu = backend[k].fu
      /\ backend'[k].loadSqN = backend[k].loadSqN /\ backend'[k].storeSqN = backend[k].storeSqN
  <2> HIDE DEF woken, first, wrong
  <2> QED  BY <1>2, <1>3 DEF BackendUOp
<1>5. entries'[k] = entries[k]  BY <1>1 DEF EnqueueStep
<1>6. Completed(k, F, branch) = {} => flags'[k] = flags[k]  BY <1>1 DEF EnqueueStep
<1>7. Completed(k, F, branch) # {} => \E u \in Completed(k, F, branch) : flags'[k] = u.flags
  BY <1>1 DEF EnqueueStep
<1>8. QED  BY <1>4, <1>5, <1>6, <1>7 DEF k

\* What a cycle does, as far as the proofs below need it; n uops leave the buffer.
CycleOf(F, n) ==
  /\ F \in AnyCompletions /\ BackendStep(F) /\ RedirectStep(F)
  /\ EnqueueStep(rnUOp, F, branch)
  /\ RedirectCycle(F) \/ ReplayCycle(F) \/ TrapCycle(F) \/ CommitCycle(F)
  /\ n \in 0 .. Width /\ RobMoves(n)

LEMMA CycleParts ==
  ASSUME WindowInv, NEW F \in AnyCompletions, Cycle(F)
  PROVE  \E n \in 0 .. Width : CycleOf(F, n)
<1>1. F \in SUBSET FlagsUOp  BY CompletionsType DEF WindowInv
<1>2. /\ RedirectCycle(F) \/ ReplayCycle(F) \/ TrapCycle(F) \/ CommitCycle(F)
      /\ BackendStep(F) /\ RedirectStep(F)
  BY DEF Cycle
<1>3. EnqueueStep(rnUOp, F, branch)
  BY <1>2 DEF RedirectCycle, ReplayCycle, TrapCycle, CommitCycle, ROBReplay, ROBStop, ROBCommit
<1>4. PICK n \in 0 .. Width : RobMoves(n)  BY <1>1, <1>2, RobAlwaysMoves
<1>5. QED  BY <1>2, <1>3, <1>4 DEF CycleOf

\* The window after a cycle, in the positions of before.
LEMMA FlightAfter ==
  ASSUME WindowInv, WindowInv', NEW F, NEW n, CycleOf(F, n)
  PROVE  /\ n \in Nat /\ n <= Width /\ n <= InFlight
         /\ baseIndex' = Plus(baseIndex, n)
         /\ Pos(lastIndex)' \in Nat /\ InFlight' \in Nat /\ Pos(lastIndex)' <= InFlight'
         /\ InFlight' < ROBSize
         /\ Pos(lastIndex)' + n <= InFlight
         /\ branch.taken => n = 0 /\ InFlight' = Pos(lastIndex)'
                            /\ Pos(lastIndex)' = Pos(branch.sqN) + 1
         /\ ~branch.taken => Pos(lastIndex)' + n = InFlight
<1> USE DEF CycleOf, RobMoves
<1>1. n \in Nat /\ n <= Width  BY WidthType, SMT
<1>2. baseIndex' = Plus(baseIndex, n) /\ (branch.taken => n = 0) /\ n <= Pos(lastIndex)
  BY DEF Advances
<1>3. n <= InFlight  BY <1>1, <1>2, FlightType, SMT
<1>4. /\ Pos(lastIndex)' \in Nat /\ InFlight' \in Nat /\ Pos(lastIndex)' <= InFlight'
      /\ InFlight' < ROBSize
  <2>1. (/\ Pos(lastIndex) \in Nat /\ InFlight \in Nat
         /\ Pos(lastIndex) <= InFlight /\ InFlight < ROBSize)'
    BY FlightType, PTL
  <2> QED  BY <2>1, RingType
<1>5. lastIndex' \in SqNs /\ n <= Pos(lastIndex')  BY LastAfter DEF LastIs
<1>6. Pos(lastIndex') \in Int /\ Pos(branch.sqN) \in Int  BY <1>5, SqNState, PosType DEF WindowInv
<1>7. Pos(lastIndex)' = Pos(lastIndex') - n
  <2>1. n - 1 <= Pos(lastIndex')  BY <1>1, <1>5, <1>6, SMT
  <2>2. Diff(lastIndex', baseIndex') = Pos(lastIndex') - n
    BY <1>5, <2>1, PosShift DEF WindowInv
  <2> QED  BY <2>2 DEF Pos
<1>8. ASSUME branch.taken
      PROVE  InFlight' = Pos(lastIndex)' /\ Pos(lastIndex') = Pos(branch.sqN) + 1
             /\ Pos(branch.sqN) < Pos(lastIndex) /\ InFlight = Pos(lastIndex)
  <2>1. RedirectCycle(F)  BY <1>8 DEF ReplayCycle, TrapCycle, CommitCycle
  <2>2. counterSqN' = Plus(branch.sqN, 1)  BY <2>1 DEF RedirectCycle, RNRedirect
  <2>3. lastIndex' = Plus(branch.sqN, 1)  BY <1>8 DEF EnqueueStep
  <2>4. InFlight' = Pos(lastIndex)'  BY <2>2, <2>3 DEF InFlight, Pos
  <2> QED  BY <1>8, <2>4 DEF LastIs, WindowInv, BranchInWindow, InFlight
<1>9. ASSUME ~branch.taken
      PROVE  Pos(lastIndex') = InFlight
  BY <1>9 DEF LastIs, InFlight
<1>10. Pos(lastIndex)' + n <= InFlight
  <2>1. CASE branch.taken
    BY <1>1, <1>2, <1>6, <1>7, <1>8, <2>1, FlightType, SMT
  <2>2. CASE ~branch.taken
    BY <1>1, <1>6, <1>7, <1>9, <2>2, SMT
  <2> QED  BY <2>1, <2>2
<1>11. branch.taken => Pos(lastIndex)' = Pos(branch.sqN) + 1
  BY <1>1, <1>2, <1>6, <1>7, <1>8, SMT
<1>12. ~branch.taken => Pos(lastIndex)' + n = InFlight
  BY <1>1, <1>6, <1>7, <1>9, SMT
<1>13. QED  BY <1>1, <1>2, <1>3, <1>4, <1>8, <1>10, <1>11, <1>12

\* Every slot that is in the buffer after a cycle held the same uop before, or that
\* uop has just been renamed.
LEMMA SlotMoves ==
  ASSUME WindowInv, WindowInv', NEW F, NEW n, CycleOf(F, n), NEW q \in Nat, q < Pos(lastIndex)'
  PROVE  /\ q + n \in Nat /\ q + n < InFlight
         /\ Slot(q)' = Slot(q + n)
<1>1. /\ q + n \in Nat /\ q + n < InFlight /\ q + n < ROBSize /\ n \in Nat
      /\ baseIndex' = Plus(baseIndex, n)
  BY FlightAfter, FlightType, RingType, SMT
<1>2. Plus(Plus(baseIndex, n), q) = Plus(baseIndex, q + n)
  BY <1>1, SqNState, PlusPlus DEF WindowInv
<1>3. Slot(q)' = RobIdx(Plus(baseIndex', q))  BY DEF Slot
<1>4. QED  BY <1>1, <1>2, <1>3 DEF Slot

\* The uops in the buffer after a cycle: what they are does not change, a result that
\* was reported makes operands available.
LEMMA UopsMove ==
  ASSUME WindowInv, WindowInv', RedirectCovers, NEW F, NEW n, CycleOf(F, n),
         NEW q \in Nat, q < Pos(lastIndex)'
  PROVE  /\ Uops'[q].rd = Uops[q + n].rd /\ Uops'[q].tag = Uops[q + n].tag
         /\ Uops'[q].src = Uops[q + n].src
         /\ Avail(q)' = (Avail(q + n) \/ Uops[q + n].src \in WrittenBack(F))
<1> USE DEF CycleOf
<1> DEFINE k == Slot(q + n)
<1>1. q + n \in Nat /\ q + n < InFlight /\ Slot(q)' = k  BY SlotMoves
<1>2. /\ Uops'[q].rd = entries'[k].rd /\ Uops'[q].tag = entries'[k].tag
      /\ Uops'[q].src = backend'[k].tag
      /\ Avail(q)' = backend'[k].avail
  BY <1>1 DEF Uops, Avail
<1>3. CASE q + n < Pos(lastIndex)
  <2> DEFINE s == Plus(baseIndex, q + n)
  <2>1. /\ s \in SqNs /\ InROB(s) /\ RobIdx(s) = k
        /\ Uops[q + n].rd = entries[k].rd /\ Uops[q + n].tag = entries[k].tag
        /\ Uops[q + n].src = backend[k].tag
        /\ Avail(q + n) = backend[k].avail
    BY <1>1, <1>3, SlotAt DEF Slot
  <2> HIDE DEF k, s
  <2>2. /\ entries'[k] = entries[k] /\ backend'[k].tag = backend[k].tag
        /\ backend'[k].avail = (backend[k].avail \/ backend[k].tag \in WrittenBack(F))
    BY <2>1, SlotKept
  <2> QED  BY <1>2, <2>1, <2>2
<1>4. CASE ~(q + n < Pos(lastIndex))
  <2> DEFINE i == RnPort(q + n)
  <2>1. ~branch.taken /\ q + n < Pos(counterSqN)
    <3>1. branch.taken => InFlight = Pos(lastIndex)  BY DEF InFlight
    <3>2. ~branch.taken  BY <1>1, <1>4, <3>1
    <3> QED  BY <1>1, <3>2 DEF InFlight
  <2>2. /\ i \in Port /\ rnUOp[i].valid /\ RobIdx(rnUOp[i].sqN) = k
        /\ Uops[q + n].rd = rnUOp[i].rd /\ Uops[q + n].tag = rnUOp[i].tagDst
        /\ Uops[q + n].src = rnUOp[i].tag
        /\ Avail(q + n) = rnUOp[i].avail
    BY <1>1, <1>4, <2>1, PortAt DEF Slot
  <2> HIDE DEF k, i
  <2>3. entries'[k] = EntryOf(rnUOp[i]) /\ backend'[k] = Entered(rnUOp[i], WrittenBack(F))
    BY <2>1, <2>2, SlotEntered
  <2>4. /\ entries'[k].rd = rnUOp[i].rd /\ entries'[k].tag = rnUOp[i].tagDst
        /\ backend'[k].tag = rnUOp[i].tag
        /\ backend'[k].avail = (rnUOp[i].avail \/ rnUOp[i].tag \in WrittenBack(F))
    BY <2>3 DEF EntryOf, Entered
  <2> QED  BY <1>2, <2>2, <2>4
<1>5. QED  BY <1>3, <1>4

\* Who owns the register of the uop at position q.
OwnerKind(q) == IF q < Pos(lastIndex) THEN "rob" ELSE "rename"
OwnerAt(q)   == IF q < Pos(lastIndex) THEN Plus(baseIndex, q) ELSE RnPort(q)

LEMMA UopOwner ==
  ASSUME WindowInv, NEW q \in Nat, q < InFlight
  PROVE  /\ Owns(OwnerKind(q), OwnerAt(q), Uops[q].tag)
         /\ OwnerKind(q) \in Kind /\ OwnerKind(q) # "ready" /\ OwnerAt(q) \in Nat
<1>1. CASE q < Pos(lastIndex)
  <2>1. RobOwns(Plus(baseIndex, q), Uops[q].tag)  BY <1>1, SlotAt DEF RobOwns, Slot
  <2>2. OwnerKind(q) = "rob" /\ OwnerAt(q) = Plus(baseIndex, q)
    BY <1>1 DEF OwnerKind, OwnerAt
  <2>3. Plus(baseIndex, q) \in Nat  BY <1>1, SlotAt, RingType, SMT DEF SqNs
  <2> QED  BY <2>1, <2>2, <2>3 DEF Owns, Kind
<1>2. CASE ~(q < Pos(lastIndex))
  <2>1. ~branch.taken /\ q < Pos(counterSqN)  BY <1>2 DEF InFlight
  <2>2. RenameOwns(RnPort(q), Uops[q].tag)  BY <1>2, <2>1, PortAt DEF RenameOwns, InRename
  <2>3. OwnerKind(q) = "rename" /\ OwnerAt(q) = RnPort(q)  BY <1>2 DEF OwnerKind, OwnerAt
  <2>4. RnPort(q) \in Nat  BY <1>2, <2>1, PortAt, WidthType, SMT DEF Port
  <2> QED  BY <2>2, <2>3, <2>4 DEF Owns, Kind
<1>3. QED  BY <1>1, <1>2

\* Two uops in flight never have the same register.
LEMMA UopOwnsAlone ==
  ASSUME WindowInv, NEW p \in Nat, p < InFlight, NEW q \in Nat, q < InFlight,
         OwnedOnce(Uops[p].tag), Uops[p].tag = Uops[q].tag
  PROVE  p = q
<1>1. OwnerKind(p) = OwnerKind(q) /\ OwnerAt(p) = OwnerAt(q)
  <2> DEFINE t == Uops[p].tag
  <2>1. Owns(OwnerKind(p), OwnerAt(p), t) /\ OwnerKind(p) \in Kind /\ OwnerAt(p) \in Nat
    BY UopOwner
  <2>2. Owns(OwnerKind(q), OwnerAt(q), t) /\ OwnerKind(q) \in Kind /\ OwnerAt(q) \in Nat
    BY UopOwner
  <2>3. OwnedOnce(t)  OBVIOUS
  <2> HIDE DEF t
  <2> QED  BY <2>1, <2>2, <2>3 DEF OwnedOnce
<1>2. CASE p < Pos(lastIndex)
  <2>1. q < Pos(lastIndex)  BY <1>1, <1>2 DEF OwnerKind
  <2>2. Plus(baseIndex, p) = Plus(baseIndex, q)  BY <1>1, <1>2, <2>1 DEF OwnerAt
  <2> QED  BY <1>2, <2>1, <2>2, SlotAt
<1>3. CASE ~(p < Pos(lastIndex))
  <2>1. ~(q < Pos(lastIndex))  BY <1>1, <1>3 DEF OwnerKind
  <2>2. p - Pos(lastIndex) = q - Pos(lastIndex)  BY <1>1, <1>3, <2>1 DEF OwnerAt, RnPort
  <2>3. Pos(lastIndex) \in Nat  BY FlightType
  <2> QED  BY <2>2, <2>3, SMT
<1>4. QED  BY <1>2, <1>3

-----------------------------------------------------------------------------
(* Results. *)

\* No report says that its uop has not executed, none says that it trapped at decode.
LEMMA ReportedFlags ==
  ASSUME TypeOK, NEW F \in AnyCompletions, NEW u \in F
  PROVE  u.flags # "NX" /\ u.flags # "TRAP"
<1>1. CASE \E t \in SqNs : u \in Reports(t)
  <2>1. PICK t \in SqNs : u \in Reports(t)  BY <1>1
  <2>2. Unit(t).fu \in FuncUnit  BY UnitType DEF BackendUOp
  <2>3. "ATOMIC" \in FuncUnit  BY DEF FuncUnit
  <2>4. u.flags = "NONE" \/ \E f \in FuncUnit : u.flags \in Outcome[f]
    BY <2>1, <2>2, <2>3 DEF Reports
  <2> QED  BY <2>4, RenameCommitAssumption
<1>2. CASE \E t : u = BranchReport(t)
  BY <1>2 DEF BranchReport
<1>3. QED  BY <1>1, <1>2, ReportSource

\* If a cycle leaves a uop in the buffer, every report of it is about a uop that was in
\* the buffer.
LEMMA ReportInROB ==
  ASSUME WindowInv, WindowInv', RedirectCovers, RedirectsRaised,
         NEW F, NEW n, CycleOf(F, n), NEW q \in Nat, q < Pos(lastIndex)',
         NEW u \in F
  PROVE  InROB(u.sqN)
<1>1. CASE u.sqN \in intRes
  <2> DEFINE s == u.sqN
  <2>1. branch.taken /\ Diff(branch.sqN, s) <= 0 /\ -1 <= Pos(s) /\ Pos(s) < Pos(lastIndex)
        /\ s \in SqNs /\ branch.sqN \in SqNs
    BY <1>1, SqNState DEF RedirectCovers, RedirectsRaised, WindowInv, TypeOK
  <2>2. -1 <= Pos(branch.sqN) /\ Pos(branch.sqN) < Pos(lastIndex)
    BY <2>1 DEF WindowInv, BranchInWindow
  <2>3. Pos(lastIndex)' = Pos(branch.sqN) + 1  BY <2>1, FlightAfter
  <2> HIDE DEF s
  <2>4. Diff(branch.sqN, s) = Pos(branch.sqN) - Pos(s)  BY <2>1, <2>2, OlderByPos
  <2>5. Pos(branch.sqN) \in Int /\ Pos(s) \in Int  BY <2>1, PosType DEF WindowInv
  <2>6. 0 <= Pos(s)  BY <2>1, <2>3, <2>4, <2>5, SMT
  <2>7. InROB(s)  BY <2>1, <2>6 DEF InROB, Pos
  <2> QED  BY <2>7 DEF s
<1>2. CASE ~(u.sqN \in intRes)
  BY <1>2, CompletionSource DEF CycleOf
<1>3. QED  BY <1>1, <1>2

\* What reports a fault reports no result.
LEMMA FaultIsNoResult ==
  ASSUME NEW F \in AnyCompletions, NEW u \in F, u.flags \in MemFault
  PROVE  ~u.doNotCommit
<1>1. CASE \E t \in SqNs : u \in Reports(t)
  <2>1. PICK t \in SqNs : u \in Reports(t)  BY <1>1
  <2>2. u.doNotCommit = FALSE \/ (u.doNotCommit = (u.flags = "NONE"))
    BY <2>1 DEF Reports
  <2>3. u.flags # "NONE"  BY DEF MemFault
  <2> QED  BY <2>2, <2>3
<1>2. CASE \E t : u = BranchReport(t)
  BY <1>2 DEF BranchReport
<1>3. QED  BY <1>1, <1>2, ReportSource

\* It is the only report of a uop that waits.
LEMMA FaultSource ==
  ASSUME NEW F \in AnyCompletions, NEW u \in F, u.flags \in MemFault
  PROVE  /\ u.sqN \in SqNs /\ Waiting(u.sqN) /\ ~Unit(u.sqN).mispred /\ u \in Reports(u.sqN)
<1>1. CASE \E t \in SqNs : u \in Reports(t)
  <2>1. PICK t \in SqNs : u \in Reports(t)  BY <1>1
  <2>2. u.sqN = t /\ MayExecute(t) /\ ~Unit(t).mispred  BY <2>1 DEF Reports
  <2> QED  BY <2>1, <2>2 DEF MayExecute
<1>2. CASE \E t : u = BranchReport(t)
  BY <1>2 DEF BranchReport, MemFault
<1>3. QED  BY <1>1, <1>2, ReportSource

LEMMA FaultIsAlone ==
  ASSUME WindowInv, RedirectsRaised, NEW F \in AnyCompletions,
         NEW u \in F, u.flags \in MemFault, NEW v \in F, InROB(v.sqN),
         RobIdx(v.sqN) = RobIdx(u.sqN)
  PROVE  v = u
<1>1. /\ u.sqN \in SqNs /\ Waiting(u.sqN) /\ ~Unit(u.sqN).mispred /\ u \in Reports(u.sqN)
  BY FaultSource
<1>2. v.sqN = u.sqN
  <2>1. InROB(u.sqN) /\ v.sqN \in SqNs  BY <1>1 DEF Waiting, InROB
  <2> QED  BY <1>1, <2>1, SqNState, RobIdxInjective, PosType DEF InROB, Pos, WindowInv
<1>3. PICK G : /\ F = {BranchReport(t) : t \in intRes} \cup G
               /\ \A x, y \in G : x.sqN = y.sqN => x = y
  BY DEF AnyCompletions
<1>4. \A t : BranchReport(t).sqN = t /\ BranchReport(t).flags \notin MemFault
  BY DEF BranchReport, MemFault
<1>5. u \in G  BY <1>3, <1>4
<1>6. v \in G
  <2> SUFFICES ASSUME NEW t \in intRes, v = BranchReport(t)  PROVE FALSE
    BY <1>3
  <2>1. t = u.sqN /\ InROB(t)  BY <1>2, <1>4
  <2>2. Unit(t).mispred  BY <2>1 DEF RedirectsRaised
  <2> QED  BY <1>1, <2>1, <2>2
<1>7. QED  BY <1>2, <1>3, <1>5, <1>6

\* A uop that has reported its result stays one.
LEMMA ReturnedStays ==
  ASSUME WindowInv, WindowInv', RedirectCovers, RedirectsRaised, NEW F, NEW n, CycleOf(F, n),
         NEW q \in Nat, q < Pos(lastIndex)', Returned(q + n)
  PROVE  Returned(q)'
<1> USE DEF CycleOf
<1> DEFINE k == Slot(q + n)
           s == Plus(baseIndex, q + n)
<1>1. q + n \in Nat /\ Slot(q)' = k  BY SlotMoves
<1>2. /\ s \in SqNs /\ InROB(s) /\ RobIdx(s) = k
      /\ backend[k].early \/ flags[k] \notin {"NX"} \cup MemFault
  BY <1>1, SlotAt DEF Slot, Returned, Produced
<1>3. Returned(q)' <=> backend'[k].early \/ flags'[k] \notin {"NX"} \cup MemFault
  BY <1>1 DEF Returned, Produced
<1> HIDE DEF k, s
<1>4. backend[k].early => backend'[k].early  BY <1>2, SlotKept
<1>5. flags[k] \notin {"NX"} \cup MemFault => flags'[k] \notin {"NX"} \cup MemFault
  <2> SUFFICES ASSUME flags[k] # "NX", Completed(k, F, branch) # {}
               PROVE  flags'[k] \notin {"NX"} \cup MemFault
    <3>1. Completed(k, F, branch) = {} => flags'[k] = flags[k]  BY <1>2, SlotKept
    <3> QED  BY <3>1
  <2>1. PICK u \in Completed(k, F, branch) : flags'[k] = u.flags  BY <1>2, SlotKept
  <2>2. u \in F /\ RobIdx(u.sqN) = k  BY <2>1 DEF Completed
  <2>3. u.flags # "NX"  BY <2>2, ReportedFlags DEF WindowInv
  <2>4. u.flags \notin MemFault  BY <2>2, FaultSource DEF Waiting
  <2> QED  BY <2>1, <2>3, <2>4
<1>6. QED  BY <1>2, <1>3, <1>4, <1>5

\* A result comes with a report, unless rename has done the work.
LEMMA ProducedSource ==
  ASSUME WindowInv, WindowInv', RedirectCovers, TagsAgree, EliminatedNeedsNone,
         TrapsWriteNothing, NEW F, NEW n, CycleOf(F, n),
         NEW q \in Nat, q < Pos(lastIndex)', Returned(q)', Uops[q + n].tag \in RFTag
  PROVE  Returned(q + n) \/ Uops[q + n].tag \in WrittenBack(F)
<1> USE DEF CycleOf
<1> DEFINE k == Slot(q + n)
<1>1. q + n \in Nat /\ q + n < InFlight /\ Slot(q)' = k  BY SlotMoves
<1>2. backend'[k].early \/ flags'[k] \notin {"NX"} \cup MemFault
  BY <1>1 DEF Returned, Produced
<1>3. CASE q + n < Pos(lastIndex)
  <2> DEFINE s == Plus(baseIndex, q + n)
  <2>1. /\ s \in SqNs /\ InROB(s) /\ RobIdx(s) = k
        /\ Uops[q + n].tag = entries[k].tag
    BY <1>1, <1>3, SlotAt DEF Slot
  <2>2. ASSUME NEW u \in F, RobIdx(u.sqN) = k  PROVE u.tagDst = Uops[q + n].tag
    BY <2>1, <2>2, ReportedTag DEF TagsAgree
  <2>3. Returned(q + n) <=> backend[k].early \/ flags[k] \notin {"NX"} \cup MemFault
    BY <1>3 DEF Returned, Produced
  <2> HIDE DEF k, s
  <2>4. CASE \E u \in F : RobIdx(u.sqN) = k /\ u.flags \notin MemFault
    BY <2>2, <2>4 DEF WrittenBack
  <2>5. CASE ~ \E u \in F : RobIdx(u.sqN) = k /\ u.flags \notin MemFault
    <3>1. backend'[k].early = backend[k].early
      <4>1. backend'[k].early = (backend[k].early \/ \E u \in F : RobIdx(u.sqN) = k /\ u.doNotCommit)
        BY <2>1, SlotKept
      <4>2. ~ \E u \in F : RobIdx(u.sqN) = k /\ u.doNotCommit  BY <2>5, FaultIsNoResult
      <4>3. backend[k].early \in BOOLEAN
        <5>1. k \in RobIdxs  BY <2>1, RobIdxType
        <5>2. backend[k] \in BackendUOp  BY <5>1 DEF WindowInv, TypeOK
        <5> QED  BY <5>2 DEF BackendUOp
      <4> QED  BY <4>1, <4>2, <4>3
    <3>2. flags'[k] = flags[k] \/ flags'[k] \in MemFault
      <4>1. Completed(k, F, branch) = {} => flags'[k] = flags[k]  BY <2>1, SlotKept
      <4>2. Completed(k, F, branch) # {} => \E u \in Completed(k, F, branch) : flags'[k] = u.flags
        BY <2>1, SlotKept
      <4> QED  BY <2>5, <4>1, <4>2 DEF Completed
    <3> QED  BY <1>2, <2>3, <3>1, <3>2
  <2> QED  BY <2>4, <2>5
<1>4. CASE ~(q + n < Pos(lastIndex))
  <2> DEFINE i == RnPort(q + n)
  <2>1. ~branch.taken /\ q + n < Pos(counterSqN)
    <3>1. branch.taken => InFlight = Pos(lastIndex)  BY DEF InFlight
    <3>2. ~branch.taken  BY <1>1, <1>4, <3>1
    <3> QED  BY <1>1, <3>2 DEF InFlight
  <2>2. /\ i \in Port /\ rnUOp[i].valid /\ RobIdx(rnUOp[i].sqN) = k
        /\ Uops[q + n].tag = rnUOp[i].tagDst
    BY <1>1, <1>4, <2>1, PortAt DEF Slot
  <2> HIDE DEF k, i
  <2>3. flags'[k] = InitialFlags(rnUOp[i].fu) /\ backend'[k] = Entered(rnUOp[i], WrittenBack(F))
    BY <2>1, <2>2, SlotEntered
  <2>4. ~backend'[k].early  BY <2>3 DEF Entered
  <2>5. rnUOp[i].fu \in {"RN", "TRAP"}  BY <1>2, <2>3, <2>4 DEF InitialFlags
  <2> QED  BY <2>2, <2>5 DEF EliminatedNeedsNone, TrapsWriteNothing
<1>5. QED  BY <1>3, <1>4

\* Whoever a result is written back for has reported it, or is squashed.
LEMMA WrittenBackReturned ==
  ASSUME WindowInv, WindowInv', RedirectCovers, RedirectsRaised, TagsAgree,
         NEW F, NEW n, CycleOf(F, n), NEW q \in Nat, q < Pos(lastIndex)',
         OwnedOnce(Uops[q + n].tag), Uops[q + n].tag \in WrittenBack(F)
  PROVE  Returned(q)'
<1> USE DEF CycleOf
<1>1. PICK u \in F : u.tagDst = Uops[q + n].tag /\ u.flags \notin MemFault
  BY DEF WrittenBack
<1> DEFINE s == u.sqN
           k == RobIdx(s)
<1>2. InROB(s)  BY ReportInROB
<1>3. /\ s \in SqNs /\ Pos(s) \in Nat /\ Pos(s) < Pos(lastIndex) /\ Slot(Pos(s)) = k
  BY <1>2, PosOfSlot
<1>4. Uops[Pos(s)].tag = u.tagDst
  <2>1. Uops[Pos(s)].tag = entries[k].tag  BY <1>3, SlotAt
  <2> QED  BY <1>2, <1>3, <2>1, ReportedTag DEF TagsAgree
<1>5. Pos(s) = q + n
  <2>1. q + n \in Nat /\ q + n < InFlight  BY SlotMoves
  <2>2. Pos(s) < InFlight  BY <1>3, FlightType, SMT
  <2> QED  BY <1>1, <1>3, <1>4, <2>1, <2>2, UopOwnsAlone
<1>6. Slot(q)' = k  BY <1>3, <1>5, SlotMoves
<1>7. ~Squashed(s, branch)
  <2> SUFFICES ASSUME branch.taken  PROVE ~(Diff(s, branch.sqN) > 0)
    BY DEF Squashed
  <2>1. n = 0 /\ Pos(lastIndex)' = Pos(branch.sqN) + 1  BY FlightAfter
  <2>2. branch.sqN \in SqNs /\ -1 <= Pos(branch.sqN) /\ Pos(branch.sqN) < Pos(lastIndex)
    BY SqNState DEF WindowInv, BranchInWindow
  <2>3. -1 <= Pos(s)  BY <1>3, SMT
  <2>4. Diff(s, branch.sqN) = Pos(s) - Pos(branch.sqN)
    BY <1>3, <2>2, <2>3, OlderByPos
  <2>5. Pos(branch.sqN) \in Int  BY <2>2, PosType DEF WindowInv
  <2> QED  BY <1>5, <2>1, <2>4, <2>5, SMT
<1>8. Returned(q)' <=> backend'[k].early \/ flags'[k] \notin {"NX"} \cup MemFault
  BY <1>6 DEF Returned, Produced
<1> HIDE DEF k
<1>9. CASE u.doNotCommit
  <2>1. backend'[k].early =
          (backend[k].early \/ \E v \in F : RobIdx(v.sqN) = k /\ v.doNotCommit)
    BY <1>2, <1>3, SlotKept DEF k
  <2>2. \E v \in F : RobIdx(v.sqN) = k /\ v.doNotCommit  BY <1>9 DEF k
  <2> QED  BY <1>8, <2>1, <2>2
<1>10. CASE ~u.doNotCommit
  <2>1. Completed(k, F, branch) # {}  BY <1>7, <1>10 DEF Completed, k
  <2>2. \E v \in Completed(k, F, branch) : flags'[k] = v.flags
    BY <1>2, <1>3, <2>1, SlotKept DEF k
  <2>3. \A v \in Completed(k, F, branch) : v.flags # "NX"
    BY ReportedFlags DEF Completed, WindowInv
  <2>4. ASSUME NEW v \in Completed(k, F, branch)  PROVE v.flags \notin MemFault
    <3>1. v \in F /\ RobIdx(v.sqN) = RobIdx(u.sqN)  BY DEF Completed, k
    <3> QED  BY <1>1, <1>2, <3>1, FaultIsAlone
  <2> QED  BY <1>8, <2>2, <2>3, <2>4
<1>11. QED  BY <1>9, <1>10

-----------------------------------------------------------------------------
(* Commit, replay and rename as the map sees them. *)

\* Unless it traps, a commit shows the oldest uops, and they have been executed.
LEMMA CommitMoves ==
  ASSUME WindowInv, NEW F, NEW n, CycleOf(F, n), ~mispredFlush', ~trapUOp'.valid
  PROVE  \A i \in Port :
           /\ comUOp'[i].valid <=> i < n
           /\ i < n => /\ comUOp'[i].rd = Uops[i].rd /\ comUOp'[i].tag = Uops[i].tag
                       /\ Produced(i) /\ Returned(i)
<1> USE DEF CycleOf
<1>1. /\ baseIndex' = Plus(baseIndex, n) /\ n <= Pos(lastIndex)
      /\ baseIndex \in SqNs /\ n \in 0 .. Width
  BY SqNState DEF RobMoves, Advances, WindowInv
<1>2. CASE /\ baseIndex' = baseIndex
           /\ \A i \in Port : comUOp'[i] = NoRATWrite
  <2>1. Plus(baseIndex, 0) = baseIndex  BY <1>1, RingType, SMT DEF Plus, SqNs
  <2>2. n = 0
    <3>1. 0 \in 0 .. Width  BY WidthType, SMT
    <3> QED  BY <1>1, <1>2, <2>1, <3>1, PlusInjective
  <2>3. \A i \in Port : ~(i < n)  BY <2>2, WidthType, SMT DEF Port
  <2> QED  BY <1>2, <2>3 DEF NoRATWrite
<1>3. CASE RedirectCycle(F) \/ ReplayCycle(F)
  <2>1. ReplayStep(Replaying(branch))  BY <1>3 DEF RedirectCycle, ReplayCycle, ROBReplay
  <2> DEFINE r == Replaying(branch)
  <2> HIDE DEF r
  <2>2. ReplayStep(r)  BY <2>1 DEF r
  <2>3. \A i \in Port : ~Survives(r, i)  BY <2>2 DEF ReplayStep
  <2>4. baseIndex' = baseIndex /\ \A i \in Port : comUOp'[i] = NoRATWrite
    BY <2>2, <2>3 DEF ReplayStep, ReplayedUOp
  <2> QED  BY <1>2, <2>4
<1>4. CASE TrapCycle(F)
  <2>1. CommitStep(0, FALSE)  BY <1>4 DEF TrapCycle, ROBStop
  <2>2. \A i \in Port : ~(i < 0)  BY WidthType, SMT DEF Port
  <2>3. Plus(baseIndex, 0) = baseIndex  BY <1>1, RingType, SMT DEF Plus, SqNs
  <2>4. baseIndex' = baseIndex /\ \A i \in Port : comUOp'[i] = NoRATWrite
    BY <2>1, <2>2, <2>3 DEF CommitStep
  <2> QED  BY <1>2, <2>4
<1>5. CASE CommitCycle(F)
  <2>1. PICK m \in 0 .. Width, hang \in {FALSE, AllowTimeout} :
          Commits(m, hang) /\ CommitStep(m, hang)
    BY <1>5 DEF CommitCycle, ROBCommit
  <2>2. m = n
    <3>1. Plus(baseIndex, m) = Plus(baseIndex, n)  BY <1>1, <2>1 DEF CommitStep
    <3> QED  BY <1>1, <3>1, PlusInjective
  <2>3. \A i \in Port : comUOp'[i] = IF i < n THEN CommittedUOp(i, hang) ELSE NoRATWrite
    BY <2>1, <2>2 DEF CommitStep
  <2>4. n > 0 => ~SendsTrap(n - 1, hang)
    <3>1. ~(n > 0 /\ SendsTrap(n - 1, hang))  BY <2>1, <2>2 DEF CommitStep, TrapOf
    <3> QED  BY <3>1
  <2>5. ASSUME NEW i \in Port, i < n
        PROVE  /\ comUOp'[i] = [valid |-> TRUE, rd |-> entries[Deq(i)].rd, tag |-> entries[Deq(i)].tag]
               /\ flags[Deq(i)] # "NX" /\ i \in Nat /\ i < Pos(lastIndex)
               /\ flags[Deq(i)] \notin MemFault
    <3>1. i + 1 < n \/ (n > 0 /\ i = n - 1)  BY <1>1, <2>5, WidthType, SMT DEF Port
    <3>2. ~SendsTrap(i, hang)  BY <2>1, <2>2, <2>4, <3>1 DEF Commits
    <3>3. MayCommit(i, hang)  BY <2>1, <2>2, <2>5 DEF Commits
    <3>4. ~IsException(i, hang) /\ ~TimedOut(i, hang)
      BY <3>2 DEF SendsTrap, IsException
    <3>5. flags[Deq(i)] # "NX" /\ i < Pos(lastIndex)  BY <3>3, <3>4 DEF MayCommit, Pos
    <3>6. i \in Nat  BY WidthType, SMT DEF Port
    <3>7. flags[Deq(i)] \notin MemFault  BY <3>4 DEF IsException, Exception, MemFault
    <3> QED  BY <2>3, <2>5, <3>4, <3>5, <3>6, <3>7 DEF CommittedUOp
  <2>6. ASSUME NEW i \in Port, i < n
        PROVE  Deq(i) = Slot(i) /\ Uops[i].rd = entries[Slot(i)].rd /\ Uops[i].tag = entries[Slot(i)].tag
    <3>1. i \in Nat /\ i < Pos(lastIndex)  BY <2>5, <2>6
    <3> QED  BY <3>1, SlotAt DEF Deq, Slot
  <2>7. ASSUME NEW i \in Port, i < n  PROVE Produced(i) /\ Returned(i)
    BY <2>5, <2>6, <2>7 DEF Produced, Returned
  <2>8. ASSUME NEW i \in Port, i < n
        PROVE  comUOp'[i].valid /\ comUOp'[i].rd = Uops[i].rd /\ comUOp'[i].tag = Uops[i].tag
    <3>0. comUOp'[i] = [valid |-> TRUE, rd |-> entries[Deq(i)].rd, tag |-> entries[Deq(i)].tag]
      BY <2>5, <2>8
    <3>1. /\ comUOp'[i].valid /\ comUOp'[i].rd = entries[Deq(i)].rd
          /\ comUOp'[i].tag = entries[Deq(i)].tag
      BY <3>0
    <3> QED  BY <2>6, <2>8, <3>1
  <2>9. ASSUME NEW i \in Port, ~(i < n)  PROVE ~comUOp'[i].valid
    BY <2>3, <2>9 DEF NoRATWrite
  <2> QED  BY <2>7, <2>8, <2>9
<1>6. QED  BY <1>3, <1>4, <1>5

\* What leaves the buffer moves from the map above to the map below.
LEMMA BaseMoves ==
  ASSUME WindowInv, NEW F, NEW n, CycleOf(F, n), NEW used, RenameMoves(used),
         ~trapUOp'.valid, NEW r \in Reg \ {0}
  PROVE  /\ MapsTo(Uops, n, r, Base[r], Base'[r])
         /\ comTag' = Base
<1>1. comTag' = Base  BY DEF RenameMoves, Base
<1>2. CASE mispredFlush'
  <2>1. n = 0 /\ Base' = Base  BY <1>1, <1>2 DEF CycleOf, RobMoves, Base
  <2>2. \A q \in 0 .. n - 1 : FALSE  BY <2>1, SMT
  <2> QED  BY <1>1, <2>1, <2>2 DEF MapsTo
<1>3. CASE ~mispredFlush'
  <2> DEFINE w == comUOp'
             table == Base
  <2>1. Base' = Written(table, w)  BY <1>1, <1>3 DEF Base
  <2>2. \A i \in Port : w[i].valid <=> i < n  BY <1>3, CommitMoves
  <2>3. \A i \in Port : i < n => Uops[0 + i].rd = w[i].rd /\ Uops[0 + i].tag = w[i].tag
    <3>1. \A i \in Port : 0 + i = i  BY WidthType, SMT DEF Port
    <3> QED  BY <1>3, <3>1, CommitMoves
  <2>4. MapsTo(Uops, 0, r, table[r], table[r])
    <3>1. \A q \in 0 .. 0 - 1 : FALSE  BY SMT
    <3> QED  BY <3>1 DEF MapsTo
  <2>5. n \in 0 .. Width  BY DEF CycleOf
  <2> HIDE DEF table, w
  <2>6. MapsTo(Uops, 0 + n, r, table[r], Written(table, w)[r])
    BY <2>2, <2>3, <2>4, <2>5, MapsToWritten
  <2>7. 0 + n = n  BY <2>5, SMT
  <2> QED  BY <1>1, <2>1, <2>6, <2>7 DEF table
<1>4. QED  BY <1>2, <1>3

\* So the map at a place in the buffer stays what it is.
LEMMA MapMoves ==
  ASSUME WindowInv, WindowInv', RedirectCovers, NEW F, NEW n, CycleOf(F, n),
         NEW used, RenameMoves(used), ~trapUOp'.valid, NEW r \in Reg \ {0},
         NEW q \in Nat, q <= Pos(lastIndex)', NEW t, MapsTo(Uops, q + n, r, Base[r], t)
  PROVE  MapsTo(Uops', q, r, Base'[r], t)
<1> DEFINE below == Base[r]
           next == Base'[r]
<1>1. MapsTo(Uops, n, r, below, next)  BY BaseMoves
<1>2. \A k \in 0 .. q - 1 : Uops'[k].rd = Uops[k + n].rd /\ Uops'[k].tag = Uops[k + n].tag
  <2> SUFFICES ASSUME NEW k \in 0 .. q - 1
               PROVE  Uops'[k].rd = Uops[k + n].rd /\ Uops'[k].tag = Uops[k + n].tag
    OBVIOUS
  <2>1. Pos(lastIndex)' \in Nat  BY FlightAfter
  <2>2. k \in Nat /\ k < Pos(lastIndex)'  BY <2>1, SMT
  <2> QED  BY <2>2, UopsMove
<1>3. n \in Nat  BY FlightAfter
<1>4. MapsTo(Uops, q + n, r, below, t)  OBVIOUS
<1> HIDE DEF below, next
<1>5. MapsTo(Uops', q, r, next, t)  BY <1>1, <1>2, <1>3, <1>4, MapsToShift
<1>6. QED  BY <1>5 DEF next

\* What rename hands over: w is what it writes on its ports, m how many it takes.
RenamesAs(F, w, m) ==
  /\ m \in 0 .. Width
  /\ \A i \in Port :
       /\ w[i].valid <=> i < m
       /\ rnUOp'[i].valid <=> i < m
       /\ i < m =>
            /\ rnUOp'[i].rd = w[i].rd /\ rnUOp'[i].tagDst = w[i].tag
            /\ w[i].tag \in RFTag => ReadyOwns(i, w[i].tag)
            /\ \E r \in Reg :
                 /\ rnUOp'[i].tag = LookupSpecTag(i, r, w)
                 /\ rnUOp'[i].avail = LookupAvail(i, r, w, WrittenBack(F))
  /\ tagAvail' = (tagAvail \cup WrittenBack(F))
                   \ {w[i].tag : i \in {j \in Port : w[j].valid /\ w[j].rd # 0}}
  /\ specTag' = NextSpecTag(FALSE, mispredFlush, w, comUOp)
  /\ mispredFlush => m = 0

LEMMA AcceptedAs ==
  ASSUME TypeOK, NEW uop \in DecodedUOps(DUOps), NEW F, RNAccept(mispredFlush, uop, comUOp, F)
  PROVE  \E m \in 0 .. Width : RenamesAs(F, Issue(uop), m)
<1> DEFINE m == Cardinality({i \in Port : Decoded(uop, i)})
           w == Issue(uop)
<1>1. m \in 0 .. Width /\ \A i \in Port : Decoded(uop, i) <=> i < m  BY DecodedPrefix
<1>2. /\ ~mispredFlush /\ ~Stall(uop)
      /\ rnUOp' = [i \in Port |-> IF Decoded(uop, i) THEN Renamed(uop, i, WrittenBack(F))
                                  ELSE NoRUOp]
      /\ RATClock(FALSE, mispredFlush, w, comUOp, WrittenBack(F))
  BY DEF RNAccept
<1>3. \A i \in Port : w[i] = IF Decoded(uop, i)
                             THEN [valid |-> TRUE, rd |-> uop[i].rd, tag |-> NewTag(uop, i)]
                             ELSE NoRATWrite
  BY DEF Issue
<1> HIDE DEF m, w
<1>4. ASSUME NEW i \in Port, ~(i < m)
      PROVE  ~w[i].valid /\ ~rnUOp'[i].valid
  <2>1. w[i] = NoRATWrite /\ rnUOp'[i] = NoRUOp  BY <1>1, <1>2, <1>3, <1>4
  <2> QED  BY <2>1 DEF NoRATWrite, NoRUOp
<1>5. ASSUME NEW i \in Port, i < m
      PROVE  /\ w[i].valid /\ rnUOp'[i].valid
             /\ rnUOp'[i].rd = w[i].rd /\ rnUOp'[i].tagDst = w[i].tag
             /\ w[i].tag \in RFTag => ReadyOwns(i, w[i].tag)
             /\ \E r \in Reg : /\ rnUOp'[i].tag = LookupSpecTag(i, r, w)
                               /\ rnUOp'[i].avail = LookupAvail(i, r, w, WrittenBack(F))
  <2>1. Decoded(uop, i)  BY <1>1, <1>5
  <2>2. rnUOp'[i] = Renamed(uop, i, WrittenBack(F))  BY <1>2, <2>1
  <2>3. w[i].valid /\ w[i].rd = uop[i].rd /\ w[i].tag = NewTag(uop, i)
    <3>1. w[i] = [valid |-> TRUE, rd |-> uop[i].rd, tag |-> NewTag(uop, i)]  BY <1>3, <2>1
    <3> QED  BY <3>1
  <2>4. uop[i].rs \in Reg  BY <2>1, DecodedUOpsType DEF D_UOp
  <2>5. w[i].tag \in RFTag => ReadyOwns(i, w[i].tag)
    <3>1. NewTag(uop, i) \in {issueTag[i], TAG_ONE, TAG_ZERO}  BY DEF NewTag
    <3> QED  BY <2>3, <3>1, ImmediatesAreNoRegisters DEF ReadyOwns
  <2>6. /\ rnUOp'[i].valid /\ rnUOp'[i].rd = uop[i].rd /\ rnUOp'[i].tagDst = NewTag(uop, i)
        /\ rnUOp'[i].tag = LookupSpecTag(i, uop[i].rs, w)
        /\ rnUOp'[i].avail = LookupAvail(i, uop[i].rs, w, WrittenBack(F))
    BY <2>2 DEF Renamed, w
  <2> QED  BY <2>3, <2>4, <2>5, <2>6
<1>6. /\ tagAvail' = (tagAvail \cup WrittenBack(F))
                       \ {w[i].tag : i \in {j \in Port : w[j].valid /\ w[j].rd # 0}}
      /\ specTag' = NextSpecTag(FALSE, mispredFlush, w, comUOp)
  BY <1>2 DEF RATClock
<1>7. RenamesAs(F, w, m)  BY <1>1, <1>2, <1>4, <1>5, <1>6 DEF RenamesAs
<1>8. QED  BY <1>1, <1>7 DEF w

LEMMA IdlesAs ==
  ASSUME NEW F, RNIdle(mispredFlush, comUOp, F)
  PROVE  RenamesAs(F, Issue(NoDUOps), 0)
<1> DEFINE w == Issue(NoDUOps)
<1>1. \A i \in Port : ~w[i].valid  BY DEF Issue, NoDUOps, Decoded, NoRATWrite
<1>2. \A i \in Port : ~(i < 0)  BY WidthType, SMT DEF Port
<1>3. 0 \in 0 .. Width  BY WidthType, SMT
<1>4. \A i \in Port : ~rnUOp'[i].valid  BY DEF RNIdle, NoRUOp
<1> HIDE DEF w
<1>5. RATClock(FALSE, mispredFlush, w, comUOp, WrittenBack(F))  BY DEF RNIdle, w
<1>6. /\ tagAvail' = (tagAvail \cup WrittenBack(F))
                       \ {w[i].tag : i \in {j \in Port : w[j].valid /\ w[j].rd # 0}}
      /\ specTag' = NextSpecTag(FALSE, mispredFlush, w, comUOp)
  BY <1>5 DEF RATClock
<1>7. RenamesAs(F, w, 0)  BY <1>1, <1>2, <1>3, <1>4, <1>6 DEF RenamesAs
<1>8. QED  BY <1>7 DEF w

\* Without a redirect, a cycle renames.
LEMMA CycleRenames ==
  ASSUME TypeOK, NEW F, NEW n, CycleOf(F, n), ~branch.taken
  PROVE  \E w, m : RenamesAs(F, w, m)
<1>1. CASE \E uop \in DecodedUOps(DUOps) : RNAccept(mispredFlush, uop, comUOp, F)
  BY <1>1, AcceptedAs
<1>2. CASE RNIdle(mispredFlush, comUOp, F)
  BY <1>2, IdlesAs
<1>3. QED
  BY <1>1, <1>2 DEF CycleOf, RedirectCycle, ReplayCycle, TrapCycle, CommitCycle, RenameStep

\* The uops that are in flight after a cycle and were not before.
LEMMA NewUop ==
  ASSUME WindowInv, WindowInv', NEW F, NEW n, CycleOf(F, n), NEW w, NEW m, RenamesAs(F, w, m),
         NEW q \in Nat, Pos(lastIndex)' <= q, q < InFlight'
  PROVE  LET i == q - Pos(lastIndex)'
         IN  /\ ~branch.taken /\ ~branch'.taken
             /\ i \in Port /\ i < m /\ Pos(lastIndex)' + i = q
             /\ Uops'[q].rd = w[i].rd /\ Uops'[q].tag = w[i].tag
             /\ Uops'[q].src = rnUOp'[i].tag /\ Avail(q)' = rnUOp'[i].avail /\ ~Produced(q)'
<1> DEFINE i == q - Pos(lastIndex)'
<1>1. /\ Pos(lastIndex)' \in Nat /\ InFlight' \in Nat
      /\ branch.taken => InFlight' = Pos(lastIndex)'
  BY FlightAfter
<1>2. ~(q < Pos(lastIndex)') /\ InFlight' # Pos(lastIndex)' /\ ~branch.taken
  BY <1>1, SMT
<1>3. ~branch'.taken /\ InFlight' = Pos(counterSqN)'  BY <1>2 DEF InFlight
<1>4. i \in Port /\ i < m /\ Pos(lastIndex)' + i = q
  <2>1. PICK l \in 0 .. Width :
          /\ \A j \in Port : rnUOp'[j].valid <=> j < l
          /\ Pos(counterSqN)' = Pos(lastIndex)' + l
    BY DEF WindowInv, RenamedInOrder
  <2>2. i \in Port /\ i < l /\ Pos(lastIndex)' + i = q
    BY <1>1, <1>2, <1>3, <2>1, WidthType, SMT DEF Port
  <2>3. i < m  BY <2>1, <2>2 DEF RenamesAs
  <2> QED  BY <2>2, <2>3
<1>5. RnPort(q)' = i  BY DEF RnPort
<1>6. Uops'[q] = [rd |-> rnUOp'[i].rd, tag |-> rnUOp'[i].tagDst, src |-> rnUOp'[i].tag]
  BY <1>2, <1>5 DEF Uops
<1>7. Avail(q)' = rnUOp'[i].avail /\ ~Produced(q)'  BY <1>2, <1>5 DEF Avail, Produced
<1> HIDE DEF i
<1>8. Uops'[q].rd = rnUOp'[i].rd /\ Uops'[q].tag = rnUOp'[i].tagDst /\ Uops'[q].src = rnUOp'[i].tag
  BY <1>6
<1>9. rnUOp'[i].rd = w[i].rd /\ rnUOp'[i].tagDst = w[i].tag  BY <1>4 DEF RenamesAs
<1>10. QED  BY <1>2, <1>3, <1>4, <1>7, <1>8, <1>9 DEF i

\* All of them, as long as no redirect is raised.
LEMMA NewUops ==
  ASSUME WindowInv, WindowInv', NEW F, NEW n, CycleOf(F, n), NEW w, NEW m, RenamesAs(F, w, m),
         ~branch'.taken
  PROVE  InFlight' = Pos(lastIndex)' + m
<1>1. PICK l \in 0 .. Width :
        /\ \A j \in Port : rnUOp'[j].valid <=> j < l
        /\ Pos(counterSqN)' = Pos(lastIndex)' + l
  BY DEF WindowInv, RenamedInOrder
<1>2. m \in 0 .. Width /\ \A j \in Port : rnUOp'[j].valid <=> j < m  BY DEF RenamesAs
<1>3. \A j \in Port : j < l <=> j < m  BY <1>1, <1>2
<1>4. l = m  BY <1>1, <1>2, <1>3, WidthType, SMT DEF Port
<1>5. QED  BY <1>1, <1>4 DEF InFlight

\* The replay shows the uops from where it has got to on.
LEMMA ReplayMoves ==
  ASSUME WindowInv, WindowInv', RedirectCovers, TrapsWriteNothing,
         NEW F, NEW n, CycleOf(F, n), NEW r, ReplayIn(r)
  PROVE  LET a == Pos(r.iterSqN)
         IN  /\ n = 0 /\ a \in Nat /\ a <= Pos(lastIndex)'
             /\ \E m \in 0 .. Width :
                  /\ \A i \in Port : comUOp'[i].valid <=> i < m
                  /\ \A i \in Port : i < m => /\ Uops'[a + i].rd = comUOp'[i].rd
                                              /\ Uops'[a + i].tag = comUOp'[i].tag
                  /\ mispredFlush' => Rebuilt' = a + m
                  /\ ~mispredFlush' => m = 0 /\ a = Pos(lastIndex)'
<1> DEFINE a == Pos(r.iterSqN)
           e == Pos(r.endSqN)
           m == IF a + (Width - 1) <= e THEN Width ELSE e + 1 - a
<1>1. n = 0 /\ baseIndex' = baseIndex
  <2>1. baseIndex' = baseIndex /\ baseIndex' = Plus(baseIndex, n) /\ n \in 0 .. Width
    BY DEF ReplayIn, ReplayStep, CycleOf, RobMoves, Advances
  <2>2. baseIndex \in SqNs  BY SqNState DEF WindowInv
  <2>3. Plus(baseIndex, 0) = baseIndex  BY <2>2, RingType, SMT DEF Plus, SqNs
  <2>4. 0 \in 0 .. Width  BY WidthType, SMT
  <2> QED  BY <2>1, <2>2, <2>3, <2>4, PlusInjective
<1>2. /\ 0 <= a /\ a <= e + 1 /\ e + 1 <= Pos(lastIndex) /\ Pos(lastIndex') = e + 1
      /\ a \in Int /\ e \in Int
  BY PosType DEF ReplayIn, WindowInv
<1>3. Pos(lastIndex)' = e + 1  BY <1>1, <1>2 DEF Pos
<1>4. \A i \in Port : Survives(r, i) <=> i < m
  <2> SUFFICES ASSUME NEW i \in Port  PROVE Survives(r, i) <=> i < m
    OBVIOUS
  <2>1. Survives(r, i) <=> a + i <= e  BY ReplayedAt DEF WindowInv
  <2>2. a + i <= e <=> i < m  BY <1>2, WidthType, SMT DEF Port
  <2> QED  BY <2>1, <2>2
<1>5. m \in 0 .. Width /\ a + m <= e + 1  BY <1>2, WidthType, SMT
<1> HIDE DEF m
<1>6. \A i \in Port : comUOp'[i] = ReplayedUOp(r, i)  BY DEF ReplayIn, ReplayStep
<1>7. ASSUME NEW i \in Port
      PROVE  comUOp'[i].valid <=> i < m
  <2>1. Survives(r, i) => ReplayedUOp(r, i).valid  BY DEF ReplayedUOp
  <2>2. ~Survives(r, i) => ~ReplayedUOp(r, i).valid  BY DEF ReplayedUOp, NoRATWrite
  <2> QED  BY <1>4, <1>6, <2>1, <2>2
<1>8. ASSUME NEW i \in Port, i < m
      PROVE  Uops'[a + i].rd = comUOp'[i].rd /\ Uops'[a + i].tag = comUOp'[i].tag
  <2> DEFINE s == Plus(r.iterSqN, i)
             k == RobIdx(s)
  <2>1. s \in SqNs /\ Pos(s) = a + i  BY <1>4, <1>8, ReplayedAt DEF WindowInv
  <2>2. /\ a + i \in Nat /\ a + i < Pos(lastIndex) /\ a + i < Pos(lastIndex)'
        /\ (a + i) + n = a + i
    BY <1>1, <1>2, <1>3, <1>5, <1>8, FlightType, WidthType, SMT DEF Port
  <2>3. InROB(s)
    <3>1. 0 <= Pos(s) /\ Pos(s) < Pos(lastIndex)  BY <2>1, <2>2
    <3> QED  BY <2>1, <3>1 DEF InROB, Pos
  <2>4. Slot(a + i) = k  BY <2>1, <2>3, PosOfSlot
  <2>5. Uops[a + i].rd = entries[k].rd /\ Uops[a + i].tag = entries[k].tag
    BY <2>2, <2>4, SlotAt
  <2>6. Uops'[a + i].rd = Uops[a + i].rd /\ Uops'[a + i].tag = Uops[a + i].tag
    BY <2>2, UopsMove
  <2>7. comUOp'[i] = [valid |-> TRUE, rd |-> IF flags[k] = "TRAP" THEN 0 ELSE entries[k].rd,
                      tag |-> entries[k].tag]
    BY <1>4, <1>6, <1>8 DEF ReplayedUOp
  <2>8. flags[k] = "TRAP" => entries[k].rd = 0  BY <2>1, <2>3 DEF TrapsWriteNothing
  <2> HIDE DEF s, k
  <2>9. comUOp'[i].rd = entries[k].rd /\ comUOp'[i].tag = entries[k].tag
    BY <2>7, <2>8
  <2> QED  BY <2>5, <2>6, <2>9
<1>9. mispredFlush' <=> m > 0
  <2>1. mispredFlush' = \E i \in Port : Survives(r, i)  BY DEF ReplayIn, ReplayStep
  <2>2. (\E i \in Port : i < m) <=> m > 0  BY <1>5, WidthType, SMT DEF Port
  <2> QED  BY <1>4, <2>1, <2>2
<1>10. Rebuilt' = a + m
  <2>1. CASE ReplayEnd(r)
    <3>1. e < a + Width /\ ~misprReplay_r'.valid  BY <2>1, ReplayAfter DEF WindowInv
    <3>2. Rebuilt' = e + 1  BY <1>3, <3>1 DEF Rebuilt
    <3>3. a + m = e + 1  BY <1>2, <3>1, WidthType, SMT DEF m
    <3> QED  BY <3>2, <3>3
  <2>2. CASE ~ReplayEnd(r)
    <3>1. /\ misprReplay_r'.valid /\ misprReplay_r'.iterSqN = Plus(r.iterSqN, Width)
          /\ a + Width <= e /\ Pos(Plus(r.iterSqN, Width)) = a + Width
      BY <2>2, ReplayAfter DEF WindowInv
    <3>2. Rebuilt' = a + Width  BY <1>1, <3>1 DEF Rebuilt, Pos
    <3>3. m = Width  BY <1>2, <3>1, WidthType, SMT DEF m
    <3> QED  BY <3>2, <3>3
  <2> QED  BY <2>1, <2>2
<1>11. ~mispredFlush' => m = 0 /\ a = Pos(lastIndex)'
  BY <1>2, <1>3, <1>5, <1>9, WidthType, SMT DEF m
<1>12. a \in Nat /\ a <= Pos(lastIndex)'  BY <1>2, <1>3, SMT
<1>13. QED  BY <1>1, <1>5, <1>7, <1>8, <1>10, <1>11, <1>12

\* A table in which no port writes stays what it is.
LEMMA NothingWritten ==
  ASSUME NEW table \in [Reg -> Tag], NEW w, \A i \in Port : ~w[i].valid
  PROVE  Written(table, w) = table
<1>1. \A r \in Reg, i \in Port : ~LastWriter(i, r, w)  BY DEF LastWriter
<1>2. \A r \in Reg : Written(table, w)[r] = table[r]  BY <1>1 DEF Written
<1>3. Written(table, w) = [r \in Reg |-> table[r]]  BY <1>1 DEF Written
<1>4. QED  BY <1>3

\* The speculative map at the place that a replay has got to.
LEMMA ReplayedMap ==
  ASSUME WindowInv, WindowInv', RedirectCovers, SpecMap, ~trapUOp.valid, ~trapUOp'.valid,
         NEW F, NEW n, CycleOf(F, n), NEW used, RenameMoves(used),
         ReplayIn(Replaying(branch)), NEW r \in Reg \ {0},
         n = 0, Pos(Replaying(branch).iterSqN) \in Nat,
         Pos(Replaying(branch).iterSqN) <= Pos(lastIndex)'
  PROVE  MapsTo(Uops', Pos(Replaying(branch).iterSqN), r, Base'[r], specTag'[r])
<1> DEFINE a == Pos(Replaying(branch).iterSqN)
<1>1. TypeOK  BY DEF WindowInv
<1>2. a \in Nat /\ a + n = a  BY SMT
<1>3. CASE branch.taken
  <2>1. RedirectCycle(F)  BY <1>3 DEF CycleOf, ReplayCycle, TrapCycle, CommitCycle
  <2>2. RATClock(TRUE, mispredFlush, Issue(NoDUOps), comUOp, WrittenBack(F))
    BY <2>1 DEF RedirectCycle, RNRedirect
  <2>3. specTag' = Base
    <3>1. specTag' = NextSpecTag(TRUE, mispredFlush, Issue(NoDUOps), comUOp)
      BY <2>2 DEF RATClock
    <3>2. mispredFlush \in BOOLEAN  BY <1>1 DEF TypeOK, ROBTypeOK
    <3> QED  BY <3>1, <3>2 DEF NextSpecTag, Base
  <2>4. a = 0
    <3>1. Replaying(branch).iterSqN = baseIndex  BY <1>3 DEF Replaying
    <3>2. Diff(baseIndex, baseIndex) = 0  BY <1>1, SqNState, PlusMinusOne
    <3> QED  BY <3>1, <3>2 DEF Pos
  <2>5. MapsTo(Uops, a + n, r, Base[r], Base[r])
    <3>1. \A q \in 0 .. (a + n) - 1 : FALSE  BY <1>2, <2>4, SMT
    <3> QED  BY <3>1 DEF MapsTo
  <2> HIDE DEF a
  <2>6. a <= Pos(lastIndex)'  BY DEF a
  <2>7. MapsTo(Uops', a, r, Base'[r], Base[r])  BY <1>2, <2>5, <2>6, MapMoves
  <2> QED  BY <2>3, <2>7 DEF a
<1>4. CASE ~branch.taken
  <2>1. misprReplay_r.valid /\ Replaying(branch) = misprReplay_r
    BY <1>4 DEF ReplayIn, Replaying
  <2>2. mispredFlush /\ Rebuilt = a  BY <2>1 DEF WindowInv, RecoveryState, Rebuilt
  <2>3. MapsTo(Uops, a, r, Base[r], Written(specTag, comUOp)[r])
    BY <1>4, <2>2 DEF SpecMap
  <2>4. specTag' = Written(specTag, comUOp)
    <3>1. PICK w, m : RenamesAs(F, w, m)  BY <1>1, <1>4, CycleRenames
    <3>2. specTag' = Written(Written(specTag, w), comUOp)
      BY <2>2, <3>1 DEF RenamesAs, NextSpecTag
    <3>3. \A i \in Port : ~w[i].valid
      <4>1. m = 0 /\ \A i \in Port : w[i].valid <=> i < m  BY <2>2, <3>1 DEF RenamesAs
      <4>2. \A i \in Port : ~(i < 0)  BY WidthType, SMT DEF Port
      <4> QED  BY <4>1, <4>2
    <3>4. specTag \in [Reg -> Tag]  BY <1>1 DEF TypeOK, RATTypeOK
    <3> QED  BY <3>2, <3>3, <3>4, NothingWritten
  <2> HIDE DEF a
  <2>5. a <= Pos(lastIndex)'  BY DEF a
  <2>6. MapsTo(Uops', a, r, Base'[r], Written(specTag, comUOp)[r])
    BY <1>2, <2>3, <2>5, MapMoves
  <2> QED  BY <2>4, <2>6 DEF a
<1>5. QED  BY <1>3, <1>4

\* The speculative map after a cycle that replays ...
LEMMA SpecMapReplay ==
  ASSUME WindowInv, WindowInv', RedirectCovers, TrapsWriteNothing, SpecMap,
         ~trapUOp.valid, ~trapUOp'.valid,
         NEW F, NEW n, CycleOf(F, n), NEW used, RenameMoves(used),
         ReplayIn(Replaying(branch)), ~branch'.taken, NEW r \in Reg \ {0}
  PROVE  IF mispredFlush'
         THEN MapsTo(Uops', Rebuilt', r, Base'[r], Written(specTag', comUOp')[r])
         ELSE MapsTo(Uops', InFlight', r, Base'[r], specTag'[r])
<1> DEFINE a == Pos(Replaying(branch).iterSqN)
<1>1. /\ n = 0 /\ a \in Nat /\ a <= Pos(lastIndex)'
      /\ \E m \in 0 .. Width :
           /\ \A i \in Port : comUOp'[i].valid <=> i < m
           /\ \A i \in Port : i < m => /\ Uops'[a + i].rd = comUOp'[i].rd
                                       /\ Uops'[a + i].tag = comUOp'[i].tag
           /\ mispredFlush' => Rebuilt' = a + m
           /\ ~mispredFlush' => m = 0 /\ a = Pos(lastIndex)'
  BY ReplayMoves
<1>2. MapsTo(Uops', a, r, Base'[r], specTag'[r])  BY <1>1, ReplayedMap
<1> HIDE DEF a
<1>3. CASE mispredFlush'
  <2>1. PICK m \in 0 .. Width :
          /\ \A i \in Port : comUOp'[i].valid <=> i < m
          /\ \A i \in Port : i < m => /\ Uops'[a + i].rd = comUOp'[i].rd
                                      /\ Uops'[a + i].tag = comUOp'[i].tag
          /\ Rebuilt' = a + m
    BY <1>1, <1>3
  <2> DEFINE u == Uops'
             w == comUOp'
             table == specTag'
             below == Base'[r]
  <2>2. /\ MapsTo(u, a, r, below, table[r])
        /\ \A i \in Port : w[i].valid <=> i < m
        /\ \A i \in Port : i < m => u[a + i].rd = w[i].rd /\ u[a + i].tag = w[i].tag
    BY <1>2, <2>1
  <2> HIDE DEF u, w, table, below
  <2>3. MapsTo(u, a + m, r, below, Written(table, w)[r])
    BY <1>1, <2>2, MapsToWritten
  <2> QED  BY <1>3, <2>1, <2>3 DEF u, w, table, below
<1>4. CASE ~mispredFlush'
  <2>1. a = Pos(lastIndex)'  BY <1>1, <1>4
  <2>2. InFlight' = Pos(lastIndex)'
    <3>1. CASE branch.taken  BY <3>1, FlightAfter
    <3>2. CASE ~branch.taken
      <4>1. PICK w, m : RenamesAs(F, w, m)  BY <3>2, CycleRenames DEF WindowInv
      <4>2. \A i \in Port : ~rnUOp'[i].valid  BY DEF ReplayIn
      <4>3. m \in 0 .. Width /\ \A i \in Port : rnUOp'[i].valid <=> i < m
        BY <4>1 DEF RenamesAs
      <4>4. m = 0  BY <4>2, <4>3, WidthType, SMT DEF Port
      <4>5. InFlight' = Pos(lastIndex)' + m  BY <4>1, NewUops
      <4> QED  BY <4>4, <4>5, FlightAfter, SMT
    <3> QED  BY <3>1, <3>2
  <2> QED  BY <1>2, <1>4, <2>1, <2>2
<1>5. QED  BY <1>3, <1>4

\* On the ports of rename.
LEMMA NewPorts ==
  ASSUME WindowInv, WindowInv', NEW F, NEW n, CycleOf(F, n), NEW w, NEW m, RenamesAs(F, w, m),
         ~branch'.taken
  PROVE  \A i \in Port : i < m => /\ Uops'[Pos(lastIndex)' + i].rd = w[i].rd
                                 /\ Uops'[Pos(lastIndex)' + i].tag = w[i].tag
<1> SUFFICES ASSUME NEW i \in Port, i < m
             PROVE  /\ Uops'[Pos(lastIndex)' + i].rd = w[i].rd
                    /\ Uops'[Pos(lastIndex)' + i].tag = w[i].tag
  OBVIOUS
<1> DEFINE q == Pos(lastIndex)' + i
<1>1. /\ InFlight' = Pos(lastIndex)' + m /\ Pos(lastIndex)' \in Nat /\ m \in 0 .. Width
  <2>1. m \in 0 .. Width  BY DEF RenamesAs
  <2> QED  BY <2>1, NewUops, FlightAfter
<1>2. q \in Nat /\ Pos(lastIndex)' <= q /\ q < InFlight' /\ q - Pos(lastIndex)' = i
  BY <1>1, WidthType, SMT DEF Port
<1> HIDE DEF q
<1>3. Uops'[q].rd = w[i].rd /\ Uops'[q].tag = w[i].tag  BY <1>2, NewUop
<1>4. QED  BY <1>3 DEF q

\* ... and after one that does not: what survives the commit, and what rename adds.
LEMMA SpecMapRename ==
  ASSUME WindowInv, WindowInv', RedirectCovers, ReplayAlone, SpecMap,
         ~trapUOp.valid, ~trapUOp'.valid,
         NEW F, NEW n, CycleOf(F, n), NEW used, RenameMoves(used),
         NoReplayIn, NEW w, NEW m, RenamesAs(F, w, m), NEW r \in Reg \ {0}
  PROVE  /\ ~mispredFlush =>
              MapsTo(Uops', Pos(lastIndex)', r, Base'[r], specTag[r])
         /\ ~branch'.taken => MapsTo(Uops', InFlight', r, Base'[r], specTag'[r])
<1> DEFINE t == IF mispredFlush THEN Written(specTag, comUOp)[r] ELSE specTag[r]
<1>1. TypeOK /\ ~branch.taken /\ ~misprReplay_r.valid  BY DEF WindowInv, NoReplayIn
<1>2. MapsTo(Uops, InFlight, r, Base[r], t)
  <2>1. CASE mispredFlush
    <3>1. MapsTo(Uops, Pos(lastIndex), r, Base[r], Written(specTag, comUOp)[r])
      BY <1>1, <2>1 DEF SpecMap, Rebuilt
    <3>2. InFlight = Pos(lastIndex)
      <4>1. PICK l \in 0 .. Width :
              /\ \A i \in Port : rnUOp[i].valid <=> i < l
              /\ Pos(counterSqN) = Pos(lastIndex) + l
        BY DEF WindowInv, RenamedInOrder
      <4>2. \A i \in Port : ~rnUOp[i].valid  BY <2>1 DEF ReplayAlone
      <4>3. l = 0  BY <4>1, <4>2, WidthType, SMT DEF Port
      <4>4. InFlight = Pos(counterSqN)  BY <1>1 DEF InFlight
      <4> QED  BY <4>1, <4>3, <4>4, FlightType, SMT
    <3> QED  BY <2>1, <3>1, <3>2
  <2>2. CASE ~mispredFlush
    BY <1>1, <2>2 DEF SpecMap
  <2> QED  BY <2>1, <2>2
<1>3. Pos(lastIndex)' + n = InFlight /\ Pos(lastIndex)' \in Nat  BY <1>1, FlightAfter
<1>4. MapsTo(Uops', Pos(lastIndex)', r, Base'[r], t)
  <2> HIDE DEF t
  <2> DEFINE p == Pos(lastIndex)'
  <2>1. p \in Nat /\ p <= Pos(lastIndex)' /\ MapsTo(Uops, p + n, r, Base[r], t)
    BY <1>2, <1>3, SMT
  <2> HIDE DEF p
  <2>2. MapsTo(Uops', p, r, Base'[r], t)  BY <2>1, MapMoves
  <2> QED  BY <2>2 DEF p
<1>5. /\ m \in 0 .. Width /\ \A i \in Port : w[i].valid <=> i < m
      /\ specTag' = NextSpecTag(FALSE, mispredFlush, w, comUOp) /\ (mispredFlush => m = 0)
  BY DEF RenamesAs
<1>6. ASSUME ~branch'.taken
      PROVE  MapsTo(Uops', InFlight', r, Base'[r], specTag'[r])
  <2>1. InFlight' = Pos(lastIndex)' + m  BY <1>6, NewUops
  <2>2. CASE mispredFlush
    <3>1. \A i \in Port : ~w[i].valid
      <4>1. \A i \in Port : ~(i < 0)  BY WidthType, SMT DEF Port
      <4> QED  BY <1>5, <2>2, <4>1
    <3>2. specTag \in [Reg -> Tag]  BY <1>1 DEF TypeOK, RATTypeOK
    <3>3. specTag' = Written(specTag, comUOp)
      BY <1>5, <2>2, <3>1, <3>2, NothingWritten DEF NextSpecTag
    <3>4. InFlight' = Pos(lastIndex)'  BY <1>3, <1>5, <2>1, <2>2, SMT
    <3> QED  BY <1>4, <2>2, <3>3, <3>4
  <2>3. CASE ~mispredFlush
    <3> DEFINE u == Uops'
               below == Base'[r]
               p == Pos(lastIndex)'
    <3>1. MapsTo(u, p, r, below, specTag[r]) /\ p \in Nat  BY <1>3, <1>4, <2>3
    <3>2. specTag' = Written(specTag, w)
      <4>1. mispredFlush \in BOOLEAN  BY <1>1 DEF TypeOK, ROBTypeOK
      <4> QED  BY <1>5, <2>3, <4>1 DEF NextSpecTag
    <3>3. \A i \in Port : i < m => u[p + i].rd = w[i].rd /\ u[p + i].tag = w[i].tag
      BY <1>6, NewPorts
    <3> HIDE DEF u, below, p
    <3>4. MapsTo(u, p + m, r, below, Written(specTag, w)[r])
      BY <1>5, <3>1, <3>3, MapsToWritten
    <3> QED  BY <2>1, <3>2, <3>4 DEF u, below, p
  <2> QED  BY <2>2, <2>3
<1>7. QED  BY <1>4, <1>6

-----------------------------------------------------------------------------
(* Operands. *)

\* Only the trap handler flushes, and it always redirects.
LEMMA FlushStep ==
  ASSUME NEW F, RedirectStep(F)
  PROVE  FlushRedirects' /\ (trapUOp.valid => branch'.flush)
<1>1. PICK B \in SUBSET BranchCandidates, M \in {{}} \cup {{s} : s \in MemCandidates(F)} :
        branch' = SelectBranch(B, M)
  BY DEF RedirectStep
<1>2. CASE trapUOp.valid
  <2>1. branch' = TrapBranch  BY <1>1, <1>2 DEF SelectBranch
  <2> QED  BY <1>2, <2>1 DEF TrapBranch, FlushRedirects
<1>3. CASE ~trapUOp.valid
  <2>1. \A s : ~MemBranch(s).flush  BY DEF MemBranch
  <2>2. M # {} => \E s : (CHOOSE b \in {MemBranch(x) : x \in M} : TRUE) = MemBranch(s)
    OBVIOUS
  <2>3. \/ branch' = NoBranch \/ \E s : branch' = IntBranch(s) \/ branch' = MemBranch(s)
    BY <1>1, <1>3, <2>2 DEF SelectBranch
  <2>4. ~branch'.flush  BY <2>1, <2>3 DEF NoBranch, IntBranch
  <2> QED  BY <1>3, <2>4 DEF FlushRedirects
<1>4. QED  BY <1>2, <1>3

\* A flush leaves nothing in the buffer.
LEMMA FlushEmpties ==
  ASSUME WindowInv, WindowInv', FlushRedirects, NEW F, NEW n, CycleOf(F, n), branch.flush
  PROVE  InFlight' = 0
<1>1. branch.taken /\ baseIndex = Plus(branch.sqN, 1) /\ branch.sqN \in SqNs
  BY SqNState DEF FlushRedirects, WindowInv, BranchInWindow
<1>2. Pos(branch.sqN) = -1  BY <1>1, PlusMinusOne DEF Pos
<1>3. QED  BY <1>1, <1>2, FlightAfter, SMT

\* What an operand of a uop that has just been renamed names.
LEMMA LookupZero ==
  ASSUME ZeroIsConstant, NEW i, NEW w
  PROVE  LookupSpecTag(i, 0, w) \notin RFTag
<1>1. \A j \in Port : ~OlderIssue(i, j, 0, w)  BY DEF OlderIssue
<1>2. LookupSpecTag(i, 0, w) = specTag[0]  BY <1>1 DEF LookupSpecTag
<1>3. QED  BY <1>2, ImmediatesAreNoRegisters DEF ZeroIsConstant

\* A cycle that renames something does not replay.
LEMMA NewMeansRename ==
  ASSUME WindowInv, NEW F, NEW n, CycleOf(F, n), NEW w, NEW m, RenamesAs(F, w, m),
         NoReplayIn \/ ReplayIn(Replaying(branch)), NEW i \in Port, i < m
  PROVE  NoReplayIn /\ ~mispredFlush
<1>1. rnUOp'[i].valid  BY DEF RenamesAs
<1>2. NoReplayIn  BY <1>1 DEF ReplayIn
<1>3. m # 0  BY WidthType, SMT DEF Port
<1>4. QED  BY <1>2, <1>3 DEF RenamesAs

LEMMA SourceMapStep ==
  ASSUME WindowInv, WindowInv', RedirectCovers, ReplayAlone, FlushRedirects, ZeroIsConstant,
         SpecMap, SourceMap, NEW F, NEW n, CycleOf(F, n), NEW used, RenameMoves(used),
         NoReplayIn \/ ReplayIn(Replaying(branch)),
         ~trapUOp'.valid, ~branch'.flush,
         NEW q \in Nat, q < InFlight', Uops'[q].src \in RFTag
  PROVE  \E r \in Reg \ {0} : MapsTo(Uops', q, r, Base'[r], Uops'[q].src)
<1>1. ~trapUOp.valid  BY FlushStep DEF CycleOf
<1>2. ~branch.flush  BY FlushEmpties, SMT
<1>3. CASE q < Pos(lastIndex)'
  <2>1. Uops'[q].src = Uops[q + n].src /\ q + n \in Nat /\ q + n < InFlight
    BY <1>3, UopsMove, SlotMoves
  <2>2. q + n \in 0 .. InFlight - 1  BY <2>1, FlightType, SMT
  <2>3. PICK r \in Reg \ {0} : MapsTo(Uops, q + n, r, Base[r], Uops'[q].src)
    BY <1>1, <1>2, <2>1, <2>2 DEF SourceMap
  <2>4. q <= Pos(lastIndex)'  BY <1>3, FlightAfter, SMT
  <2>5. MapsTo(Uops', q, r, Base'[r], Uops'[q].src)  BY <2>3, <2>4, MapMoves
  <2> QED  BY <2>5
<1>4. CASE ~(q < Pos(lastIndex)')
  <2> DEFINE p == Pos(lastIndex)'
             i == q - p
             u == Uops'
  <2>1. Pos(lastIndex)' \in Nat /\ Pos(lastIndex)' <= q /\ ~branch.taken
    <3>1. Pos(lastIndex)' <= q /\ Pos(lastIndex)' \in Nat  BY <1>4, FlightAfter, SMT
    <3>2. branch.taken => InFlight' = Pos(lastIndex)'  BY FlightAfter
    <3> QED  BY <1>4, <3>1, <3>2
  <2>2. PICK w, m : RenamesAs(F, w, m)  BY <2>1, CycleRenames DEF WindowInv
  <2>3. /\ ~branch'.taken /\ i \in Port /\ i < m /\ p + i = q
        /\ u[q].src = rnUOp'[i].tag
    BY <2>1, <2>2, NewUop
  <2>4. NoReplayIn /\ ~mispredFlush  BY <2>2, <2>3, NewMeansRename
  <2>5. PICK r \in Reg : rnUOp'[i].tag = LookupSpecTag(i, r, w)  BY <2>2, <2>3 DEF RenamesAs
  <2>6. r # 0  BY <2>3, <2>5, LookupZero
  <2> DEFINE below == Base'[r]
  <2>7. MapsTo(u, p, r, below, specTag[r])  BY <1>1, <2>2, <2>4, <2>6, SpecMapRename
  <2>8. \A j \in Port : j < m => u[p + j].rd = w[j].rd /\ u[p + j].tag = w[j].tag
    BY <2>2, <2>3, NewPorts
  <2>9. m \in 0 .. Width /\ \A j \in Port : w[j].valid <=> j < m  BY <2>2 DEF RenamesAs
  <2> HIDE DEF p, i, u, below
  <2>10. p \in Nat /\ r \in Reg \ {0}  BY <2>1, <2>6 DEF p
  <2>11. MapsTo(u, p + i, r, below, LookupSpecTag(i, r, w))
    BY <2>3, <2>7, <2>8, <2>9, <2>10, MapsToLookup
  <2>12. MapsTo(u, q, r, below, u[q].src)  BY <2>3, <2>5, <2>11
  <2> QED  BY <2>10, <2>12 DEF u, below
<1>5. QED  BY <1>3, <1>4

\* What the map below the buffer names belongs to the committed state, and has been
\* produced.
LEMMA BaseOwner ==
  ASSUME TypeOK, NEW r \in Reg, NEW t, Base[r] = t
  PROVE  \/ ArchOwns(r, t)
         \/ \E i \in Port : CommitOwns(i, t)
<1>1. CASE mispredFlush
  BY <1>1 DEF Base, ArchOwns
<1>2. CASE ~mispredFlush
  <2>1. Written(comTag, comUOp)[r] = t  BY <1>2 DEF Base
  <2>2. \/ \E i \in Port : NewestCommit(i, comUOp) /\ comUOp[i].rd = r /\ comUOp[i].tag = t
        \/ comTag[r] = t
    BY <2>1, WrittenByCommit
  <2> QED  BY <1>2, <2>2 DEF NewestCommit, CommitOwns, ArchOwns
<1>3. QED  BY <1>1, <1>2

LEMMA BaseProduced ==
  ASSUME ProducedInv, NEW r \in Reg, Base[r] \in RFTag
  PROVE  Base[r] \in tagAvail
<1> DEFINE t == Base[r]
<1>1. TypeOK  BY DEF ProducedInv, FreeListInv, WindowInv
<1>2. CASE comTag[r] = t
  BY <1>2, ImmediatesAreNoRegisters DEF ProducedInv, CommittedProduced, ImmTag
<1>3. CASE \E i \in Port : CommitOwns(i, t)
  BY <1>3 DEF ProducedInv, CommitsProduced
<1>4. QED  BY <1>1, <1>2, <1>3, BaseOwner DEF ArchOwns

\* No register that the map names is ready to be given away.
LEMMA MapNotReady ==
  ASSUME WindowInv, NEW q \in Nat, q <= InFlight, NEW r \in Reg \ {0}, NEW t, OwnedOnce(t),
         MapsTo(Uops, q, r, Base[r], t), NEW i
  PROVE  ~ReadyOwns(i, t)
<1>1. \E k \in Kind, x \in Nat : Owns(k, x, t) /\ k # "ready"
  <2>1. CASE \E p \in 0 .. q - 1 : Uops[p].tag = t
    <3>1. PICK p \in 0 .. q - 1 : Uops[p].tag = t  BY <2>1
    <3>2. p \in Nat /\ p < InFlight  BY <3>1, FlightType, SMT
    <3> QED  BY <3>1, <3>2, UopOwner
  <2>2. CASE Base[r] = t
    <3>1. ArchOwns(r, t) \/ \E j \in Port : CommitOwns(j, t)  BY <2>2, BaseOwner DEF WindowInv
    <3>2. PICK k, x : k \in {"arch", "commit"} /\ Owns(k, x, t)  BY <3>1 DEF Owns
    <3> QED  BY <3>2, OwnerType
  <2> QED  BY <2>1, <2>2 DEF MapsTo
<1>2. ASSUME ReadyOwns(i, t)  PROVE FALSE
  <2>1. Owns("ready", i, t)  BY <1>2 DEF Owns
  <2>2. "ready" \in Kind /\ i \in Nat  BY <2>1, OwnerType
  <2> QED  BY <1>1, <2>1, <2>2 DEF OwnedOnce
<1>3. QED  BY <1>2

\* A register the map names that is not the committed one is that of a uop in flight,
\* which writes the register of the map.
LEMMA MapUop ==
  ASSUME WindowInv, NEW p \in Nat, p < InFlight, NEW r \in Reg \ {0}, OwnedOnce(Uops[p].tag),
         MapsTo(Uops, InFlight, r, Base[r], Uops[p].tag)
  PROVE  Uops[p].rd = r
<1> DEFINE t == Uops[p].tag
<1>1. CASE Base[r] = t
  <2>1. ArchOwns(r, t) \/ \E j \in Port : CommitOwns(j, t)  BY <1>1, BaseOwner DEF WindowInv
  <2>2. PICK k, x : k \in {"arch", "commit"} /\ Owns(k, x, t)  BY <2>1 DEF Owns
  <2>3. k \in Kind /\ x \in Nat  BY <2>2, OwnerType
  <2>4. Owns(OwnerKind(p), OwnerAt(p), t) /\ OwnerKind(p) \in Kind /\ OwnerAt(p) \in Nat
    BY UopOwner
  <2>5. OwnerKind(p) # k  BY <2>2 DEF OwnerKind
  <2> QED  BY <2>2, <2>3, <2>4, <2>5 DEF OwnedOnce
<1>2. CASE \E x \in 0 .. InFlight - 1 : Uops[x].rd = r /\ Uops[x].tag = t
  <2>1. PICK x \in 0 .. InFlight - 1 : Uops[x].rd = r /\ Uops[x].tag = t  BY <1>2
  <2>2. x \in Nat /\ x < InFlight  BY <2>1, FlightType, SMT
  <2>3. p = x  BY <2>1, <2>2, UopOwnsAlone
  <2> QED  BY <2>1, <2>3
<1>3. QED  BY <1>1, <1>2 DEF MapsTo

\* Only a report makes a register available.
LEMMA AvailSource ==
  ASSUME TypeOK, NEW F, NEW n, CycleOf(F, n)
  PROVE  tagAvail' \subseteq tagAvail \cup WrittenBack(F)
<1>1. CASE branch.taken
  <2>1. RedirectCycle(F)  BY <1>1 DEF CycleOf, ReplayCycle, TrapCycle, CommitCycle
  <2> QED  BY <2>1 DEF RedirectCycle, RNRedirect, RATClock
<1>2. CASE ~branch.taken
  <2>1. PICK w, m : RenamesAs(F, w, m)  BY <1>2, CycleRenames
  <2> QED  BY <2>1 DEF RenamesAs
<1>3. QED  BY <1>1, <1>2

LEMMA PendingUnavailableStep ==
  ASSUME WindowInv, WindowInv', RedirectCovers, RedirectsRaised, TagsAgree,
         \A t \in RFTag : OwnedOnce(t), PendingUnavailable,
         NEW F, NEW n, CycleOf(F, n),
         NEW p \in Nat, p < InFlight', ~Returned(p)', Uops'[p].tag \in RFTag, Uops'[p].rd # 0
  PROVE  Uops'[p].tag \notin tagAvail'
<1>1. CASE p < Pos(lastIndex)'
  <2>1. /\ Uops'[p].rd = Uops[p + n].rd /\ Uops'[p].tag = Uops[p + n].tag
        /\ p + n \in Nat /\ p + n < InFlight
    BY <1>1, UopsMove, SlotMoves
  <2>2. p + n \in 0 .. InFlight - 1  BY <2>1, FlightType, SMT
  <2>3. ~Returned(p + n)  BY <1>1, ReturnedStays
  <2>4. Uops'[p].tag \notin tagAvail  BY <2>1, <2>2, <2>3 DEF PendingUnavailable
  <2>5. Uops'[p].tag \notin WrittenBack(F)  BY <1>1, <2>1, WrittenBackReturned
  <2> QED  BY <2>4, <2>5, AvailSource DEF WindowInv
<1>2. CASE ~(p < Pos(lastIndex)')
  <2>1. Pos(lastIndex)' <= p /\ ~branch.taken
    <3>1. Pos(lastIndex)' <= p  BY <1>2, FlightAfter, SMT
    <3>2. branch.taken => InFlight' = Pos(lastIndex)'  BY FlightAfter
    <3> QED  BY <1>2, <3>1, <3>2
  <2>2. PICK w, m : RenamesAs(F, w, m)  BY <2>1, CycleRenames DEF WindowInv
  <2> DEFINE i == p - Pos(lastIndex)'
  <2>3. i \in Port /\ i < m /\ Uops'[p].rd = w[i].rd /\ Uops'[p].tag = w[i].tag
    BY <2>1, <2>2, NewUop
  <2> HIDE DEF i
  <2>4. w[i].valid /\ w[i].rd # 0  BY <2>2, <2>3 DEF RenamesAs
  <2>5. w[i].tag \notin tagAvail'  BY <2>2, <2>3, <2>4 DEF RenamesAs
  <2> QED  BY <2>3, <2>5
<1>3. QED  BY <1>1, <1>2

LEMMA ProducedAvailableStep ==
  ASSUME WindowInv, WindowInv', RedirectCovers, TagsAgree, EliminatedNeedsNone,
         TrapsWriteNothing, \A t \in RFTag : OwnedOnce(t), ProducedAvailable,
         NEW F, NEW n, CycleOf(F, n),
         NEW p \in Nat, p < InFlight', Returned(p)', Uops'[p].tag \in RFTag
  PROVE  Uops'[p].tag \in tagAvail'
<1> DEFINE t == Uops'[p].tag
<1>1. p < Pos(lastIndex)'  BY DEF Returned, Produced
<1>2. t = Uops[p + n].tag /\ p + n \in Nat /\ p + n < InFlight
  BY <1>1, UopsMove, SlotMoves
<1>3. p + n \in 0 .. InFlight - 1  BY <1>2, FlightType, SMT
<1>4. Returned(p + n) \/ t \in WrittenBack(F)  BY <1>1, <1>2, ProducedSource
<1>5. t \in tagAvail \cup WrittenBack(F)  BY <1>2, <1>3, <1>4 DEF ProducedAvailable
<1>6. Owns(OwnerKind(p + n), OwnerAt(p + n), t) /\ OwnerKind(p + n) # "ready"
  BY <1>2, UopOwner
<1> HIDE DEF t
<1>7. t \in RFTag  BY DEF t
<1>8. t \in tagAvail'  BY <1>5, <1>6, <1>7, OwnedAvailStays DEF CycleOf
<1>9. QED  BY <1>8 DEF t

\* What is written on a port below.
LEMMA LookupOlder ==
  ASSUME NEW i, NEW r, NEW w, NEW wb, \E j \in Port : OlderIssue(i, j, r, w)
  PROVE  \E j \in Port : /\ j < i /\ w[j].valid /\ LookupSpecTag(i, r, w) = w[j].tag
                         /\ LookupAvail(i, r, w, wb) = (w[j].tag \in ImmTag)
<1> DEFINE j == CHOOSE k \in Port : OlderIssue(i, k, r, w)
<1>1. j \in Port /\ OlderIssue(i, j, r, w)  OBVIOUS
<1>2. LookupSpecTag(i, r, w) = w[j].tag  BY DEF LookupSpecTag
<1>3. LookupAvail(i, r, w, wb) = (LookupSpecTag(i, r, w) \in ImmTag)  BY DEF LookupAvail
<1> HIDE DEF j
<1>4. QED  BY <1>1, <1>2, <1>3 DEF OlderIssue

LEMMA LookupTable ==
  ASSUME NEW i, NEW r, NEW w, NEW wb, ~ \E j \in Port : OlderIssue(i, j, r, w)
  PROVE  /\ LookupSpecTag(i, r, w) = specTag[r]
         /\ LookupAvail(i, r, w, wb) = (specTag[r] \in tagAvail \cup ImmTag \cup wb)
  BY DEF LookupSpecTag, LookupAvail

\* The operand of a uop that has just been renamed is not available before it has been
\* produced ...
LEMMA NewUnread ==
  ASSUME WindowInv, WindowInv', RedirectCovers, RedirectsRaised, TagsAgree,
         \A t \in RFTag : OwnedOnce(t), ZeroIsConstant, SpecMap, PendingUnavailable,
         ~trapUOp.valid, NEW F, NEW n, CycleOf(F, n), NEW w, NEW m, RenamesAs(F, w, m),
         NoReplayIn \/ ReplayIn(Replaying(branch)), ~branch'.taken,
         NEW p \in Nat, p < InFlight', ~Returned(p)', Uops'[p].tag \in RFTag,
         NEW j \in Port, j < m, rnUOp'[j].tag = Uops'[p].tag
  PROVE  ~rnUOp'[j].avail
<1> DEFINE t == Uops'[p].tag
<1>1. NoReplayIn /\ ~mispredFlush  BY NewMeansRename
<1>2. PICK r \in Reg : /\ rnUOp'[j].tag = LookupSpecTag(j, r, w)
                       /\ rnUOp'[j].avail = LookupAvail(j, r, w, WrittenBack(F))
  BY DEF RenamesAs
<1>3. t \in RFTag /\ t \notin ImmTag /\ LookupSpecTag(j, r, w) = t
  BY <1>2, ImmediatesAreNoRegisters DEF ImmTag
<1>4. r # 0  BY <1>3, LookupZero
<1>5. CASE \E k \in Port : OlderIssue(j, k, r, w)
  <2> HIDE DEF t
  <2> QED  BY <1>2, <1>3, <1>5, LookupOlder
<1>6. CASE ~ \E k \in Port : OlderIssue(j, k, r, w)
  <2>1. /\ specTag[r] = t
        /\ rnUOp'[j].avail = (t \in tagAvail \cup ImmTag \cup WrittenBack(F))
    <3> HIDE DEF t
    <3> QED  BY <1>2, <1>3, <1>6, LookupTable
  <2>2. MapsTo(Uops, InFlight, r, Base[r], t)
    BY <1>1, <1>4, <2>1 DEF SpecMap, NoReplayIn
  <2>3. p < Pos(lastIndex)'
    <3> SUFFICES ASSUME ~(p < Pos(lastIndex)')  PROVE FALSE
      OBVIOUS
    <3> DEFINE i == p - Pos(lastIndex)'
    <3>1. Pos(lastIndex)' <= p  BY FlightAfter, SMT
    <3>2. i \in Port /\ i < m /\ t = w[i].tag  BY <3>1, NewUop
    <3> HIDE DEF i, t
    <3>3. ReadyOwns(i, t)  BY <1>3, <3>2 DEF RenamesAs
    <3>4. InFlight \in Nat /\ InFlight <= InFlight  BY FlightType, SMT
    <3>5. r \in Reg \ {0} /\ OwnedOnce(t)  BY <1>3, <1>4
    <3> QED  BY <2>2, <3>3, <3>4, <3>5, MapNotReady
  <2>4. t = Uops[p + n].tag /\ p + n \in Nat /\ p + n < InFlight
    BY <2>3, UopsMove, SlotMoves
  <2>5. p + n \in 0 .. InFlight - 1  BY <2>4, FlightType, SMT
  <2>6. Uops[p + n].rd = r  BY <1>3, <1>4, <2>2, <2>4, MapUop
  <2>7. ~Returned(p + n)  BY <2>3, ReturnedStays
  <2>8. t \notin tagAvail  BY <1>3, <1>4, <2>4, <2>5, <2>6, <2>7 DEF PendingUnavailable
  <2>9. t \notin WrittenBack(F)  BY <2>3, <2>4, WrittenBackReturned
  <2> HIDE DEF t
  <2> QED  BY <1>3, <2>1, <2>8, <2>9
<1>7. QED  BY <1>5, <1>6

\* ... and no register that an older uop reads is given to one that has just been renamed.
LEMMA NewNotRead ==
  ASSUME WindowInv, WindowInv', RedirectCovers, \A t \in RFTag : OwnedOnce(t),
         FlushRedirects, SourceMap, ~trapUOp.valid,
         NEW F, NEW n, CycleOf(F, n), NEW w, NEW m, RenamesAs(F, w, m),
         NEW i \in Port, i < m, ~branch.taken, w[i].tag \in RFTag,
         NEW q \in Nat, q < Pos(lastIndex)'
  PROVE  Uops'[q].src # w[i].tag
<1> SUFFICES ASSUME Uops'[q].src = w[i].tag  PROVE FALSE
  OBVIOUS
<1> DEFINE t == w[i].tag
<1>1. Uops[q + n].src = t /\ q + n \in Nat /\ q + n < InFlight  BY UopsMove, SlotMoves
<1>2. q + n \in 0 .. InFlight - 1 /\ q + n <= InFlight  BY <1>1, FlightType, SMT
<1>3. PICK r \in Reg \ {0} : MapsTo(Uops, q + n, r, Base[r], t)
  BY <1>1, <1>2 DEF SourceMap, FlushRedirects
<1>4. ReadyOwns(i, t)  BY DEF RenamesAs
<1> HIDE DEF t
<1>5. OwnedOnce(t)  BY DEF t
<1>6. QED  BY <1>1, <1>2, <1>3, <1>4, <1>5, MapNotReady

LEMMA PendingUnreadStep ==
  ASSUME WindowInv, WindowInv', RedirectCovers, RedirectsRaised, TagsAgree,
         \A t \in RFTag : OwnedOnce(t), ZeroIsConstant, FlushRedirects, SpecMap, SourceMap,
         PendingUnavailable, PendingUnread,
         NEW F, NEW n, CycleOf(F, n), NoReplayIn \/ ReplayIn(Replaying(branch)),
         NEW p \in Nat, p < InFlight', NEW q \in Nat, q < InFlight',
         ~Returned(p)', Uops'[p].tag \in RFTag, Uops'[q].src = Uops'[p].tag
  PROVE  ~Avail(q)'
<1> DEFINE old == Pos(lastIndex)'
<1>1. CASE p < old /\ q < old
  <2>1. /\ Uops'[p].tag = Uops[p + n].tag /\ Uops'[q].src = Uops[q + n].src
        /\ p + n \in Nat /\ p + n < InFlight /\ q + n \in Nat /\ q + n < InFlight
        /\ Avail(q)' = (Avail(q + n) \/ Uops[q + n].src \in WrittenBack(F))
    BY <1>1, UopsMove, SlotMoves
  <2>2. p + n \in 0 .. InFlight - 1 /\ q + n \in 0 .. InFlight - 1
    BY <2>1, FlightType, SMT
  <2>3. ~Returned(p + n)  BY <1>1, ReturnedStays
  <2>4. ~Avail(q + n)  BY <2>1, <2>2, <2>3 DEF PendingUnread
  <2>5. Uops[p + n].tag \notin WrittenBack(F)  BY <1>1, <2>1, WrittenBackReturned
  <2> QED  BY <2>1, <2>4, <2>5
<1>2. CASE ~(p < old /\ q < old)
  <2>1. ~branch.taken
    <3>1. branch.taken => InFlight' = old  BY FlightAfter
    <3> QED  BY <1>2, <3>1
  <2>2. PICK w, m : RenamesAs(F, w, m)  BY <2>1, CycleRenames DEF WindowInv
  <2>3. \A x \in Nat : ~(x < old) => old <= x  BY FlightAfter, SMT
  <2>4. ~branch'.taken
    <3>1. PICK x \in {p, q} : ~(x < old)  BY <1>2
    <3>2. x \in Nat /\ x < InFlight' /\ old <= x  BY <2>3, <3>1
    <3> QED  BY <2>2, <3>2, NewUop
  <2>5. ~trapUOp.valid  BY <2>4, TrapRedirects DEF CycleOf
  <2>6. CASE q < old
    <3>1. ~(p < old)  BY <1>2, <2>6
    <3> DEFINE i == p - old
    <3>2. i \in Port /\ i < m /\ Uops'[p].tag = w[i].tag  BY <2>2, <2>3, <3>1, NewUop
    <3> HIDE DEF i
    <3> QED  BY <2>1, <2>2, <2>5, <2>6, <3>2, NewNotRead
  <2>7. CASE ~(q < old)
    <3> DEFINE j == q - old
    <3>1. j \in Port /\ j < m /\ Uops'[q].src = rnUOp'[j].tag /\ Avail(q)' = rnUOp'[j].avail
      BY <2>2, <2>3, <2>7, NewUop
    <3> HIDE DEF j
    <3>2. ~rnUOp'[j].avail  BY <2>2, <2>4, <2>5, <3>1, NewUnread
    <3> QED  BY <3>1, <3>2
  <2> QED  BY <2>6, <2>7
<1>3. QED  BY <1>1, <1>2

\* A result that is missing before a cycle and not written back in it is missing after
\* it, and its uop does not leave the buffer.
LEMMA PendingMoves ==
  ASSUME WindowInv, WindowInv', RedirectCovers, TagsAgree, EliminatedNeedsNone,
         TrapsWriteNothing, ~trapUOp'.valid, NEW F, NEW n, CycleOf(F, n),
         NEW x \in Nat, x < Pos(lastIndex)' + n, ~Returned(x),
         Uops[x].tag \in RFTag, Uops[x].tag \notin WrittenBack(F)
  PROVE  \E p \in Nat : p + n = x /\ Uops'[p].tag = Uops[x].tag /\ ~Returned(p)'
<1>1. n <= x
  <2> SUFFICES ASSUME ~(n <= x)  PROVE FALSE
    OBVIOUS
  <2>1. n \in 0 .. Width /\ n # 0 /\ x \in Port /\ x < n
    BY WidthType, SMT DEF CycleOf, Port
  <2>2. ~mispredFlush'  BY <2>1 DEF CycleOf, RobMoves
  <2> QED  BY <2>1, <2>2, CommitMoves
<1> DEFINE p == x - n
<1>2. p \in Nat /\ p + n = x /\ p < Pos(lastIndex)'  BY <1>1, FlightAfter, SMT
<1> HIDE DEF p
<1>3. Uops'[p].tag = Uops[x].tag  BY <1>2, UopsMove
<1>4. ~Returned(p)'  BY <1>2, ProducedSource
<1>5. QED  BY <1>2, <1>3, <1>4

\* A missing operand is that of an older uop, which has not produced it: so it was
\* before ...
LEMMA KeptPending ==
  ASSUME WindowInv, WindowInv', RedirectCovers, TagsAgree, EliminatedNeedsNone,
         TrapsWriteNothing, UnavailablePending, FlushRedirects,
         NEW F, NEW n, CycleOf(F, n), ~trapUOp'.valid, ~branch'.flush,
         NEW q \in Nat, q < Pos(lastIndex)', ~Avail(q)'
  PROVE  /\ Uops'[q].src \in RFTag
         /\ \E p \in 0 .. q - 1 : Uops'[p].tag = Uops'[q].src /\ ~Returned(p)'
<1>1. ~trapUOp.valid  BY FlushStep DEF CycleOf
<1>2. ~branch.flush
  <2>1. Pos(lastIndex)' <= InFlight' /\ Pos(lastIndex)' \in Nat /\ InFlight' \in Nat
    BY FlightAfter
  <2>2. InFlight' # 0  BY <2>1, SMT
  <2> QED  BY <2>2, FlushEmpties
<1>3. /\ Uops'[q].src = Uops[q + n].src /\ q + n \in Nat /\ q + n < InFlight
      /\ ~Avail(q + n) /\ Uops[q + n].src \notin WrittenBack(F)
  BY UopsMove, SlotMoves
<1>4. q + n \in 0 .. InFlight - 1  BY <1>3, FlightType, SMT
<1>5. /\ Uops[q + n].src \in RFTag
      /\ \E x \in 0 .. (q + n) - 1 : Uops[x].tag = Uops[q + n].src /\ ~Returned(x)
  BY <1>1, <1>2, <1>3, <1>4 DEF UnavailablePending
<1>6. PICK x \in 0 .. (q + n) - 1 : Uops[x].tag = Uops[q + n].src /\ ~Returned(x)
  BY <1>5
<1>7. x \in Nat /\ x < Pos(lastIndex)' + n  BY <1>3, <1>6, FlightAfter, SMT
<1>8. Uops[x].tag \in RFTag /\ Uops[x].tag \notin WrittenBack(F)  BY <1>3, <1>5, <1>6
<1>9. PICK p \in Nat : p + n = x /\ Uops'[p].tag = Uops[x].tag /\ ~Returned(p)'
  BY <1>6, <1>7, <1>8, PendingMoves
<1>10. p \in 0 .. q - 1  BY <1>6, <1>9, FlightAfter, SMT
<1>11. QED  BY <1>3, <1>5, <1>6, <1>9, <1>10

\* ... and so it is when rename has looked it up.
LEMMA NewPending ==
  ASSUME WindowInv, WindowInv', RedirectCovers, ProducedInv, TrapsWriteNothing,
         ZeroIsConstant, SpecMap, ProducedAvailable,
         NEW F, NEW n, CycleOf(F, n), NEW w, NEW m, RenamesAs(F, w, m),
         NoReplayIn \/ ReplayIn(Replaying(branch)), ~trapUOp.valid, ~trapUOp'.valid,
         NEW q \in Nat, Pos(lastIndex)' <= q, q < InFlight', ~Avail(q)'
  PROVE  /\ Uops'[q].src \in RFTag
         /\ \E p \in 0 .. q - 1 : Uops'[p].tag = Uops'[q].src /\ ~Returned(p)'
<1> DEFINE i == q - Pos(lastIndex)'
           t == Uops'[q].src
<1>1. /\ ~branch.taken /\ ~branch'.taken /\ i \in Port /\ i < m /\ Pos(lastIndex)' + i = q
      /\ t = rnUOp'[i].tag /\ ~rnUOp'[i].avail
  BY NewUop
<1> HIDE DEF i, t
<1>2. NoReplayIn /\ ~mispredFlush  BY <1>1, NewMeansRename
<1>3. PICK r \in Reg : /\ t = LookupSpecTag(i, r, w)
                       /\ rnUOp'[i].avail = LookupAvail(i, r, w, WrittenBack(F))
  BY <1>1 DEF RenamesAs
<1>4. CASE \E k \in Port : OlderIssue(i, k, r, w)
  <2>1. PICK k \in Port : /\ k < i /\ w[k].valid /\ t = w[k].tag
                          /\ rnUOp'[i].avail = (w[k].tag \in ImmTag)
    BY <1>3, <1>4, LookupOlder
  <2>2. k < m /\ rnUOp'[k].tagDst = t  BY <2>1 DEF RenamesAs
  <2>3. t \in RFTag
    <3>1. rnUOp'[k] \in R_UOp  BY <2>1 DEF WindowInv, TypeOK, RNTypeOK
    <3> QED  BY <1>1, <2>1, <2>2, <3>1 DEF R_UOp, Tag
  <2>4. PICK p \in 0 .. q - 1 : p = Pos(lastIndex)' + k
    <3>1. Pos(lastIndex)' + k \in 0 .. q - 1
      BY <1>1, <2>1, FlightAfter, WidthType, SMT DEF Port
    <3> QED  BY <3>1
  <2>5. p \in Nat /\ Pos(lastIndex)' <= p /\ p < InFlight' /\ p - Pos(lastIndex)' = k
    BY <1>1, <2>4, FlightAfter, WidthType, SMT DEF Port
  <2>6. Uops'[p].tag = w[k].tag /\ ~Returned(p)'  BY <2>5, NewUop DEF Returned
  <2> QED  BY <2>1, <2>3, <2>4, <2>6 DEF t
<1>5. CASE ~ \E k \in Port : OlderIssue(i, k, r, w)
  <2>1. specTag[r] = t /\ t \notin tagAvail \cup ImmTag \cup WrittenBack(F)
    BY <1>1, <1>3, <1>5, LookupTable
  <2>2. r # 0  BY <2>1 DEF ZeroIsConstant, ImmTag
  <2>3. t \in RFTag
    <3>1. specTag[r] \in Tag  BY DEF WindowInv, TypeOK, RATTypeOK
    <3> QED  BY <2>1, <3>1 DEF Tag
  <2>4. MapsTo(Uops, InFlight, r, Base[r], t)  BY <1>1, <1>2, <2>1, <2>2 DEF SpecMap
  <2>5. Base[r] # t  BY <2>1, <2>3, BaseProduced
  <2>6. PICK x \in 0 .. InFlight - 1 : Uops[x].tag = t  BY <2>4, <2>5 DEF MapsTo
  <2>7. ~Returned(x)  BY <2>1, <2>3, <2>6 DEF ProducedAvailable
  <2>8. x \in Nat /\ x < Pos(lastIndex)' + n  BY <1>1, FlightAfter, FlightType, SMT
  <2>9. Uops[x].tag \in RFTag /\ Uops[x].tag \notin WrittenBack(F)  BY <2>1, <2>3, <2>6
  <2>10. PICK p \in Nat : p + n = x /\ Uops'[p].tag = Uops[x].tag /\ ~Returned(p)'
    BY <2>7, <2>8, <2>9, PendingMoves DEF ProducedInv
  <2>11. p \in 0 .. q - 1  BY <2>8, <2>10, FlightAfter, SMT
  <2> QED  BY <2>3, <2>6, <2>10, <2>11 DEF t
<1>6. QED  BY <1>4, <1>5

LEMMA UnavailablePendingStep ==
  ASSUME WindowInv, WindowInv', RedirectCovers, ProducedInv, TrapsWriteNothing,
         ZeroIsConstant, FlushRedirects, SpecMap, ProducedAvailable, UnavailablePending,
         NEW F, NEW n, CycleOf(F, n), NoReplayIn \/ ReplayIn(Replaying(branch)),
         ~trapUOp'.valid, ~branch'.flush,
         NEW q \in Nat, q < InFlight', ~Avail(q)'
  PROVE  /\ Uops'[q].src \in RFTag
         /\ \E p \in 0 .. q - 1 : Uops'[p].tag = Uops'[q].src /\ ~Returned(p)'
<1>1. TagsAgree /\ EliminatedNeedsNone  BY DEF ProducedInv
<1>2. CASE q < Pos(lastIndex)'
  BY <1>1, <1>2, KeptPending
<1>3. CASE ~(q < Pos(lastIndex)')
  <2>1. Pos(lastIndex)' <= q /\ ~branch.taken
    <3>1. Pos(lastIndex)' <= q  BY <1>3, FlightAfter, SMT
    <3>2. branch.taken => InFlight' = Pos(lastIndex)'  BY FlightAfter
    <3> QED  BY <1>3, <3>1, <3>2
  <2>2. ~trapUOp.valid  BY FlushStep DEF CycleOf
  <2>3. PICK w, m : RenamesAs(F, w, m)  BY <2>1, CycleRenames DEF WindowInv
  <2> QED  BY <2>1, <2>2, <2>3, NewPending
<1>4. QED  BY <1>2, <1>3

-----------------------------------------------------------------------------
(* The parts of the invariant that are about one uop. *)

\* Decode gives what traps no register.
LEMMA RenamedTraps ==
  ASSUME NEW F, NEW n, CycleOf(F, n), NEW i \in Port, rnUOp'[i].fu = "TRAP"
  PROVE  rnUOp'[i].rd = 0 /\ rnUOp'[i].tagDst \notin RFTag
<1>1. CASE rnUOp' = [j \in Port |-> NoRUOp]
  BY <1>1 DEF NoRUOp
<1>2. CASE \E uop \in DecodedUOps(DUOps) : RNAccept(mispredFlush, uop, comUOp, F)
  <2>1. PICK uop \in DecodedUOps(DUOps) : RNAccept(mispredFlush, uop, comUOp, F)
    BY <1>2
  <2>2. rnUOp'[i] = IF Decoded(uop, i) THEN Renamed(uop, i, WrittenBack(F)) ELSE NoRUOp
    BY <2>1 DEF RNAccept
  <2>3. Decoded(uop, i) /\ rnUOp'[i] = Renamed(uop, i, WrittenBack(F))
    BY <2>2 DEF NoRUOp
  <2>4. /\ rnUOp'[i].fu = IF ScFails(uop, i) THEN "RN" ELSE uop[i].fu
        /\ rnUOp'[i].rd = uop[i].rd /\ rnUOp'[i].tagDst = NewTag(uop, i)
    BY <2>3 DEF Renamed
  <2>5. uop[i].fu = "TRAP"  BY <2>4
  <2>6. uop[i] \in DUOps  BY <2>3 DEF DecodedUOps, Decoded
  <2>7. uop[i].rd = 0  BY <2>5, <2>6, RenameCommitAssumption
  <2>8. NewTag(uop, i) \in {TAG_ONE, TAG_ZERO}  BY <2>5 DEF NewTag, TagNeeded
  <2> QED  BY <2>4, <2>7, <2>8, ImmediatesAreNoRegisters
<1>3. QED
  BY <1>1, <1>2 DEF CycleOf, RedirectCycle, ReplayCycle, TrapCycle, CommitCycle, RenameStep,
                    RNRedirect, RNIdle

LEMMA TrapsWriteNothingStep ==
  ASSUME WindowInv, RedirectCovers, TrapsWriteNothing, NEW F, NEW n, CycleOf(F, n)
  PROVE  TrapsWriteNothing'
<1>1. ASSUME NEW s \in SqNs, InROB(s)', flags'[RobIdx(s)] = "TRAP"
      PROVE  entries'[RobIdx(s)].rd = 0
  <2> USE DEF CycleOf
  <2> DEFINE k == RobIdx(s)
  <2>1. CASE Enqueued(k, rnUOp, branch) # {}
    <3>1. PICK i \in Enqueued(k, rnUOp, branch) : TRUE  BY <2>1
    <3>2. i \in Port /\ rnUOp[i].valid /\ ~branch.taken /\ RobIdx(rnUOp[i].sqN) = k
      BY <3>1 DEF Enqueued
    <3> HIDE DEF k
    <3>3. entries'[k] = EntryOf(rnUOp[i]) /\ flags'[k] = InitialFlags(rnUOp[i].fu)
      BY <3>2, SlotEntered
    <3>4. entries'[k].rd = rnUOp[i].rd  BY <3>3 DEF EntryOf
    <3>5. rnUOp[i].fu = "TRAP"  BY <1>1, <3>3 DEF InitialFlags, k
    <3> QED  BY <3>2, <3>4, <3>5 DEF TrapsWriteNothing, k
  <2>2. CASE Enqueued(k, rnUOp, branch) = {}
    <3>1. InROB(s)  BY <1>1, <2>2, EnteredOrKept DEF RobMoves
    <3> HIDE DEF k
    <3>2. entries'[k] = entries[k]  BY <1>1, <3>1, SlotKept DEF k
    <3>3. Completed(k, F, branch) # {} =>
            \E u \in Completed(k, F, branch) : flags'[k] = u.flags
      BY <1>1, <3>1, SlotKept DEF k
    <3>4. \A u \in Completed(k, F, branch) : u.flags # "TRAP"
      BY ReportedFlags DEF Completed, WindowInv
    <3>5. Completed(k, F, branch) = {}  BY <1>1, <3>3, <3>4 DEF k
    <3>6. flags'[k] = flags[k]  BY <1>1, <3>1, <3>5, SlotKept DEF k
    <3> QED  BY <1>1, <3>1, <3>2, <3>6 DEF TrapsWriteNothing, k
  <2> QED  BY <2>1, <2>2
<1>2. QED  BY <1>1, RenamedTraps DEF TrapsWriteNothing

\* Nothing is renamed while the ROB replays.
LEMMA ReplayAloneStep ==
  ASSUME NoReplayIn \/ ReplayIn(Replaying(branch))
  PROVE  ReplayAlone'
  BY DEF NoReplayIn, ReplayIn, ReplayAlone

\* Nobody writes x0.
LEMMA ZeroIsConstantStep ==
  ASSUME TypeOK, ZeroIsConstant, NEW F, NEW n, CycleOf(F, n), NEW used, RenameMoves(used)
  PROVE  ZeroIsConstant'
<1>1. ASSUME NEW table, NEW w  PROVE Written(table, w)[0] = table[0]
  <2>1. 0 \in Reg  BY IncludeAssumption, SMT DEF Reg
  <2> QED  BY <2>1 DEF Written, LastWriter
<1>2. comTag'[0] = TAG_ZERO  BY <1>1 DEF RenameMoves, ZeroIsConstant
<1>3. \E m, w : specTag' = NextSpecTag(m, mispredFlush, w, comUOp)
  <2>1. CASE branch.taken
    <3>1. RedirectCycle(F)  BY <2>1 DEF CycleOf, ReplayCycle, TrapCycle, CommitCycle
    <3> QED  BY <3>1 DEF RedirectCycle, RNRedirect, RATClock
  <2>2. CASE ~branch.taken
    <3>1. PICK w, m : RenamesAs(F, w, m)  BY <2>2, CycleRenames
    <3> QED  BY <3>1 DEF RenamesAs
  <2> QED  BY <2>1, <2>2
<1>4. PICK m, w : specTag' = NextSpecTag(m, mispredFlush, w, comUOp)  BY <1>3
<1>5. specTag'[0] = TAG_ZERO
  <2>1. \A start \in {comTag, Written(specTag, w)} : start[0] = TAG_ZERO
    BY <1>1 DEF ZeroIsConstant
  <2>2. specTag' \in UNION {{x, Written(x, comUOp)} : x \in {comTag, Written(specTag, w)}}
    BY <1>4 DEF NextSpecTag
  <2> QED  BY <1>1, <2>1, <2>2
<1>6. QED  BY <1>2, <1>5 DEF ZeroIsConstant

-----------------------------------------------------------------------------
(* The invariant. *)

MapInv ==
  /\ RaisedInv /\ ProducedInv
  /\ TrapsWriteNothing /\ FlushRedirects /\ ReplayAlone /\ ZeroIsConstant
  /\ SpecMap /\ SourceMap
  /\ PendingUnavailable /\ PendingUnread /\ ProducedAvailable /\ UnavailablePending

\* After reset every map is that of the registers with the value 0, and nothing is in
\* flight.
LEMMA InitMap == Init => MapInv
<1> SUFFICES ASSUME Init  PROVE MapInv
  OBVIOUS
<1>1. RaisedInv /\ ProducedInv  BY InitRaised, InitProduced
<1>2. /\ specTag = [r \in Reg |-> TAG_ZERO] /\ comTag = [r \in Reg |-> TAG_ZERO]
      /\ rnUOp = [i \in Port |-> NoRUOp] /\ comUOp = [i \in Port |-> NoRATWrite]
      /\ baseIndex = 0 /\ lastIndex = 0 /\ counterSqN = 0 /\ mispredFlush = FALSE
      /\ branch = NoBranch
  BY DEF Init, RATInit, RNInit, ROBInit
<1>3. Pos(lastIndex) = 0 /\ Pos(counterSqN) = 0 /\ InFlight = 0
  BY <1>2, ZeroType, PlusMinusOne DEF Pos, InFlight
<1>4. \A q \in 0 .. InFlight - 1 : FALSE  BY <1>3, SMT
<1>5. TrapsWriteNothing
  <2>1. \A s \in SqNs : ~InROB(s)
    <3> SUFFICES ASSUME NEW s \in SqNs, InROB(s)  PROVE FALSE
      OBVIOUS
    <3>1. 0 <= Pos(s) /\ Pos(s) < 0  BY <1>3 DEF InROB, Pos
    <3>2. Pos(s) \in Int  BY <1>1, PosType DEF RaisedInv, WindowInv
    <3> QED  BY <3>1, <3>2, SMT
  <2> QED  BY <1>2, <2>1 DEF TrapsWriteNothing, NoRUOp
<1>6. FlushRedirects /\ ReplayAlone  BY <1>2 DEF FlushRedirects, ReplayAlone, NoBranch
<1>7. ZeroIsConstant
  <2>1. 0 \in Reg  BY IncludeAssumption, SMT DEF Reg
  <2> QED  BY <1>2, <2>1 DEF ZeroIsConstant
<1>8. SpecMap
  <2>1. Base = comTag
    <3>1. \A i \in Port : ~comUOp[i].valid  BY <1>2 DEF NoRATWrite
    <3>2. comTag \in [Reg -> Tag]  BY <1>1 DEF RaisedInv, WindowInv, TypeOK, RATTypeOK
    <3> QED  BY <1>2, <3>1, <3>2, NothingWritten DEF Base
  <2>2. \A r \in Reg \ {0} : MapsTo(Uops, InFlight, r, Base[r], specTag[r])
    BY <1>2, <1>4, <2>1 DEF MapsTo
  <2> QED  BY <1>2, <2>2 DEF SpecMap
<1>9. SourceMap /\ UnavailablePending  BY <1>4 DEF SourceMap, UnavailablePending
<1>10. PendingUnavailable /\ PendingUnread /\ ProducedAvailable
  BY <1>4 DEF PendingUnavailable, PendingUnread, ProducedAvailable
<1>11. QED  BY <1>1, <1>5, <1>6, <1>7, <1>8, <1>9, <1>10 DEF MapInv

LEMMA NextMap ==
  ASSUME ScNeverTimesOut
  PROVE  MapInv /\ [AnyNext]_vars => MapInv'
<1> SUFFICES ASSUME MapInv, [AnyNext]_vars  PROVE MapInv'
  OBVIOUS
<1>1. RaisedInv' /\ ProducedInv'  BY NextRaised, NextProduced DEF MapInv
<1>2. /\ WindowInv /\ WindowInv' /\ TypeOK /\ RedirectCovers /\ RedirectsRaised
      /\ ProducedInv /\ TagsAgree /\ EliminatedNeedsNone
      /\ \A t \in RFTag : OwnedOnce(t)
  BY <1>1 DEF MapInv, RaisedInv, ProducedInv, FreeListInv, WindowInv
<1>3. /\ TrapsWriteNothing /\ FlushRedirects /\ ReplayAlone /\ ZeroIsConstant
      /\ SpecMap /\ SourceMap
      /\ PendingUnavailable /\ PendingUnread /\ ProducedAvailable /\ UnavailablePending
  BY DEF MapInv
<1>4. CASE AnyNext
  <2>1. PICK F \in AnyCompletions : Cycle(F)  BY <1>4 DEF AnyNext
  <2>2. PICK n \in 0 .. Width : CycleOf(F, n)  BY <1>2, <2>1, CycleParts
  <2>3. /\ RedirectCycle(F) \/ ReplayCycle(F) \/ TrapCycle(F) \/ CommitCycle(F)
        /\ RedirectStep(F)
    BY <2>2 DEF CycleOf
  <2>4. PICK used \in SUBSET Port : RenameMoves(used)  BY <1>2, <2>3, RenameAlwaysMoves
  <2>5. NoReplayIn \/ ReplayIn(Replaying(branch))
    <3>1. F \in SUBSET FlagsUOp  BY <1>2, CompletionsType
    <3> QED  BY <1>2, <2>3, <3>1, CycleReplays DEF ProducedInv, FreeListInv
  <2>6. \A q \in 0 .. InFlight' - 1 : q \in Nat /\ q < InFlight'
    BY <1>2, <2>2, FlightAfter, SMT
  <2>7. TrapsWriteNothing'  BY <1>2, <1>3, <2>2, TrapsWriteNothingStep
  <2>8. FlushRedirects'  BY <2>3, FlushStep
  <2>9. ReplayAlone'  BY <2>5, ReplayAloneStep
  <2>10. ZeroIsConstant'  BY <1>2, <1>3, <2>2, <2>4, ZeroIsConstantStep
  <2>11. SpecMap'
    <3> SUFFICES ASSUME ~branch'.taken, ~trapUOp'.valid, NEW r \in Reg \ {0}
                 PROVE  IF mispredFlush'
                        THEN MapsTo(Uops', Rebuilt', r, Base'[r], Written(specTag', comUOp')[r])
                        ELSE MapsTo(Uops', InFlight', r, Base'[r], specTag'[r])
      BY DEF SpecMap
    <3>1. ~trapUOp.valid  BY <2>3, TrapRedirects
    <3>2. CASE ReplayIn(Replaying(branch))
      BY <1>2, <1>3, <2>2, <2>4, <3>1, <3>2, SpecMapReplay
    <3>3. CASE NoReplayIn
      <4>1. ~branch.taken /\ ~mispredFlush'  BY <3>3 DEF NoReplayIn
      <4>2. PICK w, m : RenamesAs(F, w, m)  BY <1>2, <2>2, <4>1, CycleRenames
      <4> QED  BY <1>2, <1>3, <2>2, <2>4, <3>1, <3>3, <4>1, <4>2, SpecMapRename
    <3> QED  BY <2>5, <3>2, <3>3
  <2>12. SourceMap'
    BY <1>2, <1>3, <2>2, <2>4, <2>5, <2>6, SourceMapStep DEF SourceMap
  <2>13. PendingUnavailable'
    BY <1>2, <1>3, <2>2, <2>6, PendingUnavailableStep DEF PendingUnavailable
  <2>14. PendingUnread'
    BY <1>2, <1>3, <2>2, <2>5, <2>6, PendingUnreadStep DEF PendingUnread
  <2>15. ProducedAvailable'
    BY <1>2, <1>3, <2>2, <2>6, ProducedAvailableStep DEF ProducedAvailable
  <2>16. UnavailablePending'
    BY <1>2, <1>3, <2>2, <2>5, <2>6, UnavailablePendingStep DEF UnavailablePending
  <2> QED  BY <1>1, <2>7, <2>8, <2>9, <2>10, <2>11, <2>12, <2>13, <2>14, <2>15, <2>16 DEF MapInv
<1>5. CASE UNCHANGED vars
  <2> USE <1>5 DEF vars, ratVars, tbVars, rnVars, robVars
  <2>1. /\ Uops' = Uops /\ InFlight' = InFlight /\ Base' = Base /\ Rebuilt' = Rebuilt
        /\ \A q : Produced(q)' = Produced(q) /\ Returned(q)' = Returned(q) /\ Avail(q)' = Avail(q)
    BY DEF Uops, InFlight, Base, Rebuilt, Produced, Returned, Avail, Slot, RnPort, Pos
  <2>2. \A s : InROB(s)' = InROB(s)  BY DEF InROB
  <2>3. TrapsWriteNothing'  BY <1>3, <2>2 DEF TrapsWriteNothing
  <2>4. FlushRedirects' /\ ReplayAlone' /\ ZeroIsConstant'
    BY <1>3 DEF FlushRedirects, ReplayAlone, ZeroIsConstant
  <2>5. SpecMap' /\ SourceMap'  BY <1>3, <2>1 DEF SpecMap, SourceMap
  <2>6. PendingUnavailable' /\ PendingUnread' /\ ProducedAvailable'
    BY <1>3, <2>1 DEF PendingUnavailable, PendingUnread, ProducedAvailable
  <2>7. UnavailablePending'  BY <1>3, <2>1 DEF UnavailablePending
  <2> QED  BY <1>1, <2>3, <2>4, <2>5, <2>6, <2>7 DEF MapInv
<1>6. QED  BY <1>4, <1>5

-----------------------------------------------------------------------------
(* What the invariant says about the state of the core. *)

\* The uop that a number names, by its position.
LEMMA UopInROB ==
  ASSUME MapInv, NEW s \in SqNs, InROB(s)
  PROVE  /\ Pos(s) \in Nat /\ Pos(s) < Pos(lastIndex) /\ Pos(s) < InFlight
         /\ Pos(s) \in 0 .. InFlight - 1
         /\ s = Plus(baseIndex, Pos(s))
         /\ Uops[Pos(s)].rd = entries[RobIdx(s)].rd /\ Uops[Pos(s)].tag = entries[RobIdx(s)].tag
         /\ Unit(s).tagDst = entries[RobIdx(s)].tag
         /\ DestReg(s) = entries[RobIdx(s)].rd
         /\ Uops[Pos(s)].src = Unit(s).tag /\ Avail(Pos(s)) = Unit(s).avail
         /\ ResultMissing(s) => ~Returned(Pos(s))
<1>1. WindowInv /\ TagsAgree /\ TrapsWriteNothing
  BY DEF MapInv, ProducedInv, FreeListInv
<1>2. /\ Pos(s) \in Nat /\ Pos(s) < Pos(lastIndex) /\ s = Plus(baseIndex, Pos(s))
      /\ Slot(Pos(s)) = RobIdx(s)
  BY <1>1, PosOfSlot
<1>3. Pos(s) < InFlight /\ Pos(s) \in 0 .. InFlight - 1  BY <1>1, <1>2, FlightType, SMT
<1>4. /\ Uops[Pos(s)].rd = entries[RobIdx(s)].rd /\ Uops[Pos(s)].tag = entries[RobIdx(s)].tag
      /\ Uops[Pos(s)].src = backend[RobIdx(s)].tag /\ Avail(Pos(s)) = backend[RobIdx(s)].avail
  BY <1>1, <1>2, SlotAt
<1>5. backend[RobIdx(s)].tagDst = entries[RobIdx(s)].tag  BY <1>1 DEF TagsAgree
<1>6. DestReg(s) = entries[RobIdx(s)].rd  BY <1>1 DEF DestReg, TrapsWriteNothing
<1>7. ResultMissing(s) => ~Returned(Pos(s))
  BY <1>2 DEF ResultMissing, Unit, Returned, Produced
<1>8. QED  BY <1>2, <1>3, <1>4, <1>5, <1>6, <1>7 DEF Unit

\* The number of the uop at a position.
LEMMA NumberAt ==
  ASSUME MapInv, NEW q \in Nat, q < Pos(lastIndex)
  PROVE  /\ Plus(baseIndex, q) \in SqNs /\ InROB(Plus(baseIndex, q))
         /\ Pos(Plus(baseIndex, q)) = q
         /\ ~Produced(q) => Waiting(Plus(baseIndex, q)) /\ ~Unit(Plus(baseIndex, q)).early
         /\ ~Returned(q) => ResultMissing(Plus(baseIndex, q))
<1>1. WindowInv  BY DEF MapInv, ProducedInv, FreeListInv
<1>2. /\ Plus(baseIndex, q) \in SqNs /\ InROB(Plus(baseIndex, q))
      /\ Pos(Plus(baseIndex, q)) = q
  <2>1. q < ROBSize  BY <1>1, FlightType, RingType, SMT
  <2>2. Plus(baseIndex, q) \in SqNs /\ Pos(Plus(baseIndex, q)) = q
    BY <1>1, <2>1, AtPosition DEF WindowInv
  <2> QED  BY <1>1, <2>2, SlotAt
<1>3. ~Produced(q) => flags[Slot(q)] = "NX" /\ ~backend[Slot(q)].early  BY DEF Produced
<1>4. ~Returned(q) => ResultMissing(Plus(baseIndex, q))
  BY <1>2 DEF Returned, Produced, ResultMissing, Unit, Slot
<1>5. QED  BY <1>2, <1>3, <1>4 DEF Waiting, Unit, Slot

\* A uop at a lower position is older.
LEMMA LowerIsOlder ==
  ASSUME MapInv, NEW s \in SqNs, InROB(s), NEW k \in SqNs, InROB(k)
  PROVE  Diff(k, s) = Pos(k) - Pos(s)
<1>1. /\ WindowInv /\ Pos(s) \in Nat /\ Pos(k) \in Nat
      /\ Pos(s) < Pos(lastIndex) /\ Pos(k) < Pos(lastIndex)
  BY UopInROB DEF MapInv, ProducedInv, FreeListInv
<1>2. -1 <= Pos(s) /\ -1 <= Pos(k)  BY <1>1, SMT
<1>3. QED  BY <1>1, <1>2, OlderByPos

LEMMA MapInvWakeupSound == MapInv => WakeupSound
<1> SUFFICES ASSUME MapInv,
                    NEW p \in SqNs, ResultMissing(p), Unit(p).tagDst \in RFTag
             PROVE  /\ entries[RobIdx(p)].rd # 0 => Unit(p).tagDst \notin tagAvail
                    /\ \A s \in SqNs : Waiting(s) /\ Unit(s).tag = Unit(p).tagDst => ~Unit(s).avail
  BY DEF WakeupSound, MayExecute
<1>1. /\ Pos(p) \in 0 .. InFlight - 1 /\ Uops[Pos(p)].rd = entries[RobIdx(p)].rd
      /\ Uops[Pos(p)].tag = Unit(p).tagDst /\ ~Returned(Pos(p))
  BY UopInROB DEF ResultMissing
<1>2. entries[RobIdx(p)].rd # 0 => Unit(p).tagDst \notin tagAvail
  BY <1>1 DEF MapInv, PendingUnavailable
<1>3. ASSUME NEW s \in SqNs, Waiting(s), Unit(s).tag = Unit(p).tagDst
      PROVE  ~Unit(s).avail
  <2>1. /\ Pos(s) \in 0 .. InFlight - 1 /\ Uops[Pos(s)].src = Unit(p).tagDst
        /\ Avail(Pos(s)) = Unit(s).avail
    BY <1>3, UopInROB DEF Waiting
  <2> QED  BY <1>1, <2>1 DEF MapInv, PendingUnread
<1>4. QED  BY <1>2, <1>3

LEMMA MapInvWakeupComplete == MapInv => WakeupComplete
<1> SUFFICES ASSUME MapInv, Settled, NEW s \in SqNs, Waiting(s), ~Unit(s).avail
             PROVE  \E p \in SqNs : /\ ResultMissing(p) /\ Diff(p, s) < 0
                                    /\ Unit(p).tagDst = Unit(s).tag
  BY DEF WakeupComplete
<1>1. /\ Pos(s) \in 0 .. InFlight - 1 /\ Uops[Pos(s)].src = Unit(s).tag /\ ~Avail(Pos(s))
      /\ Pos(s) < Pos(lastIndex) /\ InROB(s)
  BY UopInROB DEF Waiting
<1>2. ~trapUOp.valid /\ ~branch.flush  BY DEF Settled, MapInv, FlushRedirects
<1>3. PICK q \in 0 .. Pos(s) - 1 : Uops[q].tag = Unit(s).tag /\ ~Returned(q)
  BY <1>1, <1>2 DEF MapInv, UnavailablePending
<1> DEFINE p == Plus(baseIndex, q)
<1>4. q \in Nat /\ q < Pos(lastIndex) /\ q - Pos(s) < 0
  BY <1>1, <1>3, FlightType, SMT DEF MapInv, RaisedInv
<1>5. p \in SqNs /\ InROB(p) /\ Pos(p) = q /\ ResultMissing(p)
  BY <1>3, <1>4, NumberAt
<1> HIDE DEF p
<1>6. Unit(p).tagDst = Unit(s).tag  BY <1>3, <1>5, UopInROB
<1>7. Diff(p, s) < 0  BY <1>1, <1>4, <1>5, LowerIsOlder
<1>8. QED  BY <1>5, <1>6, <1>7

LEMMA MapInvSourceTagLive == MapInv => SourceTagLive
<1> SUFFICES ASSUME MapInv, Settled, NEW s \in SqNs, Waiting(s), Unit(s).tag \in RFTag
             PROVE  \E h \in Holders(Unit(s).tag) : \/ h[1] = "rob" /\ Diff(h[2], s) < 0
                                                    \/ h[1] \in {"commit", "arch"}
  BY DEF SourceTagLive
<1> DEFINE t == Unit(s).tag
<1>1. /\ Pos(s) \in 0 .. InFlight - 1 /\ Uops[Pos(s)].src = t
      /\ Pos(s) < Pos(lastIndex) /\ InROB(s)
  BY UopInROB DEF Waiting
<1>2. ~trapUOp.valid /\ ~branch.flush /\ ~mispredFlush
  BY DEF Settled, MapInv, FlushRedirects
<1>3. PICK r \in Reg \ {0} : MapsTo(Uops, Pos(s), r, Base[r], t)
  BY <1>1, <1>2 DEF MapInv, SourceMap
<1>4. WindowInv  BY DEF MapInv, RaisedInv
<1>5. CASE \E q \in 0 .. Pos(s) - 1 : Uops[q].tag = t
  <2>1. PICK q \in 0 .. Pos(s) - 1 : Uops[q].tag = t  BY <1>5
  <2> DEFINE p == Plus(baseIndex, q)
  <2>2. q \in Nat /\ q < Pos(lastIndex) /\ q - Pos(s) < 0
    BY <1>1, <1>4, <2>1, FlightType, SMT
  <2>3. p \in SqNs /\ InROB(p) /\ Pos(p) = q  BY <2>2, NumberAt
  <2> HIDE DEF p
  <2>4. entries[RobIdx(p)].tag = t  BY <2>1, <2>3, UopInROB
  <2>5. Diff(p, s) < 0  BY <1>1, <2>2, <2>3, LowerIsOlder
  <2>6. <<"rob", p>> \in Holders(t)
    <3> HIDE DEF t
    <3> QED  BY <2>3, <2>4 DEF Holders
  <2>7. <<"rob", p>>[1] = "rob" /\ <<"rob", p>>[2] = p  OBVIOUS
  <2> QED  BY <2>5, <2>6, <2>7
<1>6. CASE Base[r] = t
  <2> HIDE DEF t
  <2>1. ArchOwns(r, t) \/ \E i \in Port : CommitOwns(i, t)
    BY <1>4, <1>6, BaseOwner DEF WindowInv
  <2>2. \E x : <<"arch", x>> \in Holders(t) \/ <<"commit", x>> \in Holders(t)
    BY <2>1 DEF Holders, ArchOwns, CommitOwns
  <2>3. \A x : <<"arch", x>>[1] = "arch" /\ <<"commit", x>>[1] = "commit"  OBVIOUS
  <2> QED  BY <2>2, <2>3 DEF t
<1>7. QED  BY <1>3, <1>5, <1>6 DEF MapsTo

\* A port of rename and its position.
LEMMA PortPosition ==
  ASSUME MapInv, Settled, NEW i \in Port, InRename(i)
  PROVE  LET q == Pos(lastIndex) + i
         IN  /\ q \in Nat /\ q < InFlight /\ ~(q < Pos(lastIndex)) /\ RnPort(q) = i
             /\ Uops[q].rd = rnUOp[i].rd /\ Uops[q].tag = rnUOp[i].tagDst
<1> DEFINE q == Pos(lastIndex) + i
<1>1. WindowInv /\ ~branch.taken /\ rnUOp[i].valid
  BY DEF MapInv, RaisedInv, Settled, InRename
<1>2. PICK m \in 0 .. Width :
        /\ \A j \in Port : rnUOp[j].valid <=> j < m
        /\ Pos(counterSqN) = Pos(lastIndex) + m
  BY <1>1 DEF WindowInv, RenamedInOrder
<1>3. InFlight = Pos(counterSqN)  BY <1>1 DEF InFlight
<1>4. q \in Nat /\ q < InFlight /\ ~(q < Pos(lastIndex)) /\ q - Pos(lastIndex) = i
  BY <1>1, <1>2, <1>3, FlightType, WidthType, SMT DEF Port
<1>5. RnPort(q) = i  BY <1>4 DEF RnPort
<1>6. Uops[q].rd = rnUOp[i].rd /\ Uops[q].tag = rnUOp[i].tagDst
  BY <1>4, <1>5 DEF Uops
<1>7. QED  BY <1>4, <1>5, <1>6

\* A position behind the buffer and its port.
LEMMA PositionPort ==
  ASSUME MapInv, Settled, NEW q \in Nat, ~(q < Pos(lastIndex)), q < InFlight
  PROVE  \E i \in Port : /\ InRename(i) /\ q = Pos(lastIndex) + i
                         /\ Uops[q].rd = rnUOp[i].rd /\ Uops[q].tag = rnUOp[i].tagDst
<1>1. WindowInv /\ ~branch.taken  BY DEF MapInv, RaisedInv, Settled
<1>2. q < Pos(counterSqN)  BY <1>1 DEF InFlight
<1>3. /\ RnPort(q) \in Port /\ rnUOp[RnPort(q)].valid
      /\ Uops[q].rd = rnUOp[RnPort(q)].rd /\ Uops[q].tag = rnUOp[RnPort(q)].tagDst
  BY <1>1, <1>2, PortAt
<1>4. q = Pos(lastIndex) + RnPort(q)  BY <1>1, FlightType, SMT DEF RnPort
<1>5. QED  BY <1>1, <1>3, <1>4 DEF InRename

\* If no port is the newest one that writes r, no port writes r ...
LEMMA NoneInRename ==
  ASSUME NEW r, ~ \E i \in Port : NewestInRename(i, r)
  PROVE  \A i \in Port : InRename(i) => rnUOp[i].rd # r
<1> SUFFICES ASSUME \E i \in Port : InRename(i) /\ rnUOp[i].rd = r  PROVE FALSE
  OBVIOUS
<1> DEFINE T == {i \in Port : InRename(i) /\ rnUOp[i].rd = r}
<1>1. T \subseteq 0 .. Width /\ T # {}  BY WidthType, SMT DEF Port
<1>2. PICK i \in T : \A k \in T : i >= k
  <2> HIDE DEF T
  <2> QED  BY <1>1, WidthType, GreatestNat
<1>3. \A k \in Port : k > i /\ InRename(k) => rnUOp[k].rd # r
  BY <1>2, WidthType, SMT DEF Port
<1>4. QED  BY <1>2, <1>3 DEF NewestInRename

\* ... and so it is in the buffer.
LEMMA NoneInROB ==
  ASSUME MapInv, NEW r, ~ \E s \in SqNs : NewestInROB(s, r)
  PROVE  \A q \in 0 .. Pos(lastIndex) - 1 : Uops[q].rd # r
<1> SUFFICES ASSUME \E q \in 0 .. Pos(lastIndex) - 1 : Uops[q].rd = r  PROVE FALSE
  OBVIOUS
<1> DEFINE T == {q \in 0 .. Pos(lastIndex) - 1 : Uops[q].rd = r}
<1>1. Pos(lastIndex) \in Nat  BY FlightType DEF MapInv, RaisedInv
<1>2. T \subseteq 0 .. Pos(lastIndex) /\ T # {}  BY <1>1, SMT
<1>3. PICK q \in T : \A k \in T : q >= k
  <2> HIDE DEF T
  <2> QED  BY <1>1, <1>2, GreatestNat
<1>4. q \in Nat /\ q < Pos(lastIndex) /\ Uops[q].rd = r  BY <1>1, <1>3, SMT
<1> DEFINE s == Plus(baseIndex, q)
<1>5. s \in SqNs /\ InROB(s) /\ Pos(s) = q  BY <1>4, NumberAt
<1> HIDE DEF s
<1>6. DestReg(s) = r  BY <1>4, <1>5, UopInROB
<1>7. ASSUME NEW k \in SqNs, InROB(k), Diff(k, s) > 0  PROVE DestReg(k) # r
  <2>1. /\ Pos(k) \in Nat /\ Pos(k) < Pos(lastIndex) /\ DestReg(k) = Uops[Pos(k)].rd
        /\ Diff(k, s) = Pos(k) - q
    BY <1>5, <1>7, UopInROB, LowerIsOlder
  <2>2. ~(q >= Pos(k)) /\ Pos(k) \in 0 .. Pos(lastIndex) - 1  BY <1>1, <1>4, <1>7, <2>1, SMT
  <2>3. Pos(k) \notin T  BY <1>3, <2>2
  <2> QED  BY <2>1, <2>2, <2>3
<1>8. QED  BY <1>5, <1>6, <1>7 DEF NewestInROB

\* The tag that program order asks for is that of the map.
LEMMA ProgramOrderMap ==
  ASSUME MapInv, Settled, NEW r \in Reg \ {0}
  PROVE  MapsTo(Uops, InFlight, r, Base[r], ProgramOrderTag(r))
<1>1. WindowInv  BY DEF MapInv, RaisedInv
<1>2. Pos(lastIndex) \in Nat /\ InFlight \in Nat /\ Pos(lastIndex) <= InFlight
  BY <1>1, FlightType
<1>3. CASE \E i \in Port : NewestInRename(i, r)
  <2> DEFINE i == CHOOSE j \in Port : NewestInRename(j, r)
  <2>1. i \in Port /\ NewestInRename(i, r)  BY <1>3
  <2>2. ProgramOrderTag(r) = rnUOp[i].tagDst  BY <1>3 DEF ProgramOrderTag
  <2> HIDE DEF i
  <2>3. InRename(i) /\ rnUOp[i].rd = r  BY <2>1 DEF NewestInRename
  <2> DEFINE q == Pos(lastIndex) + i
  <2>4. q \in Nat /\ q < InFlight /\ Uops[q].rd = r /\ Uops[q].tag = rnUOp[i].tagDst
    BY <2>1, <2>3, PortPosition
  <2>5. ASSUME NEW k \in q + 1 .. InFlight - 1  PROVE Uops[k].rd # r
    <3>1. k \in Nat /\ ~(k < Pos(lastIndex)) /\ k < InFlight
      BY <1>2, <2>1, <2>4, WidthType, SMT DEF Port
    <3>2. PICK j \in Port : InRename(j) /\ k = Pos(lastIndex) + j /\ Uops[k].rd = rnUOp[j].rd
      BY <3>1, PositionPort
    <3>3. j > i  BY <1>2, <2>1, <3>2, WidthType, SMT DEF Port
    <3> QED  BY <2>1, <3>2, <3>3 DEF NewestInRename
  <2>6. q \in 0 .. InFlight - 1  BY <1>2, <2>4, SMT
  <2> HIDE DEF q
  <2> QED  BY <2>2, <2>4, <2>5, <2>6 DEF MapsTo
<1>4. CASE ~ \E i \in Port : NewestInRename(i, r)
  <2>1. ASSUME NEW k \in 0 .. InFlight - 1, ~(k < Pos(lastIndex))  PROVE Uops[k].rd # r
    <3>1. k \in Nat /\ k < InFlight  BY <1>2, SMT
    <3>2. \E j \in Port : InRename(j) /\ Uops[k].rd = rnUOp[j].rd
      BY <2>1, <3>1, PositionPort
    <3> QED  BY <1>4, <3>2, NoneInRename
  <2>2. CASE \E s \in SqNs : NewestInROB(s, r)
    <3> DEFINE s == CHOOSE k \in SqNs : NewestInROB(k, r)
    <3>1. s \in SqNs /\ NewestInROB(s, r)  BY <2>2
    <3>2. ProgramOrderTag(r) = entries[RobIdx(s)].tag  BY <1>4, <2>2 DEF ProgramOrderTag
    <3> HIDE DEF s
    <3>3. InROB(s) /\ DestReg(s) = r  BY <3>1 DEF NewestInROB
    <3>4. /\ Pos(s) \in 0 .. InFlight - 1 /\ Pos(s) \in Nat
          /\ Uops[Pos(s)].rd = r /\ Uops[Pos(s)].tag = entries[RobIdx(s)].tag
      BY <3>1, <3>3, UopInROB
    <3>5. ASSUME NEW k \in Pos(s) + 1 .. InFlight - 1  PROVE Uops[k].rd # r
      <4>1. k \in Nat /\ k \in 0 .. InFlight - 1 /\ k - Pos(s) > 0  BY <1>2, <3>4, SMT
      <4>2. CASE k < Pos(lastIndex)
        <5> DEFINE x == Plus(baseIndex, k)
        <5>1. x \in SqNs /\ InROB(x) /\ Pos(x) = k  BY <4>1, <4>2, NumberAt
        <5> HIDE DEF x
        <5>2. Diff(x, s) > 0  BY <3>1, <3>3, <4>1, <5>1, LowerIsOlder
        <5>3. DestReg(x) # r  BY <3>1, <5>1, <5>2 DEF NewestInROB
        <5> QED  BY <5>1, <5>3, UopInROB
      <4>3. CASE ~(k < Pos(lastIndex))
        BY <2>1, <4>1, <4>3
      <4> QED  BY <4>2, <4>3
    <3> QED  BY <3>2, <3>4, <3>5 DEF MapsTo
  <2>3. CASE ~ \E s \in SqNs : NewestInROB(s, r)
    <3>1. ProgramOrderTag(r) = Base[r]
      <4>1. Base = Written(comTag, comUOp)  BY DEF Base, Settled
      <4> QED  BY <1>4, <2>3, <4>1 DEF ProgramOrderTag
    <3>2. \A q \in 0 .. Pos(lastIndex) - 1 : Uops[q].rd # r  BY <2>3, NoneInROB
    <3>3. ASSUME NEW q \in 0 .. InFlight - 1, q < Pos(lastIndex)
          PROVE  q \in 0 .. Pos(lastIndex) - 1
      BY <1>2, <3>3, SMT
    <3>4. \A q \in 0 .. InFlight - 1 : Uops[q].rd # r  BY <2>1, <3>2, <3>3
    <3> QED  BY <3>1, <3>4 DEF MapsTo
  <2> QED  BY <2>2, <2>3
<1>5. QED  BY <1>3, <1>4

LEMMA MapInvSpecMap == MapInv => SpecMapRecovered
<1> SUFFICES ASSUME MapInv, Settled, NEW r \in Reg \ {0}
             PROVE  specTag[r] = ProgramOrderTag(r)
  BY DEF SpecMapRecovered
<1>1. MapsTo(Uops, InFlight, r, Base[r], specTag[r])
  BY DEF MapInv, SpecMap, Settled
<1>2. MapsTo(Uops, InFlight, r, Base[r], ProgramOrderTag(r))  BY ProgramOrderMap
<1>3. InFlight \in Int  BY FlightType, SMT DEF MapInv, RaisedInv
<1> DEFINE below == Base[r]
           t == specTag[r]
           s == ProgramOrderTag(r)
<1>4. MapsTo(Uops, InFlight, r, below, t) /\ MapsTo(Uops, InFlight, r, below, s)
  BY <1>1, <1>2
<1> HIDE DEF below, t, s
<1>5. t = s  BY <1>3, <1>4, MapsToOne
<1>6. QED  BY <1>5 DEF t, s

-----------------------------------------------------------------------------
(* Theorems. *)

\* Once a redirect has been replayed, rename maps every register to its newest
\* surviving writer in program order, whatever redirects, traps and commits have
\* overtaken each other (RenameTable.sv, ROB.sv replay), for every size of the machine.
THEOREM SpecMapRecoveredCorrect ==
  ASSUME ScNeverTimesOut
  PROVE  Spec => []SpecMapRecovered
<1>1. Init => MapInv  BY InitMap
<1>2. MapInv /\ [Next]_vars => MapInv'  BY NextMap, NextIsAny
<1>3. MapInv => SpecMapRecovered  BY MapInvSpecMap
<1>4. QED  BY <1>1, <1>2, <1>3, PTL DEF Spec

\* The register that a uop is going to read still belongs to an older uop or to the
\* committed state (TagBuffer.sv frees no register too early), for every size of the
\* machine.
THEOREM SourceTagLiveCorrect ==
  ASSUME ScNeverTimesOut
  PROVE  Spec => []SourceTagLive
<1>1. Init => MapInv  BY InitMap
<1>2. MapInv /\ [Next]_vars => MapInv'  BY NextMap, NextIsAny
<1>3. MapInv => SourceTagLive  BY MapInvSourceTagLive
<1>4. QED  BY <1>1, <1>2, <1>3, PTL DEF Spec

\* As long as a uop has not executed, or if it has faulted, rename does not call its
\* destination available (RenameTable.sv tagAvail) and no uop that reads it reports a
\* result or redirects, for every size of the machine.
THEOREM WakeupSoundCorrect ==
  ASSUME ScNeverTimesOut
  PROVE  Spec => []WakeupSound
<1>1. Init => MapInv  BY InitMap
<1>2. MapInv /\ [Next]_vars => MapInv'  BY NextMap, NextIsAny
<1>3. MapInv => WakeupSound  BY MapInvWakeupSound
<1>4. QED  BY <1>1, <1>2, <1>3, PTL DEF Spec

\* No wakeup is lost between rename's lookup and the issue queue: what still waits for
\* an operand waits for an older uop that has not executed, or has faulted and will trap
\* (RenameTable.sv lookup with the results of the cycle, IssueQueue.sv), for every size
\* of the machine.
THEOREM WakeupCompleteCorrect ==
  ASSUME ScNeverTimesOut
  PROVE  Spec => []WakeupComplete
<1>1. Init => MapInv  BY InitMap
<1>2. MapInv /\ [Next]_vars => MapInv'  BY NextMap, NextIsAny
<1>3. MapInv => WakeupComplete  BY MapInvWakeupComplete
<1>4. QED  BY <1>1, <1>2, <1>3, PTL DEF Spec

-----------------------------------------------------------------------------
(* Numbers of loads and stores. *)

\* How many of the places below p are in T.
CountBelow(T, p) == Cardinality({q \in 0 .. p - 1 : q \in T})

\* What the uops in flight are to the load and store queues, and the numbers they have.
MemUops ==
  [q \in Nat |->
     IF q < Pos(lastIndex)
     THEN [st |-> entries[Slot(q)].isSt, ld |-> entries[Slot(q)].isLd,
           stSqN |-> backend[Slot(q)].storeSqN, ldSqN |-> backend[Slot(q)].loadSqN]
     ELSE [st |-> IsSt(rnUOp[RnPort(q)].fu), ld |-> IsLd(rnUOp[RnPort(q)].fu),
           stSqN |-> rnUOp[RnPort(q)].storeSqN, ldSqN |-> rnUOp[RnPort(q)].loadSqN]]
Stores == {q \in Nat : MemUops[q].st}
Loads  == {q \in Nat : MemUops[q].ld}

\* The numbers of the last store and the next load after the first p uops in flight,
\* counted from those of the ROB.
StoreSqNAfter(p) == Plus(storeSqN_r, CountBelow(Stores, p))
LoadSqNAfter(p)  == Plus(loadSqN_r, CountBelow(Loads, p))

\* Every uop in flight has the numbers of its place; rename will give those behind the
\* last one; and a redirect restores those behind the last uop it keeps.  After a trap
\* these are the ones that the ROB has recovered.
UopNumbers ==
  ~trapUOp.valid /\ ~branch.flush =>
    \A q \in 0 .. InFlight - 1 : /\ MemUops[q].stSqN = StoreSqNAfter(q + 1)
                                 /\ MemUops[q].ldSqN = LoadSqNAfter(q)
NextNumbers ==
  ~trapUOp.valid /\ ~branch.taken =>
    counterStoreSqN = StoreSqNAfter(InFlight) /\ counterLoadSqN = LoadSqNAfter(InFlight)
RedirectNumbers ==
  ~trapUOp.valid /\ branch.taken =>
    /\ branch.storeSqN = StoreSqNAfter(Pos(branch.sqN) + 1)
    /\ branch.loadSqN = LoadSqNAfter(Pos(branch.sqN) + 1)
TrapNumbers ==
  trapUOp.valid => TrapBranch.storeSqN = storeSqN_r /\ TrapBranch.loadSqN = loadSqN_r

\* The ways to complete that leave the numbers of loads and stores in step: what traps
\* takes no number unless it is a store that faults, which TrapHandler.sv takes into
\* account, and a load never flushes.
KeepsNumbers(fl, st, ld) ==
  /\ st => fl \notin Exception \ {"ST_FAULT"}
  /\ ~st => fl # "ST_FAULT"
  /\ ld => fl # "ORDERING"
\* ROB, back end and rename agree on what is a load or store.
KindsAgree ==
  /\ \A s \in SqNs : InROB(s) =>
       LET k == RobIdx(s)
       IN  /\ entries[k].isSt = IsSt(backend[k].fu) /\ entries[k].isLd = IsLd(backend[k].fu)
           /\ KeepsNumbers(flags[k], entries[k].isSt, entries[k].isLd)
           /\ AllowTimeout => ~entries[k].isSt
  /\ AllowTimeout => \A i \in Port : rnUOp[i].valid => ~IsSt(rnUOp[i].fu)

-----------------------------------------------------------------------------
(* Counting. *)

LEMMA CountType ==
  ASSUME NEW T, NEW p \in Nat
  PROVE  CountBelow(T, p) \in Nat /\ CountBelow(T, p) <= p
<1> DEFINE S == {q \in 0 .. p - 1 : q \in T}
<1>1. IsFiniteSet(0 .. p - 1) /\ Cardinality(0 .. p - 1) = p
  <2>1. 0 \in Int /\ p - 1 \in Int /\ (0 > p - 1 => p = 0) /\ p - 1 - 0 + 1 = p  BY SMT
  <2> QED  BY <2>1, FS_Interval
<1>2. S \in SUBSET (0 .. p - 1)  OBVIOUS
<1>3. IsFiniteSet(S) /\ Cardinality(S) <= p  BY <1>1, <1>2, FS_Subset
<1>4. Cardinality(S) \in Nat  BY <1>3, FS_CardinalityType
<1>5. QED  BY <1>3, <1>4 DEF CountBelow

LEMMA CountNext ==
  ASSUME NEW T, NEW p \in Nat
  PROVE  CountBelow(T, p + 1) = CountBelow(T, p) + (IF p \in T THEN 1 ELSE 0)
<1> DEFINE S == {q \in 0 .. p - 1 : q \in T}
           next == {q \in 0 .. p + 1 - 1 : q \in T}
<1>1. IsFiniteSet(S)
  <2>1. 0 \in Int /\ p - 1 \in Int  BY SMT
  <2>2. IsFiniteSet(0 .. p - 1)  BY <2>1, FS_Interval
  <2>3. S \in SUBSET (0 .. p - 1)  OBVIOUS
  <2> QED  BY <2>2, <2>3, FS_Subset
<1>2. Cardinality(S) \in Nat  BY <1>1, FS_CardinalityType
<1>3. p \notin S  BY SMT
<1>4. CASE p \in T
  <2>1. next = S \cup {p}  BY <1>4, SMT
  <2>2. Cardinality(S \cup {p}) = Cardinality(S) + 1
    <3> HIDE DEF S
    <3> QED  BY <1>1, <1>3, FS_AddElement
  <2> QED  BY <1>4, <2>1, <2>2 DEF CountBelow
<1>5. CASE p \notin T
  <2>1. next = S  BY <1>5, SMT
  <2>2. \A x \in Nat : x + 0 = x  BY SMT
  <2>3. Cardinality(next) = Cardinality(S) + 0  BY <1>2, <2>1, <2>2
  <2> QED  BY <1>5, <2>3 DEF CountBelow
<1>6. QED  BY <1>4, <1>5

LEMMA CountNone ==
  ASSUME NEW T
  PROVE  CountBelow(T, 0) = 0
<1>1. 0 \in Nat  BY SMT
<1>2. CountBelow(T, 0) \in Nat /\ CountBelow(T, 0) <= 0  BY <1>1, CountType
<1>3. QED  BY <1>2, SMT

\* If U is T without its first n places, they count in sequence.
LEMMA CountShift ==
  ASSUME NEW T, NEW U, NEW n \in Nat, NEW p \in Nat,
         \A q \in 0 .. p - 1 : q \in U <=> q + n \in T
  PROVE  CountBelow(T, p + n) = CountBelow(T, n) + CountBelow(U, p)
<1> DEFINE Holds(x) == CountBelow(T, x + n) = CountBelow(T, n) + CountBelow(U, x)
           Bad == {x \in 0 .. p : ~Holds(x)}
<1>1. Bad \subseteq Nat  BY SMT
<1>2. ASSUME Bad # {}  PROVE FALSE
  <2>1. PICK x \in Bad : \A y \in Bad : x <= y
    <3> HIDE DEF Bad
    <3> QED  BY <1>1, <1>2, LeastNat
  <2>2. x # 0
    <3> SUFFICES ASSUME x = 0  PROVE Holds(x)
      BY <2>1
    <3>1. 0 + n = n  BY SMT
    <3>2. CountBelow(T, n) \in Nat /\ CountBelow(U, 0) = 0  BY CountType, CountNone
    <3>3. CountBelow(T, n) + 0 = CountBelow(T, n)  BY <3>2, SMT
    <3> QED  BY <3>1, <3>2, <3>3
  <2>3. x \in 0 .. p  BY <2>1
  <2> HIDE DEF Holds
  <2>4. PICK y \in Nat : x = y + 1 /\ y \in 0 .. p /\ y \in 0 .. p - 1 /\ ~(x <= y)
    <3>1. x - 1 \in Nat /\ x = x - 1 + 1 /\ x - 1 \in 0 .. p /\ x - 1 \in 0 .. p - 1 /\ ~(x <= x - 1)
      BY <2>2, <2>3, SMT
    <3> QED  BY <3>1
  <2>5. Holds(y)  BY <2>1, <2>4
  <2>6. y + n \in Nat /\ x + n = y + n + 1  BY <2>4, SMT
  <2>7. CountBelow(T, y + n + 1) = CountBelow(T, y + n) + (IF y + n \in T THEN 1 ELSE 0)
    BY <2>6, CountNext
  <2>8. CountBelow(U, y + 1) = CountBelow(U, y) + (IF y \in U THEN 1 ELSE 0)
    BY <2>4, CountNext
  <2>9. CountBelow(T, n) \in Nat /\ CountBelow(U, y) \in Nat  BY <2>4, CountType
  <2>10. y \in U <=> y + n \in T  BY <2>4
  <2>11. Holds(x)
    <3>1. CountBelow(T, y + n) = CountBelow(T, n) + CountBelow(U, y)  BY <2>5 DEF Holds
    <3>2. CountBelow(T, x + n) = CountBelow(T, n) + CountBelow(U, x)
      BY <2>4, <2>6, <2>7, <2>8, <2>9, <2>10, <3>1, SMT
    <3> QED  BY <3>2 DEF Holds
  <2> QED  BY <2>1, <2>11
<1>3. QED
  <2>1. p \in 0 .. p  BY SMT
  <2> QED  BY <1>2, <2>1

-----------------------------------------------------------------------------
(* What a cycle does to the loads and stores in flight. *)

LEMMA LsqType ==
  ASSUME WindowInv
  PROVE  /\ storeSqN_r \in SqNs /\ loadSqN_r \in SqNs
         /\ counterStoreSqN \in SqNs /\ counterLoadSqN \in SqNs
  BY DEF WindowInv, TypeOK, ROBTypeOK, RNTypeOK

\* What the uops in the buffer are, and their numbers, do not change.
LEMMA MemUopsMove ==
  ASSUME WindowInv, WindowInv', RedirectCovers, NEW F, NEW n, CycleOf(F, n),
         NEW q \in Nat, q < Pos(lastIndex)'
  PROVE  /\ MemUops'[q].st = MemUops[q + n].st /\ MemUops'[q].ld = MemUops[q + n].ld
         /\ MemUops'[q].stSqN = MemUops[q + n].stSqN
         /\ MemUops'[q].ldSqN = MemUops[q + n].ldSqN
<1> USE DEF CycleOf
<1> DEFINE k == Slot(q + n)
<1>1. q + n \in Nat /\ q + n < InFlight /\ Slot(q)' = k  BY SlotMoves
<1>2. /\ MemUops'[q].st = entries'[k].isSt /\ MemUops'[q].ld = entries'[k].isLd
      /\ MemUops'[q].stSqN = backend'[k].storeSqN /\ MemUops'[q].ldSqN = backend'[k].loadSqN
  BY <1>1 DEF MemUops
<1>3. CASE q + n < Pos(lastIndex)
  <2> DEFINE s == Plus(baseIndex, q + n)
  <2>1. s \in SqNs /\ InROB(s) /\ RobIdx(s) = k
    BY <1>1, <1>3, SlotAt DEF Slot
  <2>2. /\ MemUops[q + n].st = entries[k].isSt /\ MemUops[q + n].ld = entries[k].isLd
        /\ MemUops[q + n].stSqN = backend[k].storeSqN
        /\ MemUops[q + n].ldSqN = backend[k].loadSqN
    BY <1>1, <1>3 DEF MemUops
  <2> HIDE DEF k, s
  <2>3. /\ entries'[k] = entries[k] /\ backend'[k].loadSqN = backend[k].loadSqN
        /\ backend'[k].storeSqN = backend[k].storeSqN
    BY <2>1, SlotKept
  <2> QED  BY <1>2, <2>2, <2>3
<1>4. CASE ~(q + n < Pos(lastIndex))
  <2> DEFINE i == RnPort(q + n)
  <2>1. ~branch.taken /\ q + n < Pos(counterSqN)
    <3>1. branch.taken => InFlight = Pos(lastIndex)  BY DEF InFlight
    <3>2. ~branch.taken  BY <1>1, <1>4, <3>1
    <3> QED  BY <1>1, <3>2 DEF InFlight
  <2>2. i \in Port /\ rnUOp[i].valid /\ RobIdx(rnUOp[i].sqN) = k
    BY <1>1, <1>4, <2>1, PortAt DEF Slot
  <2>3. /\ MemUops[q + n].st = IsSt(rnUOp[i].fu) /\ MemUops[q + n].ld = IsLd(rnUOp[i].fu)
        /\ MemUops[q + n].stSqN = rnUOp[i].storeSqN
        /\ MemUops[q + n].ldSqN = rnUOp[i].loadSqN
    BY <1>1, <1>4 DEF MemUops
  <2> HIDE DEF k, i
  <2>4. entries'[k] = EntryOf(rnUOp[i]) /\ backend'[k] = Entered(rnUOp[i], WrittenBack(F))
    BY <2>1, <2>2, SlotEntered
  <2>5. /\ entries'[k].isSt = IsSt(rnUOp[i].fu) /\ entries'[k].isLd = IsLd(rnUOp[i].fu)
        /\ backend'[k].storeSqN = rnUOp[i].storeSqN /\ backend'[k].loadSqN = rnUOp[i].loadSqN
    BY <2>4 DEF EntryOf, Entered
  <2> QED  BY <1>2, <2>3, <2>5
<1>5. QED  BY <1>3, <1>4

\* So the loads and stores that stay are counted behind those that leave.
LEMMA CountsMove ==
  ASSUME WindowInv, WindowInv', RedirectCovers, NEW F, NEW n, CycleOf(F, n),
         NEW p \in Nat, p <= Pos(lastIndex)'
  PROVE  /\ n \in Nat
         /\ CountBelow(Stores, p + n) = CountBelow(Stores, n) + CountBelow(Stores', p)
         /\ CountBelow(Loads, p + n) = CountBelow(Loads, n) + CountBelow(Loads', p)
<1>1. n \in Nat /\ Pos(lastIndex)' \in Nat  BY FlightAfter
<1>2. ASSUME NEW q \in 0 .. p - 1
      PROVE  /\ q \in Stores' <=> q + n \in Stores
             /\ q \in Loads' <=> q + n \in Loads
  <2>1. q \in Nat /\ q < Pos(lastIndex)' /\ q + n \in Nat  BY <1>1, SMT
  <2>2. MemUops'[q].st = MemUops[q + n].st /\ MemUops'[q].ld = MemUops[q + n].ld
    BY <2>1, MemUopsMove
  <2> QED  BY <2>1, <2>2 DEF Stores, Loads
<1>3. CountBelow(Stores, p + n) = CountBelow(Stores, n) + CountBelow(Stores', p)
  BY <1>1, <1>2, CountShift
<1>4. CountBelow(Loads, p + n) = CountBelow(Loads, n) + CountBelow(Loads', p)
  BY <1>1, <1>2, CountShift
<1>5. QED  BY <1>1, <1>3, <1>4

\* The numbers that the ROB looks up for its ports are those of the places.
LEMMA PortNumbers ==
  ASSUME WindowInv, NEW p \in 0 .. Width, p <= Pos(lastIndex)
  PROVE  StoreSqNAt(p) = StoreSqNAfter(p) /\ LoadSqNAt(p) = LoadSqNAfter(p)
<1>1. ASSUME NEW j  PROVE j \in Port /\ j < p <=> j \in 0 .. p - 1
  BY WidthType, SMT DEF Port
<1>2. ASSUME NEW j \in 0 .. p - 1
      PROVE  /\ entries[Deq(j)].isSt <=> j \in Stores
             /\ entries[Deq(j)].isLd <=> j \in Loads
  <2>1. j \in Nat /\ j < Pos(lastIndex)  BY WidthType, FlightType, SMT
  <2> QED  BY <2>1 DEF Stores, Loads, MemUops, Slot, Deq
<1>3. {j \in Port : j < p /\ entries[Deq(j)].isSt} = {j \in 0 .. p - 1 : j \in Stores}
  BY <1>1, <1>2
<1>4. {j \in Port : j < p /\ entries[Deq(j)].isLd} = {j \in 0 .. p - 1 : j \in Loads}
  BY <1>1, <1>2
<1>5. QED
  BY <1>3, <1>4 DEF StoreSqNAt, LoadSqNAt, StoreSqNAfter, LoadSqNAfter, CountBelow

LEMMA PlusZero ==
  ASSUME NEW a \in SqNs
  PROVE  Plus(a, 0) = a
  BY RingType, SMT DEF Plus, SqNs

\* Either the ROB commits the n uops, or it keeps its numbers.
LEMMA CommitParts ==
  ASSUME WindowInv, NEW F, NEW n, CycleOf(F, n)
  PROVE  \/ /\ n = 0 /\ storeSqN_r' = storeSqN_r /\ loadSqN_r' = loadSqN_r
            /\ ~trapUOp'.valid
         \/ \E hang \in {FALSE, AllowTimeout} : Commits(n, hang) /\ CommitStep(n, hang)
<1>1. n \in 0 .. Width /\ baseIndex' = Plus(baseIndex, n)  BY DEF CycleOf, RobMoves, Advances
<1>2. baseIndex \in SqNs /\ 0 \in 0 .. Width  BY SqNState, WidthType, SMT DEF WindowInv
<1>3. CASE RedirectCycle(F) \/ ReplayCycle(F)
  <2>1. /\ baseIndex' = baseIndex /\ storeSqN_r' = storeSqN_r /\ loadSqN_r' = loadSqN_r
        /\ trapUOp' = NoTrapUOp
    BY <1>3 DEF RedirectCycle, ReplayCycle, ROBReplay, ReplayStep
  <2>2. Plus(baseIndex, n) = Plus(baseIndex, 0)  BY <1>1, <1>2, <2>1, PlusZero
  <2>3. n = 0  BY <1>1, <1>2, <2>2, PlusInjective
  <2> QED  BY <2>1, <2>3 DEF NoTrapUOp
<1>4. CASE TrapCycle(F)
  <2>1. CommitStep(0, FALSE)  BY <1>4 DEF TrapCycle, ROBStop
  <2>2. /\ baseIndex' = Plus(baseIndex, 0) /\ trapUOp' = NoTrapUOp
        /\ storeSqN_r' = StoreSqNAt(0) /\ loadSqN_r' = LoadSqNAt(0)
    <3>1. ~(0 > 0)  BY SMT
    <3> QED  BY <2>1, <3>1 DEF CommitStep
  <2>3. n = 0  BY <1>1, <1>2, <2>2, PlusInjective
  <2>4. 0 <= Pos(lastIndex)  BY DEF WindowInv
  <2>5. StoreSqNAt(0) = StoreSqNAfter(0) /\ LoadSqNAt(0) = LoadSqNAfter(0)
    BY <1>2, <2>4, PortNumbers
  <2>6. StoreSqNAfter(0) = storeSqN_r /\ LoadSqNAfter(0) = loadSqN_r
    BY CountNone, PlusZero, LsqType DEF StoreSqNAfter, LoadSqNAfter
  <2> QED  BY <2>2, <2>3, <2>5, <2>6 DEF NoTrapUOp
<1>5. CASE CommitCycle(F)
  <2>1. PICK m \in 0 .. Width, hang \in {FALSE, AllowTimeout} :
          Commits(m, hang) /\ CommitStep(m, hang)
    BY <1>5 DEF CommitCycle, ROBCommit
  <2>2. baseIndex' = Plus(baseIndex, m)  BY <2>1 DEF CommitStep
  <2>3. m = n  BY <1>1, <1>2, <2>2, PlusInjective
  <2> QED  BY <2>1, <2>3
<1>6. QED  BY <1>3, <1>4, <1>5 DEF CycleOf

\* Unless it traps, the ROB recovers the numbers of what it commits.
LEMMA RobNumbers ==
  ASSUME WindowInv, NEW F, NEW n, CycleOf(F, n), ~trapUOp'.valid
  PROVE  storeSqN_r' = StoreSqNAfter(n) /\ loadSqN_r' = LoadSqNAfter(n)
<1>1. n \in 0 .. Width /\ n <= Pos(lastIndex)  BY DEF CycleOf, RobMoves, Advances
<1>2. StoreSqNAt(n) = StoreSqNAfter(n) /\ LoadSqNAt(n) = LoadSqNAfter(n)  BY <1>1, PortNumbers
<1>3. CASE n = 0 /\ storeSqN_r' = storeSqN_r /\ loadSqN_r' = loadSqN_r
  BY <1>3, CountNone, PlusZero, LsqType DEF StoreSqNAfter, LoadSqNAfter
<1>4. ASSUME NEW hang \in {FALSE, AllowTimeout}, Commits(n, hang), CommitStep(n, hang)
      PROVE  storeSqN_r' = StoreSqNAt(n) /\ loadSqN_r' = LoadSqNAt(n)
  <2>1. ~(n > 0 /\ SendsTrap(n - 1, hang))
    <3> SUFFICES ASSUME n > 0 /\ SendsTrap(n - 1, hang)  PROVE FALSE
      OBVIOUS
    <3>1. trapUOp' = TrapOf(n - 1, hang)  BY <1>4 DEF CommitStep
    <3> QED  BY <3>1 DEF TrapOf
  <2>2. ~(n > 0 /\ IsException(n - 1, hang))  BY <2>1 DEF IsException, SendsTrap
  <2> QED  BY <1>4, <2>2 DEF CommitStep
<1>5. QED  BY <1>2, <1>3, <1>4, CommitParts

\* So the number that belongs to a place does not change.
LEMMA NumbersMove ==
  ASSUME WindowInv, WindowInv', RedirectCovers, NEW F, NEW n, CycleOf(F, n),
         ~trapUOp'.valid, NEW p \in Nat, p <= Pos(lastIndex)'
  PROVE  StoreSqNAfter(p)' = StoreSqNAfter(p + n) /\ LoadSqNAfter(p)' = LoadSqNAfter(p + n)
<1>1. storeSqN_r' = StoreSqNAfter(n) /\ loadSqN_r' = LoadSqNAfter(n)  BY RobNumbers
<1>2. /\ n \in Nat
      /\ CountBelow(Stores, p + n) = CountBelow(Stores, n) + CountBelow(Stores', p)
      /\ CountBelow(Loads, p + n) = CountBelow(Loads, n) + CountBelow(Loads', p)
  BY CountsMove
<1>3. p + n \in Nat /\ p + n < ROBSize  BY FlightAfter, FlightType, RingType, SMT
<1>4. /\ CountBelow(Stores', p) \in Nat /\ CountBelow(Loads', p) \in Nat
      /\ CountBelow(Stores, n) \in Nat /\ CountBelow(Loads, n) \in Nat
      /\ CountBelow(Stores, p + n) < ROBSize /\ CountBelow(Loads, p + n) < ROBSize
  <2>1. CountBelow(Stores, p + n) <= p + n /\ CountBelow(Loads, p + n) <= p + n
        /\ CountBelow(Stores, p + n) \in Nat /\ CountBelow(Loads, p + n) \in Nat
    BY <1>3, CountType
  <2>2. CountBelow(Stores, p + n) < ROBSize /\ CountBelow(Loads, p + n) < ROBSize
    BY <1>3, <2>1, RingType, SMT
  <2> QED  BY <1>2, <2>2, CountType
<1>5. /\ CountBelow(Stores, n) + CountBelow(Stores', p)
           = CountBelow(Stores', p) + CountBelow(Stores, n)
      /\ CountBelow(Loads, n) + CountBelow(Loads', p)
           = CountBelow(Loads', p) + CountBelow(Loads, n)
  BY <1>4, SMT
<1>6. Plus(Plus(storeSqN_r, CountBelow(Stores, n)), CountBelow(Stores', p))
        = Plus(storeSqN_r, CountBelow(Stores, p + n))
  BY <1>2, <1>4, <1>5, PlusPlus, LsqType
<1>7. Plus(Plus(loadSqN_r, CountBelow(Loads, n)), CountBelow(Loads', p))
        = Plus(loadSqN_r, CountBelow(Loads, p + n))
  BY <1>2, <1>4, <1>5, PlusPlus, LsqType
<1>8. /\ StoreSqNAfter(p)' = Plus(storeSqN_r', CountBelow(Stores', p))
      /\ LoadSqNAfter(p)' = Plus(loadSqN_r', CountBelow(Loads', p))
  BY DEF StoreSqNAfter, LoadSqNAfter, CountBelow
<1>9. QED  BY <1>1, <1>6, <1>7, <1>8 DEF StoreSqNAfter, LoadSqNAfter

-----------------------------------------------------------------------------
(* The numbers that rename gives. *)

\* The stores and loads on the ports of rename.
PortStores == {i \in Port : IsSt(rnUOp[i].fu)}
PortLoads  == {i \in Port : IsLd(rnUOp[i].fu)}

\* Rename takes m uops.
NumbersAs(m) ==
  /\ m \in 0 .. Width
  /\ \A i \in Port : rnUOp'[i].valid <=> i < m
  /\ \A i \in Port : i < m =>
       /\ rnUOp'[i].storeSqN = Plus(counterStoreSqN, CountBelow(PortStores', i + 1))
       /\ rnUOp'[i].loadSqN = Plus(counterLoadSqN, CountBelow(PortLoads', i))
  /\ counterStoreSqN' = Plus(counterStoreSqN, CountBelow(PortStores', m))
  /\ counterLoadSqN' = Plus(counterLoadSqN, CountBelow(PortLoads', m))

LEMMA CountSame ==
  ASSUME NEW S, NEW T, NEW p, NEW m, \A q : q \in 0 .. p - 1 /\ q \in S <=> q \in 0 .. m - 1 /\ q \in T
  PROVE  CountBelow(S, p) = CountBelow(T, m)
<1>1. {q \in 0 .. p - 1 : q \in S} = {q \in 0 .. m - 1 : q \in T}  OBVIOUS
<1>2. QED  BY <1>1 DEF CountBelow

\* A failed store-conditional counts as the load of an immediate, that is, not at all.
LEMMA AcceptedNumbers ==
  ASSUME TypeOK, NEW uop \in DecodedUOps(DUOps), NEW F, RNAccept(mispredFlush, uop, comUOp, F)
  PROVE  \E m \in 0 .. Width : NumbersAs(m)
<1> DEFINE m == Cardinality({i \in Port : Decoded(uop, i)})
<1>1. m \in 0 .. Width /\ \A i \in Port : Decoded(uop, i) <=> i < m  BY DecodedPrefix
<1> HIDE DEF m
<1>2. \A i \in Port : rnUOp'[i] = IF Decoded(uop, i) THEN Renamed(uop, i, WrittenBack(F))
                                  ELSE NoRUOp
  BY DEF RNAccept
<1>3. ASSUME NEW i \in Port
      PROVE  /\ i \in PortStores' <=> IsSt(uop[i].fu) /\ ~ScFails(uop, i)
             /\ i \in PortLoads' <=> IsLd(uop[i].fu)
             /\ rnUOp'[i].valid <=> i < m
             /\ ~(i < m) => i \notin PortStores' /\ i \notin PortLoads'
  <2>1. CASE Decoded(uop, i)
    <3>1. rnUOp'[i] = Renamed(uop, i, WrittenBack(F))  BY <1>2, <2>1
    <3>2. rnUOp'[i].valid /\ rnUOp'[i].fu = IF ScFails(uop, i) THEN "RN" ELSE uop[i].fu
      BY <3>1 DEF Renamed
    <3>3. /\ IsSt(rnUOp'[i].fu) <=> IsSt(uop[i].fu) /\ ~ScFails(uop, i)
          /\ IsLd(rnUOp'[i].fu) <=> IsLd(uop[i].fu)
      BY <3>2 DEF IsSt, IsLd, ScFails
    <3> QED  BY <1>1, <2>1, <3>2, <3>3 DEF PortStores, PortLoads
  <2>2. CASE ~Decoded(uop, i)
    <3>1. rnUOp'[i].fu = "RN" /\ ~rnUOp'[i].valid  BY <1>2, <2>2 DEF NoRUOp
    <3>2. uop[i].fu = "NONE"  BY <2>2 DEF Decoded, NoDUOp
    <3> QED  BY <1>1, <2>2, <3>1, <3>2 DEF PortStores, PortLoads, IsSt, IsLd
  <2> QED  BY <2>1, <2>2
<1>4. ASSUME NEW p \in 0 .. Width
      PROVE  /\ Cardinality(StoresBelow(uop, p)) = CountBelow(PortStores', p)
             /\ Cardinality(LoadsBelow(uop, p)) = CountBelow(PortLoads', p)
  <2>1. ASSUME NEW j  PROVE j \in Port /\ j < p <=> j \in 0 .. p - 1
    BY WidthType, SMT DEF Port
  <2>2. StoresBelow(uop, p) = {j \in 0 .. p - 1 : j \in PortStores'}
    BY <1>3, <2>1 DEF StoresBelow
  <2>3. LoadsBelow(uop, p) = {j \in 0 .. p - 1 : j \in PortLoads'}
    BY <1>3, <2>1 DEF LoadsBelow
  <2> QED  BY <2>2, <2>3 DEF CountBelow
<1>5. ASSUME NEW i \in Port, i < m
      PROVE  /\ rnUOp'[i].storeSqN = Plus(counterStoreSqN, CountBelow(PortStores', i + 1))
             /\ rnUOp'[i].loadSqN = Plus(counterLoadSqN, CountBelow(PortLoads', i))
  <2>1. rnUOp'[i] = Renamed(uop, i, WrittenBack(F))  BY <1>1, <1>2, <1>5
  <2>2. rnUOp'[i].storeSqN = StoreSqNs(uop, i + 1) /\ rnUOp'[i].loadSqN = LoadSqNs(uop, i)
    BY <2>1 DEF Renamed
  <2>3. i + 1 \in 0 .. Width /\ i \in 0 .. Width  BY WidthType, SMT DEF Port
  <2>4. /\ Cardinality(StoresBelow(uop, i + 1)) = CountBelow(PortStores', i + 1)
        /\ Cardinality(LoadsBelow(uop, i)) = CountBelow(PortLoads', i)
    BY <1>4, <2>3
  <2> QED  BY <2>2, <2>4 DEF StoreSqNs, LoadSqNs
<1>6. /\ CountBelow(PortStores', Width) = CountBelow(PortStores', m)
      /\ CountBelow(PortLoads', Width) = CountBelow(PortLoads', m)
  <2>1. ASSUME NEW j  PROVE /\ j \in 0 .. Width - 1 <=> j \in Port
                            /\ j \in 0 .. m - 1 <=> j \in Port /\ j < m
    BY <1>1, WidthType, SMT DEF Port
  <2>2. \A j : j \in 0 .. Width - 1 /\ j \in PortStores' <=> j \in 0 .. m - 1 /\ j \in PortStores'
    BY <1>3, <2>1
  <2>3. \A j : j \in 0 .. Width - 1 /\ j \in PortLoads' <=> j \in 0 .. m - 1 /\ j \in PortLoads'
    BY <1>3, <2>1
  <2> QED  BY <2>2, <2>3, CountSame
<1>7. /\ counterStoreSqN' = Plus(counterStoreSqN, CountBelow(PortStores', m))
      /\ counterLoadSqN' = Plus(counterLoadSqN, CountBelow(PortLoads', m))
  <2>1. Width \in 0 .. Width  BY WidthType, SMT
  <2>2. counterStoreSqN' = StoreSqNs(uop, Width) /\ counterLoadSqN' = LoadSqNs(uop, Width)
    BY DEF RNAccept
  <2>3. /\ Cardinality(StoresBelow(uop, Width)) = CountBelow(PortStores', Width)
        /\ Cardinality(LoadsBelow(uop, Width)) = CountBelow(PortLoads', Width)
    BY <1>4, <2>1
  <2> QED  BY <1>6, <2>2, <2>3 DEF StoreSqNs, LoadSqNs
<1>8. NumbersAs(m)  BY <1>1, <1>3, <1>5, <1>7 DEF NumbersAs
<1>9. QED  BY <1>1, <1>8

LEMMA IdleNumbers ==
  ASSUME WindowInv, NEW F, RNIdle(mispredFlush, comUOp, F)
  PROVE  NumbersAs(0)
<1>1. \A i \in Port : ~(i < 0)  BY WidthType, SMT DEF Port
<1>2. 0 \in 0 .. Width  BY WidthType, SMT
<1>3. \A i \in Port : ~rnUOp'[i].valid  BY DEF RNIdle, NoRUOp
<1>4. counterStoreSqN' = counterStoreSqN /\ counterLoadSqN' = counterLoadSqN  BY DEF RNIdle
<1>5. Plus(counterStoreSqN, 0) = counterStoreSqN /\ Plus(counterLoadSqN, 0) = counterLoadSqN
  BY PlusZero, LsqType
<1>6. CountBelow(PortStores', 0) = 0 /\ CountBelow(PortLoads', 0) = 0  BY CountNone
<1>7. QED  BY <1>1, <1>2, <1>3, <1>4, <1>5, <1>6 DEF NumbersAs

LEMMA CycleNumbers ==
  ASSUME WindowInv, NEW F, NEW n, CycleOf(F, n), ~branch.taken
  PROVE  \E m : NumbersAs(m)
<1>1. CASE \E uop \in DecodedUOps(DUOps) : RNAccept(mispredFlush, uop, comUOp, F)
  BY <1>1, AcceptedNumbers DEF WindowInv
<1>2. CASE RNIdle(mispredFlush, comUOp, F)
  BY <1>2, IdleNumbers
<1>3. QED
  BY <1>1, <1>2 DEF CycleOf, RedirectCycle, ReplayCycle, TrapCycle, CommitCycle, RenameStep

\* What is in flight after a cycle: the buffer, and the m uops that were renamed.
LEMMA FlightGrows ==
  ASSUME WindowInv, WindowInv', NEW F, NEW n, CycleOf(F, n), NEW m, NumbersAs(m), ~branch'.taken
  PROVE  InFlight' = Pos(lastIndex)' + m
<1>1. PICK l \in 0 .. Width :
        /\ \A j \in Port : rnUOp'[j].valid <=> j < l
        /\ Pos(counterSqN)' = Pos(lastIndex)' + l
  BY DEF WindowInv, RenamedInOrder
<1>2. \A j \in Port : j < l <=> j < m  BY <1>1 DEF NumbersAs
<1>3. m \in 0 .. Width  BY DEF NumbersAs
<1>4. l = m  BY <1>2, <1>3, WidthType, SMT DEF Port
<1>5. QED  BY <1>1, <1>4 DEF InFlight

\* The loads and stores behind the buffer are those on the ports.
CountsBehind ==
  \A x \in 0 .. Width :
    /\ CountBelow(Stores, x + Pos(lastIndex))
         = CountBelow(Stores, Pos(lastIndex)) + CountBelow(PortStores, x)
    /\ CountBelow(Loads, x + Pos(lastIndex))
         = CountBelow(Loads, Pos(lastIndex)) + CountBelow(PortLoads, x)

LEMMA CountsGrow == WindowInv => CountsBehind
<1> SUFFICES ASSUME WindowInv, NEW p \in 0 .. Width
             PROVE  /\ CountBelow(Stores, p + Pos(lastIndex))
                         = CountBelow(Stores, Pos(lastIndex)) + CountBelow(PortStores, p)
                    /\ CountBelow(Loads, p + Pos(lastIndex))
                         = CountBelow(Loads, Pos(lastIndex)) + CountBelow(PortLoads, p)
  BY DEF CountsBehind
<1>1. Pos(lastIndex) \in Nat /\ p \in Nat  BY FlightType, WidthType, SMT
<1>2. ASSUME NEW q \in 0 .. p - 1
      PROVE  /\ q \in PortStores <=> q + Pos(lastIndex) \in Stores
             /\ q \in PortLoads <=> q + Pos(lastIndex) \in Loads
  <2> DEFINE x == q + Pos(lastIndex)
  <2>1. x \in Nat /\ ~(x < Pos(lastIndex)) /\ x - Pos(lastIndex) = q /\ q \in Port
    BY <1>1, WidthType, SMT DEF Port
  <2> HIDE DEF x
  <2>2. MemUops[x].st = IsSt(rnUOp[q].fu) /\ MemUops[x].ld = IsLd(rnUOp[q].fu)
    BY <2>1 DEF MemUops, RnPort
  <2>3. /\ q \in PortStores <=> x \in Stores
        /\ q \in PortLoads <=> x \in Loads
    BY <2>1, <2>2 DEF PortStores, PortLoads, Stores, Loads
  <2> QED  BY <2>3 DEF x
<1>3. QED  BY <1>1, <1>2, CountShift

LEMMA NumbersGrow ==
  ASSUME WindowInv', NEW l \in Nat, l = Pos(lastIndex)', NEW p \in 0 .. Width, p + l < ROBSize
  PROVE  /\ Plus(StoreSqNAfter(l)', CountBelow(PortStores', p)) = StoreSqNAfter(p + l)'
         /\ Plus(LoadSqNAfter(l)', CountBelow(PortLoads', p)) = LoadSqNAfter(p + l)'
<1>1. CountsBehind'  BY CountsGrow, PTL
<1>2. /\ CountBelow(Stores', p + l) = CountBelow(Stores', l) + CountBelow(PortStores', p)
      /\ CountBelow(Loads', p + l) = CountBelow(Loads', l) + CountBelow(PortLoads', p)
  BY <1>1 DEF CountsBehind, CountBelow
<1>3. p \in Nat /\ p + l \in Nat  BY WidthType, SMT
<1>4. /\ CountBelow(Stores', l) \in Nat /\ CountBelow(PortStores', p) \in Nat
      /\ CountBelow(Loads', l) \in Nat /\ CountBelow(PortLoads', p) \in Nat
      /\ CountBelow(Stores', p + l) <= p + l /\ CountBelow(Stores', p + l) \in Nat
      /\ CountBelow(Loads', p + l) <= p + l /\ CountBelow(Loads', p + l) \in Nat
  BY <1>3, CountType
<1>5. /\ CountBelow(PortStores', p) + CountBelow(Stores', l) = CountBelow(Stores', p + l)
      /\ CountBelow(PortLoads', p) + CountBelow(Loads', l) = CountBelow(Loads', p + l)
      /\ CountBelow(PortStores', p) + CountBelow(Stores', l) < ROBSize
      /\ CountBelow(PortLoads', p) + CountBelow(Loads', l) < ROBSize
  BY <1>2, <1>3, <1>4, RingType, SMT
<1>6. storeSqN_r' \in SqNs /\ loadSqN_r' \in SqNs  BY DEF WindowInv, TypeOK, ROBTypeOK
<1>7. /\ Plus(Plus(storeSqN_r', CountBelow(Stores', l)), CountBelow(PortStores', p))
           = Plus(storeSqN_r', CountBelow(Stores', p + l))
      /\ Plus(Plus(loadSqN_r', CountBelow(Loads', l)), CountBelow(PortLoads', p))
           = Plus(loadSqN_r', CountBelow(Loads', p + l))
  BY <1>4, <1>5, <1>6, PlusPlus
<1>8. QED  BY <1>7 DEF StoreSqNAfter, LoadSqNAfter, CountBelow

\* Rename's counters give the next numbers, as long as it and the ROB see the same uops.
LEMMA CountersMove ==
  ASSUME WindowInv, WindowInv', RedirectCovers, NextNumbers, NEW F, NEW n, CycleOf(F, n),
         ~trapUOp.valid, ~trapUOp'.valid, ~branch.taken, NEW l \in Nat, l = Pos(lastIndex)'
  PROVE  counterStoreSqN = StoreSqNAfter(l)' /\ counterLoadSqN = LoadSqNAfter(l)'
<1>1. l + n = InFlight /\ l <= Pos(lastIndex)'  BY FlightAfter, SMT
<1>2. StoreSqNAfter(l)' = StoreSqNAfter(l + n) /\ LoadSqNAfter(l)' = LoadSqNAfter(l + n)
  BY <1>1, NumbersMove
<1>3. QED  BY <1>1, <1>2 DEF NextNumbers

\* The numbers of the uops in flight ...
LEMMA UopNumbersStep ==
  ASSUME WindowInv, WindowInv', RedirectCovers, FlushRedirects, UopNumbers, NextNumbers,
         NEW F, NEW n, CycleOf(F, n), ~trapUOp'.valid, ~branch'.flush,
         NEW q \in Nat, q < InFlight'
  PROVE  MemUops'[q].stSqN = StoreSqNAfter(q + 1)' /\ MemUops'[q].ldSqN = LoadSqNAfter(q)'
<1>1. ~trapUOp.valid  BY FlushStep DEF CycleOf
<1>2. ~branch.flush  BY FlushEmpties, SMT
<1>3. PICK l \in Nat : l = Pos(lastIndex)'  BY FlightAfter
<1>4. CASE q < l
  <2>1. q < Pos(lastIndex)' /\ q <= Pos(lastIndex)' /\ q + 1 \in Nat /\ q + 1 <= Pos(lastIndex)'
    BY <1>3, <1>4, SMT
  <2>2. /\ MemUops'[q].stSqN = MemUops[q + n].stSqN
        /\ MemUops'[q].ldSqN = MemUops[q + n].ldSqN
    BY <2>1, MemUopsMove
  <2>3. q + n \in 0 .. InFlight - 1 /\ n \in Nat
    <3>1. q + n \in Nat /\ q + n < InFlight  BY <2>1, SlotMoves
    <3>2. InFlight \in Nat  BY FlightType
    <3> QED  BY <3>1, <3>2, FlightAfter, SMT
  <2>4. /\ MemUops[q + n].stSqN = StoreSqNAfter(q + n + 1)
        /\ MemUops[q + n].ldSqN = LoadSqNAfter(q + n)
    BY <1>1, <1>2, <2>3 DEF UopNumbers
  <2>5. StoreSqNAfter(q + 1)' = StoreSqNAfter(q + 1 + n)  BY <2>1, NumbersMove
  <2>6. LoadSqNAfter(q)' = LoadSqNAfter(q + n)  BY <2>1, NumbersMove
  <2>7. q + 1 + n = q + n + 1  BY <2>3, SMT
  <2> QED  BY <2>2, <2>4, <2>5, <2>6, <2>7
<1>5. CASE ~(q < l)
  <2>1. InFlight' # l /\ ~branch.taken
    <3>1. InFlight' # l  BY <1>3, <1>5, FlightAfter, SMT
    <3> QED  BY <1>3, <3>1, FlightAfter
  <2>2. ~branch'.taken  BY <1>3, <2>1 DEF InFlight
  <2>3. PICK m : NumbersAs(m)  BY <2>1, CycleNumbers
  <2>4. InFlight' = l + m /\ m \in 0 .. Width  BY <1>3, <2>2, <2>3, FlightGrows DEF NumbersAs
  <2>5. PICK i \in Port : i = q - l  BY <1>3, <1>5, <2>4, WidthType, SMT DEF Port
  <2>6. /\ i < m /\ i \in 0 .. Width /\ i + 1 \in 0 .. Width
        /\ i + l = q /\ i + 1 + l = q + 1 /\ i + l < ROBSize /\ i + 1 + l < ROBSize
    BY <1>3, <2>4, <2>5, FlightAfter, WidthType, RingType, SMT DEF Port
  <2>7. MemUops'[q].stSqN = rnUOp'[i].storeSqN /\ MemUops'[q].ldSqN = rnUOp'[i].loadSqN
    BY <1>3, <1>5, <2>5 DEF MemUops, RnPort
  <2>8. /\ rnUOp'[i].storeSqN = Plus(counterStoreSqN, CountBelow(PortStores', i + 1))
        /\ rnUOp'[i].loadSqN = Plus(counterLoadSqN, CountBelow(PortLoads', i))
    BY <2>3, <2>6 DEF NumbersAs
  <2>9. counterStoreSqN = StoreSqNAfter(l)' /\ counterLoadSqN = LoadSqNAfter(l)'
    BY <1>1, <1>3, <2>1, CountersMove
  <2>10. Plus(StoreSqNAfter(l)', CountBelow(PortStores', i + 1)) = StoreSqNAfter(i + 1 + l)'
    BY <1>3, <2>6, NumbersGrow
  <2>11. Plus(LoadSqNAfter(l)', CountBelow(PortLoads', i)) = LoadSqNAfter(i + l)'
    BY <1>3, <2>6, NumbersGrow
  <2> QED  BY <2>6, <2>7, <2>8, <2>9, <2>10, <2>11
<1>6. QED  BY <1>4, <1>5

\* ... and the next ones to give.
LEMMA NextNumbersStep ==
  ASSUME WindowInv, WindowInv', RedirectCovers, FlushRedirects, NextNumbers, RedirectNumbers,
         NEW F, NEW n, CycleOf(F, n), ~trapUOp'.valid, ~branch'.taken,
         NEW p \in Nat, p = InFlight'
  PROVE  counterStoreSqN' = StoreSqNAfter(p)' /\ counterLoadSqN' = LoadSqNAfter(p)'
<1>1. ~trapUOp.valid
  <2>1. TypeOK'  BY DEF WindowInv
  <2>2. FlushRedirects' /\ (trapUOp.valid => branch'.flush)  BY FlushStep DEF CycleOf
  <2> QED  BY <2>2 DEF FlushRedirects
<1>2. PICK l \in Nat : l = Pos(lastIndex)'  BY FlightAfter
<1>3. CASE branch.taken
  <2>1. n = 0 /\ p = l /\ l = Pos(branch.sqN) + 1 /\ p <= Pos(lastIndex)'
    BY <1>2, <1>3, FlightAfter, SMT
  <2>2. counterStoreSqN' = branch.storeSqN /\ counterLoadSqN' = branch.loadSqN
    BY <1>3 DEF CycleOf, RedirectCycle, ReplayCycle, TrapCycle, CommitCycle, RNRedirect
  <2>3. StoreSqNAfter(p)' = StoreSqNAfter(p + n) /\ LoadSqNAfter(p)' = LoadSqNAfter(p + n)
    BY <2>1, NumbersMove
  <2>4. p + n = Pos(branch.sqN) + 1  BY <2>1, SMT
  <2> QED  BY <1>1, <1>3, <2>2, <2>3, <2>4 DEF RedirectNumbers
<1>4. CASE ~branch.taken
  <2>1. PICK m : NumbersAs(m)  BY <1>4, CycleNumbers
  <2>2. p = l + m /\ m \in 0 .. Width  BY <1>2, <2>1, FlightGrows DEF NumbersAs
  <2>3. m + l = p /\ m + l < ROBSize  BY <2>2, FlightAfter, WidthType, SMT
  <2>4. /\ counterStoreSqN' = Plus(counterStoreSqN, CountBelow(PortStores', m))
        /\ counterLoadSqN' = Plus(counterLoadSqN, CountBelow(PortLoads', m))
    BY <2>1 DEF NumbersAs
  <2>5. counterStoreSqN = StoreSqNAfter(l)' /\ counterLoadSqN = LoadSqNAfter(l)'
    BY <1>1, <1>2, <1>4, CountersMove
  <2>6. /\ Plus(StoreSqNAfter(l)', CountBelow(PortStores', m)) = StoreSqNAfter(m + l)'
        /\ Plus(LoadSqNAfter(l)', CountBelow(PortLoads', m)) = LoadSqNAfter(m + l)'
    BY <1>2, <2>2, <2>3, NumbersGrow
  <2> QED  BY <2>3, <2>4, <2>5, <2>6
<1>5. QED  BY <1>3, <1>4

-----------------------------------------------------------------------------
(* The numbers in redirects. *)

\* A uop in the buffer has the numbers of its place.
LEMMA UnitNumbers ==
  ASSUME WindowInv, KindsAgree, UopNumbers, ~trapUOp.valid, ~branch.flush,
         NEW s \in SqNs, InROB(s)
  PROVE  /\ Pos(s) \in Nat /\ Pos(s) < Pos(lastIndex)
         /\ Unit(s).storeSqN = StoreSqNAfter(Pos(s) + 1)
         /\ Unit(s).loadSqN = LoadSqNAfter(Pos(s))
         /\ Pos(s) \in Stores <=> IsSt(Unit(s).fu)
         /\ Pos(s) \in Loads <=> IsLd(Unit(s).fu)
<1>1. Pos(s) \in Nat /\ Pos(s) < Pos(lastIndex) /\ Slot(Pos(s)) = RobIdx(s)  BY PosOfSlot
<1>2. Pos(s) \in 0 .. InFlight - 1  BY <1>1, FlightType, SMT
<1> DEFINE q == Pos(s)
           k == RobIdx(s)
<1>3. /\ MemUops[q].st = entries[k].isSt /\ MemUops[q].ld = entries[k].isLd
      /\ MemUops[q].stSqN = backend[k].storeSqN /\ MemUops[q].ldSqN = backend[k].loadSqN
  <2> HIDE DEF q, k
  <2>1. q \in Nat /\ q < Pos(lastIndex) /\ Slot(q) = k  BY <1>1 DEF q, k
  <2> QED  BY <2>1 DEF MemUops
<1>4. entries[k].isSt = IsSt(backend[k].fu) /\ entries[k].isLd = IsLd(backend[k].fu)
  BY DEF KindsAgree
<1>5. q \in Stores <=> IsSt(Unit(s).fu)  BY <1>1, <1>3, <1>4 DEF Stores, Unit
<1>6. q \in Loads <=> IsLd(Unit(s).fu)  BY <1>1, <1>3, <1>4 DEF Loads, Unit
<1>7. MemUops[q].stSqN = StoreSqNAfter(q + 1) /\ MemUops[q].ldSqN = LoadSqNAfter(q)
  BY <1>2 DEF UopNumbers
<1>8. QED  BY <1>1, <1>3, <1>5, <1>6, <1>7 DEF Unit

\* Numbers after one more uop.
LEMMA NextLoadNumber ==
  ASSUME WindowInv, NEW q \in Nat, q < Pos(lastIndex)
  PROVE  /\ q \notin Loads => LoadSqNAfter(q + 1) = LoadSqNAfter(q)
         /\ q \in Loads => LoadSqNAfter(q + 1) = Plus(LoadSqNAfter(q), 1)
<1>1. CountBelow(Loads, q + 1) = CountBelow(Loads, q) + (IF q \in Loads THEN 1 ELSE 0)
  BY CountNext
<1>2. CountBelow(Loads, q) \in Nat /\ CountBelow(Loads, q) <= q  BY CountType
<1>3. CASE q \in Loads
  <2>1. 1 + CountBelow(Loads, q) = CountBelow(Loads, q + 1)  BY <1>1, <1>2, <1>3, SMT
  <2>2. 1 \in Nat /\ 1 + CountBelow(Loads, q) < ROBSize
    BY <1>2, FlightType, RingType, SMT
  <2>3. Plus(Plus(loadSqN_r, CountBelow(Loads, q)), 1) = Plus(loadSqN_r, 1 + CountBelow(Loads, q))
    BY <1>2, <2>2, LsqType, PlusPlus
  <2> QED  BY <1>3, <2>1, <2>3 DEF LoadSqNAfter
<1>4. CASE q \notin Loads
  <2>1. CountBelow(Loads, q + 1) = CountBelow(Loads, q)  BY <1>1, <1>2, <1>4, SMT
  <2> QED  BY <1>4, <2>1 DEF LoadSqNAfter
<1>5. QED  BY <1>3, <1>4

\* A uop that redirects has the numbers of the place that the redirect goes to.
LEMMA WaitingNumbers ==
  ASSUME WindowInv, WindowInv', RedirectCovers, FlushRedirects, KindsAgree, UopNumbers,
         NEW F, NEW n, CycleOf(F, n), ~trapUOp.valid, ~trapUOp'.valid,
         NEW s \in SqNs, Waiting(s), ~Squashed(s, branch),
         NEW p \in Int, p = Diff(s, baseIndex') + 1
  PROVE  /\ p \in Nat
         /\ Unit(s).storeSqN = StoreSqNAfter(p)'
         /\ ~IsLd(Unit(s).fu) => Unit(s).loadSqN = LoadSqNAfter(p)'
         /\ IsLd(Unit(s).fu) => Plus(Unit(s).loadSqN, 1) = LoadSqNAfter(p)'
<1> DEFINE q == Pos(s)
<1>1. n \in 0 .. Width /\ Advances(n) /\ LastIs(lastIndex')  BY DEF CycleOf, RobMoves
<1>2. -1 <= Diff(s, baseIndex') /\ Diff(s, baseIndex') < Diff(lastIndex', baseIndex')
  BY <1>1, RedirectOfWaiting
<1>3. n - 1 <= q  BY <1>1, WaitingStays
<1>4. Diff(s, baseIndex') = q - n  BY <1>1, <1>3, PosShift DEF WindowInv
<1>5. InROB(s)  BY DEF Waiting
<1>6. q \in Nat /\ q < Pos(lastIndex)  BY <1>5, PosOfSlot
<1>7. Diff(lastIndex', baseIndex') = Pos(lastIndex)'  BY DEF Pos
<1> HIDE DEF q
<1>8. n \in Nat /\ Pos(lastIndex)' \in Nat  BY FlightAfter
<1>9. p \in Nat /\ p <= Pos(lastIndex)' /\ p + n = q + 1
  BY <1>2, <1>4, <1>6, <1>7, <1>8, SMT
<1>10. ~branch.flush
  <2> SUFFICES ASSUME branch.flush  PROVE FALSE
    OBVIOUS
  <2>1. InFlight' = 0  BY FlushEmpties
  <2>2. branch.taken /\ n = 0  BY FlightAfter DEF FlushRedirects
  <2>3. Pos(lastIndex)' <= InFlight'  BY FlightAfter
  <2> QED  BY <1>2, <1>4, <1>6, <1>7, <1>8, <2>1, <2>2, <2>3, SMT
<1>11. StoreSqNAfter(p)' = StoreSqNAfter(q + 1) /\ LoadSqNAfter(p)' = LoadSqNAfter(q + 1)
  <2>1. StoreSqNAfter(p)' = StoreSqNAfter(p + n) /\ LoadSqNAfter(p)' = LoadSqNAfter(p + n)
    BY <1>9, NumbersMove
  <2> QED  BY <1>9, <2>1
<1>12. /\ Unit(s).storeSqN = StoreSqNAfter(q + 1) /\ Unit(s).loadSqN = LoadSqNAfter(q)
       /\ q \in Loads <=> IsLd(Unit(s).fu)
  BY <1>5, <1>10, UnitNumbers DEF q
<1>13. QED  BY <1>6, <1>9, <1>11, <1>12, NextLoadNumber

\* The kinds of uops the load buffer complains about.
LEMMA MemCandidateKind ==
  ASSUME WindowInv, NEW F \in AnyCompletions, NEW s \in MemCandidates(F)
  PROVE  /\ s \in SqNs /\ Waiting(s) /\ ~Squashed(s, branch)
         /\ Unit(s).fu \in {"SC", "STORE", "ATOMIC"}
         /\ Unit(s).fu = "SC" => s = baseIndex /\ Outcome["SC"] # {}
<1>1. Unit(s).fu \in {"SC", "STORE", "ATOMIC"}
  <2>1. PICK u \in F : u.sqN = s /\ Unit(u.sqN).fu \in {"SC", "STORE", "ATOMIC"}
    BY DEF MemCandidates
  <2> QED  BY <2>1
<1>2. /\ s \in SqNs /\ MayExecute(s) /\ ~Squashed(s, branch)
      /\ Unit(s).fu = "SC" => Outcome["SC"] # {}
  BY MemCandidateExecutes
<1>3. QED  BY <1>1, <1>2 DEF MayExecute

\* Where a redirect comes from.
LEMMA RedirectSource ==
  ASSUME WindowInv, NEW F \in AnyCompletions, RedirectStep(F), ~trapUOp.valid, branch'.taken
  PROVE  \/ \E s \in BranchCandidates : branch' = IntBranch(s)
         \/ \E s \in MemCandidates(F) : branch' = MemBranch(s)
<1>1. PICK B \in SUBSET BranchCandidates, M \in {{}} \cup {{s} : s \in MemCandidates(F)} :
        branch' = SelectBranch(B, M)
  BY DEF RedirectStep
<1>2. M # {} => \E s \in MemCandidates(F) :
                  (CHOOSE b \in {MemBranch(t) : t \in M} : TRUE) = MemBranch(s)
  OBVIOUS
<1>3. B # {} => Oldest(B) \in BranchCandidates
  <2> SUFFICES ASSUME B # {}  PROVE Oldest(B) \in BranchCandidates
    OBVIOUS
  <2>1. Oldest(B) \in B  BY <1>1, OldestType DEF WindowInv
  <2> QED  BY <1>1, <2>1
<1>4. ~NoBranch.taken  BY DEF NoBranch
<1>5. QED  BY <1>1, <1>2, <1>3, <1>4 DEF SelectBranch

\* The redirect of a store-conditional that failed goes to the front.
LEMMA FailedScNumbers ==
  ASSUME ScNeverTimesOut, WindowInv, WindowInv', RedirectCovers, FlushRedirects,
         KindsAgree, UopNumbers,
         NEW F, NEW n, CycleOf(F, n), ~trapUOp.valid, ~trapUOp'.valid,
         NEW s \in MemCandidates(F), Unit(s).fu = "SC",
         NEW p \in Int, p = Diff(MemBranch(s).sqN, baseIndex') + 1
  PROVE  /\ MemBranch(s).storeSqN = StoreSqNAfter(p)'
         /\ MemBranch(s).loadSqN = LoadSqNAfter(p)'
<1> USE DEF CycleOf, RobMoves
<1>1. /\ s \in SqNs /\ Waiting(s) /\ ~Squashed(s, branch) /\ s = baseIndex /\ ~AllowTimeout
  BY MemCandidateKind DEF ScNeverTimesOut
<1>2. Pos(s) = 0  BY <1>1, PlusMinusOne DEF Pos
<1>3. n = 0
  <2>1. n \in 0 .. Width /\ n <= Pos(s)  BY <1>1, WaitingStays
  <2> QED  BY <1>2, <2>1, WidthType, SMT
<1>4. /\ MemBranch(s).sqN = Minus(s, 1) /\ MemBranch(s).loadSqN = Unit(s).loadSqN
      /\ MemBranch(s).storeSqN = Minus(Unit(s).storeSqN, 1)
  BY DEF MemBranch
<1>5. baseIndex' = s
  BY <1>1, <1>3, PlusZero DEF Advances
<1>6. p = 0
  <2>1. Diff(Minus(s, 1), s) = -1  BY <1>1, RingType, SMT DEF Diff, Minus, SqNs
  <2> QED  BY <1>4, <1>5, <2>1, SMT
<1>7. /\ InROB(s) /\ ~branch.flush
  <2>1. InROB(s)  BY <1>1 DEF Waiting
  <2> SUFFICES ASSUME branch.flush  PROVE FALSE
    BY <2>1
  <2>2. branch.taken /\ baseIndex = Plus(branch.sqN, 1) /\ branch.sqN \in SqNs
    BY SqNState DEF FlushRedirects, WindowInv, BranchInWindow
  <2>3. Diff(s, branch.sqN) > 0
    BY <1>1, <2>2, RingType, SMT DEF Diff, Plus, SqNs
  <2> QED  BY <1>1, <2>2, <2>3 DEF Squashed
<1>8. /\ Unit(s).storeSqN = StoreSqNAfter(1) /\ Unit(s).loadSqN = LoadSqNAfter(0)
      /\ 0 \in Stores
  <2>1. IsSt(Unit(s).fu)  BY DEF IsSt
  <2>2. s \in SqNs /\ InROB(s) /\ ~branch.flush  BY <1>1, <1>7
  <2>3. /\ Unit(s).storeSqN = StoreSqNAfter(Pos(s) + 1)
        /\ Unit(s).loadSqN = LoadSqNAfter(Pos(s))
        /\ Pos(s) \in Stores <=> IsSt(Unit(s).fu)
    BY <2>2, UnitNumbers
  <2>4. 0 + 1 = 1  BY SMT
  <2> QED  BY <1>2, <2>1, <2>3, <2>4
<1>9. CountBelow(Stores, 1) = 1
  <2>1. 0 \in Nat /\ 0 + 1 = 1  BY SMT
  <2> QED  BY <1>8, <2>1, CountNext, CountNone
<1>10. StoreSqNAfter(0)' = storeSqN_r /\ LoadSqNAfter(0)' = LoadSqNAfter(0)
  <2>1. 0 \in Nat /\ 0 + n = 0 /\ 0 <= Pos(lastIndex)'  BY <1>3, FlightAfter, SMT
  <2>2. StoreSqNAfter(0)' = StoreSqNAfter(0) /\ LoadSqNAfter(0)' = LoadSqNAfter(0)
    BY <2>1, NumbersMove
  <2>3. StoreSqNAfter(0) = storeSqN_r  BY CountNone, PlusZero, LsqType DEF StoreSqNAfter
  <2> QED  BY <2>2, <2>3
<1>11. Minus(Plus(storeSqN_r, 1), 1) = storeSqN_r
  BY LsqType, RingType, SMT DEF Minus, Plus, SqNs
<1>12. QED  BY <1>4, <1>6, <1>8, <1>9, <1>10, <1>11 DEF StoreSqNAfter

\* Whatever is selected, the numbers it restores are those behind the last uop it keeps.
LEMMA RedirectNumbersStep ==
  ASSUME ScNeverTimesOut, WindowInv, WindowInv', RedirectCovers, FlushRedirects,
         KindsAgree, UopNumbers, TrapNumbers,
         NEW F, NEW n, CycleOf(F, n), ~trapUOp'.valid, branch'.taken,
         NEW p \in Int, p = Pos(branch.sqN)' + 1
  PROVE  branch'.storeSqN = StoreSqNAfter(p)' /\ branch'.loadSqN = LoadSqNAfter(p)'
<1>0. Pos(branch.sqN)' = Diff(branch'.sqN, baseIndex')  BY DEF Pos
<1>1. CASE trapUOp.valid
  <2>1. branch' = TrapBranch
    <3>1. PICK B, M : branch' = SelectBranch(B, M)  BY DEF CycleOf, RedirectStep
    <3> QED  BY <1>1, <3>1 DEF SelectBranch
  <2>2. n = 0 /\ baseIndex = Plus(trapUOp.sqN, 1) /\ baseIndex' = Plus(baseIndex, n)
    BY <1>1 DEF CycleOf, RobMoves, Advances, WindowInv, RecoveryState
  <2>3. baseIndex \in SqNs /\ trapUOp.sqN \in SqNs  BY SqNState DEF WindowInv
  <2>4. baseIndex' = baseIndex  BY <2>2, <2>3, PlusZero
  <2>5. branch'.sqN = trapUOp.sqN  BY <2>1 DEF TrapBranch
  <2>6. p = 0
    <3>1. Diff(trapUOp.sqN, baseIndex) = -1  BY <2>2, <2>3, PlusMinusOne
    <3> QED  BY <1>0, <2>4, <2>5, <3>1, SMT
  <2>7. StoreSqNAfter(0)' = storeSqN_r /\ LoadSqNAfter(0)' = loadSqN_r
    <3>1. 0 \in Nat /\ 0 + n = 0 /\ 0 <= Pos(lastIndex)'  BY <2>2, FlightAfter, SMT
    <3>2. StoreSqNAfter(0)' = StoreSqNAfter(0) /\ LoadSqNAfter(0)' = LoadSqNAfter(0)
      BY <3>1, NumbersMove
    <3> QED  BY <3>2, CountNone, PlusZero, LsqType DEF StoreSqNAfter, LoadSqNAfter
  <2> QED  BY <1>1, <2>1, <2>6, <2>7 DEF TrapNumbers
<1>2. CASE ~trapUOp.valid /\ \E s \in BranchCandidates : branch' = IntBranch(s)
  <2>1. PICK s \in BranchCandidates : branch' = IntBranch(s)  BY <1>2
  <2>2. /\ s \in SqNs /\ Waiting(s) /\ ~Squashed(s, branch) /\ Unit(s).mispred
    BY DEF BranchCandidates, MayExecute
  <2>3. ~IsLd(Unit(s).fu)
    <3>1. Unit(s).fu = "INT"
      BY <2>2, RobIdxType DEF WindowInv, BranchesAreInt, Unit
    <3> QED  BY <3>1 DEF IsLd
  <2>4. branch'.sqN = s /\ branch'.storeSqN = Unit(s).storeSqN /\ branch'.loadSqN = Unit(s).loadSqN
    BY <2>1 DEF IntBranch
  <2>5. p = Diff(s, baseIndex') + 1  BY <1>0, <2>4
  <2> QED  BY <1>2, <2>2, <2>3, <2>4, <2>5, WaitingNumbers
<1>3. CASE ~trapUOp.valid /\ \E s \in MemCandidates(F) : branch' = MemBranch(s)
  <2>1. PICK s \in MemCandidates(F) : branch' = MemBranch(s)  BY <1>3
  <2>2. /\ s \in SqNs /\ Waiting(s) /\ ~Squashed(s, branch)
        /\ Unit(s).fu \in {"SC", "STORE", "ATOMIC"}
    BY MemCandidateKind DEF CycleOf
  <2>3. CASE Unit(s).fu = "SC"
    <3>1. p = Diff(MemBranch(s).sqN, baseIndex') + 1  BY <1>0, <2>1
    <3> QED  BY <1>3, <2>1, <2>3, <3>1, FailedScNumbers
  <2>4. CASE Unit(s).fu # "SC"
    <3>1. /\ branch'.sqN = s /\ branch'.storeSqN = Unit(s).storeSqN
          /\ branch'.loadSqN = IF Unit(s).fu = "ATOMIC" THEN Plus(Unit(s).loadSqN, 1)
                               ELSE Unit(s).loadSqN
      BY <2>1, <2>4 DEF MemBranch
    <3>2. p = Diff(s, baseIndex') + 1  BY <1>0, <3>1
    <3>3. IsLd(Unit(s).fu) <=> Unit(s).fu = "ATOMIC"  BY <2>2 DEF IsLd
    <3> QED  BY <1>3, <2>2, <3>1, <3>2, <3>3, WaitingNumbers
  <2> QED  BY <2>3, <2>4
<1>4. QED  BY <1>1, <1>2, <1>3, RedirectSource DEF CycleOf

\* A trap takes the number of a store that faulted back, and nothing else that traps took
\* one.
LEMMA TrapNumbersStep ==
  ASSUME WindowInv, KindsAgree, NEW F, NEW n, CycleOf(F, n), trapUOp'.valid
  PROVE  TrapNumbers'
<1>1. n \in 0 .. Width /\ n <= Pos(lastIndex)  BY DEF CycleOf, RobMoves, Advances
<1>2. PICK hang \in {FALSE, AllowTimeout} : Commits(n, hang) /\ CommitStep(n, hang)
  BY CommitParts
<1>3. /\ n > 0 /\ SendsTrap(n - 1, hang) /\ trapUOp' = TrapOf(n - 1, hang)
  <2> SUFFICES ASSUME ~(n > 0 /\ SendsTrap(n - 1, hang))  PROVE FALSE
    BY <1>2 DEF CommitStep
  <2>1. trapUOp' = NoTrapUOp  BY <1>2 DEF CommitStep
  <2> QED  BY <2>1 DEF NoTrapUOp
<1>4. PICK i \in Nat : i = n - 1 /\ i + 1 = n /\ i \in Port /\ i \in 0 .. Width /\ i < Pos(lastIndex)
                       /\ i <= Pos(lastIndex)
  <2>1. /\ n - 1 \in Nat /\ n - 1 + 1 = n /\ n - 1 \in Port /\ n - 1 \in 0 .. Width
        /\ n - 1 < Pos(lastIndex) /\ n - 1 <= Pos(lastIndex)
    BY <1>1, <1>3, WidthType, FlightType, SMT DEF Port
  <2> QED  BY <2>1
<1> DEFINE k == Deq(i)
<1>5. /\ trapUOp'.flags = flags[k] /\ trapUOp'.loadSqN = LoadSqNAt(i)
      /\ trapUOp'.storeSqN = StoreSqNAt(n)
  BY <1>3, <1>4 DEF TrapOf
<1>6. /\ TrapBranch'.loadSqN = LoadSqNAt(i)
      /\ TrapBranch'.storeSqN = IF flags[k] = "ST_FAULT" THEN Minus(StoreSqNAt(n), 1)
                                ELSE StoreSqNAt(n)
  BY <1>5 DEF TrapBranch
<1>7. /\ StoreSqNAt(i) = StoreSqNAfter(i) /\ StoreSqNAt(n) = StoreSqNAfter(n)
      /\ LoadSqNAt(i) = LoadSqNAfter(i) /\ LoadSqNAt(n) = LoadSqNAfter(n)
  BY <1>1, <1>4, PortNumbers
<1>8. /\ entries[k].isSt => /\ flags[k] \notin Exception \ {"ST_FAULT"}
                            /\ ~AllowTimeout
      /\ ~entries[k].isSt => flags[k] # "ST_FAULT"
      /\ entries[k].isLd => flags[k] # "ORDERING"
  <2>1. /\ Plus(baseIndex, i) \in SqNs /\ InROB(Plus(baseIndex, i))
        /\ RobIdx(Plus(baseIndex, i)) = k
    BY <1>4, SlotAt DEF Deq
  <2> HIDE DEF k
  <2> QED  BY <2>1 DEF KindsAgree, KeepsNumbers
<1>9. (i \in Stores <=> entries[k].isSt) /\ (i \in Loads <=> entries[k].isLd)
  BY <1>4 DEF Stores, Loads, MemUops, Slot, Deq
<1> HIDE DEF k
<1>10. CountBelow(Stores, n) = CountBelow(Stores, i) + (IF i \in Stores THEN 1 ELSE 0)
  BY <1>4, CountNext
<1>11. /\ CountBelow(Stores, i) \in Nat /\ CountBelow(Stores, i) <= i /\ i + 1 < ROBSize
  BY <1>1, <1>4, CountType, WidthType, RingType, SMT
<1>12. i \notin Stores => StoreSqNAfter(n) = StoreSqNAfter(i)
  <2> SUFFICES ASSUME i \notin Stores  PROVE StoreSqNAfter(n) = StoreSqNAfter(i)
    OBVIOUS
  <2>1. CountBelow(Stores, n) = CountBelow(Stores, i)  BY <1>10, <1>11, SMT
  <2> QED  BY <2>1 DEF StoreSqNAfter
<1>13. i \in Stores => Minus(StoreSqNAfter(n), 1) = StoreSqNAfter(i)
  <2> SUFFICES ASSUME i \in Stores  PROVE Minus(StoreSqNAfter(n), 1) = StoreSqNAfter(i)
    OBVIOUS
  <2>1. CountBelow(Stores, n) = CountBelow(Stores, i) + 1  BY <1>10
  <2>2. storeSqN_r \in SqNs  BY LsqType
  <2>3. \A c \in Nat : c + 1 < ROBSize => Minus(Plus(storeSqN_r, c + 1), 1) = Plus(storeSqN_r, c)
    BY <2>2, RingType, SMT DEF Minus, Plus, SqNs
  <2>4. CountBelow(Stores, i) + 1 < ROBSize  BY <1>11, RingType, <1>4, SMT
  <2> QED  BY <1>11, <2>1, <2>3, <2>4 DEF StoreSqNAfter
<1>14. i \notin Loads => LoadSqNAfter(n) = LoadSqNAfter(i)
  <2>1. i \notin Loads => LoadSqNAfter(i + 1) = LoadSqNAfter(i)  BY <1>4, NextLoadNumber
  <2> QED  BY <1>4, <2>1
<1>15. CASE IsException(i, hang)
  <2>1. storeSqN_r' = StoreSqNAt(i) /\ loadSqN_r' = LoadSqNAt(i)
    BY <1>2, <1>3, <1>4, <1>15 DEF CommitStep
  <2>2. i \in Stores => flags[k] = "ST_FAULT"
    <3>1. hang => AllowTimeout
      <4>1. hang = FALSE \/ hang = AllowTimeout  OBVIOUS
      <4> QED  BY <4>1, Zenon
    <3>2. hang \/ flags[k] \in Exception  BY <1>15 DEF IsException, TimedOut, k
    <3> QED  BY <1>8, <1>9, <3>1, <3>2
  <2>3. i \notin Stores => flags[k] # "ST_FAULT"  BY <1>8, <1>9
  <2>4. TrapBranch'.storeSqN = StoreSqNAfter(i)
    BY <1>6, <1>7, <1>12, <1>13, <2>2, <2>3
  <2> QED  BY <1>6, <1>7, <2>1, <2>4 DEF TrapNumbers
<1>16. CASE ~IsException(i, hang)
  <2>1. storeSqN_r' = StoreSqNAt(n) /\ loadSqN_r' = LoadSqNAt(n)
    BY <1>2, <1>3, <1>4, <1>16 DEF CommitStep
  <2>2. flags[k] = "ORDERING"
    BY <1>3, <1>4, <1>16 DEF IsException, SendsTrap, k
  <2>3. i \notin Loads  BY <1>8, <1>9, <2>2
  <2> QED  BY <1>6, <1>7, <1>14, <2>1, <2>2, <2>3 DEF TrapNumbers
<1>17. QED  BY <1>15, <1>16

-----------------------------------------------------------------------------
(* Which uops are loads and stores. *)

\* The ways to complete that the numbers of loads and stores survive.  A store that
\* traps in any other way than by ST_FAULT, or that is timed out, keeps a number that
\* the ROB does not count.
LsqNumbersKept ==
  /\ \A f \in FuncUnit : \A fl \in Outcome[f] : KeepsNumbers(fl, IsSt(f), IsLd(f))
  /\ AllowTimeout => \A u \in DUOps : ~IsSt(u.fu)

\* What a uop completes with is one of the outcomes of its unit.
LEMMA ReportedKeepsNumbers ==
  ASSUME LsqNumbersKept, WindowInv, NEW F \in AnyCompletions, NEW u \in F
  PROVE  KeepsNumbers(u.flags, IsSt(Unit(u.sqN).fu), IsLd(Unit(u.sqN).fu))
<1>2. \A st, ld : KeepsNumbers("NONE", st, ld) /\ KeepsNumbers("PRED", st, ld)
  BY DEF KeepsNumbers, Exception
<1>3. CASE \E t \in SqNs : u \in Reports(t)
  <2>1. PICK t \in SqNs : u \in Reports(t)  BY <1>3
  <2>2. u.sqN = t  BY <2>1 DEF Reports
  <2>3. Unit(t).fu \in FuncUnit  BY UnitType DEF BackendUOp, WindowInv
  <2>4. u.flags = "NONE" \/ u.flags \in Outcome[Unit(t).fu]  BY <2>1 DEF Reports
  <2> QED  BY <1>2, <2>2, <2>3, <2>4 DEF LsqNumbersKept
<1>4. CASE \E t : u = BranchReport(t)
  <2>1. PICK t : u = BranchReport(t)  BY <1>4
  <2>2. u.flags = "NONE" \/ u.flags = "PRED"  BY <2>1 DEF BranchReport
  <2> QED  BY <1>2, <2>2
<1>5. QED  BY <1>3, <1>4, ReportSource

\* Rename hands on the unit that decode chose, or finishes the uop itself.
LEMMA RenamedStores ==
  ASSUME LsqNumbersKept, AllowTimeout, NEW F, NEW n, CycleOf(F, n), NEW i \in Port
  PROVE  ~IsSt(rnUOp'[i].fu)
<1>1. CASE rnUOp' = [j \in Port |-> NoRUOp]
  BY <1>1 DEF NoRUOp, IsSt
<1>2. CASE \E uop \in DecodedUOps(DUOps) : RNAccept(mispredFlush, uop, comUOp, F)
  <2>1. PICK uop \in DecodedUOps(DUOps) : RNAccept(mispredFlush, uop, comUOp, F)
    BY <1>2
  <2>2. rnUOp'[i] = IF Decoded(uop, i) THEN Renamed(uop, i, WrittenBack(F)) ELSE NoRUOp
    BY <2>1 DEF RNAccept
  <2>3. CASE Decoded(uop, i)
    <3>1. rnUOp'[i] = Renamed(uop, i, WrittenBack(F))  BY <2>2, <2>3
    <3>2. rnUOp'[i].fu = IF ScFails(uop, i) THEN "RN" ELSE uop[i].fu  BY <3>1 DEF Renamed
    <3>3. uop[i] \in DUOps  BY <2>3 DEF DecodedUOps, Decoded
    <3>4. ~IsSt(uop[i].fu) /\ ~IsSt("RN")  BY <3>3 DEF LsqNumbersKept, IsSt
    <3> QED  BY <3>2, <3>4
  <2>4. CASE ~Decoded(uop, i)
    BY <2>2, <2>4 DEF NoRUOp, IsSt
  <2> QED  BY <2>3, <2>4
<1>3. QED
  BY <1>1, <1>2 DEF CycleOf, RedirectCycle, ReplayCycle, TrapCycle, CommitCycle, RenameStep,
                    RNRedirect, RNIdle

LEMMA KindsAgreeStep ==
  ASSUME LsqNumbersKept, WindowInv, RedirectCovers, KindsAgree, NEW F, NEW n, CycleOf(F, n)
  PROVE  KindsAgree'
<1>1. ASSUME NEW s \in SqNs, InROB(s)', NEW k, k = RobIdx(s)
      PROVE  /\ entries'[k].isSt = IsSt(backend'[k].fu) /\ entries'[k].isLd = IsLd(backend'[k].fu)
             /\ KeepsNumbers(flags'[k], entries'[k].isSt, entries'[k].isLd)
             /\ AllowTimeout => ~entries'[k].isSt
  <2> USE DEF CycleOf
  <2>1. CASE Enqueued(k, rnUOp, branch) # {}
    <3>1. PICK i \in Enqueued(k, rnUOp, branch) : TRUE  BY <2>1
    <3>2. i \in Port /\ rnUOp[i].valid /\ ~branch.taken /\ RobIdx(rnUOp[i].sqN) = k
      BY <3>1 DEF Enqueued
    <3>3. /\ entries'[k] = EntryOf(rnUOp[i]) /\ flags'[k] = InitialFlags(rnUOp[i].fu)
          /\ backend'[k] = Entered(rnUOp[i], WrittenBack(F))
      BY <3>2, SlotEntered
    <3>4. /\ entries'[k].isSt = IsSt(rnUOp[i].fu) /\ entries'[k].isLd = IsLd(rnUOp[i].fu)
          /\ backend'[k].fu = rnUOp[i].fu
      BY <3>3 DEF EntryOf, Entered
    <3>5. KeepsNumbers(InitialFlags(rnUOp[i].fu), IsSt(rnUOp[i].fu), IsLd(rnUOp[i].fu))
      BY DEF InitialFlags, KeepsNumbers, IsSt, IsLd, Exception
    <3>6. AllowTimeout => ~IsSt(rnUOp[i].fu)  BY <3>2 DEF KindsAgree
    <3> QED  BY <3>3, <3>4, <3>5, <3>6
  <2>2. CASE Enqueued(k, rnUOp, branch) = {}
    <3>1. InROB(s)  BY <1>1, <2>2, EnteredOrKept DEF RobMoves
    <3>2. /\ entries'[k] = entries[k] /\ backend'[k].fu = backend[k].fu
          /\ Completed(k, F, branch) = {} => flags'[k] = flags[k]
          /\ Completed(k, F, branch) # {} =>
               \E u \in Completed(k, F, branch) : flags'[k] = u.flags
      BY <1>1, <3>1, SlotKept
    <3>3. /\ entries[k].isSt = IsSt(backend[k].fu) /\ entries[k].isLd = IsLd(backend[k].fu)
          /\ KeepsNumbers(flags[k], entries[k].isSt, entries[k].isLd)
          /\ AllowTimeout => ~entries[k].isSt
      BY <1>1, <3>1 DEF KindsAgree
    <3>4. ASSUME NEW u \in Completed(k, F, branch)
          PROVE  KeepsNumbers(u.flags, IsSt(backend[k].fu), IsLd(backend[k].fu))
      <4>1. u \in F /\ RobIdx(u.sqN) = k  BY DEF Completed
      <4> QED  BY <4>1, ReportedKeepsNumbers DEF Unit
    <3>5. KeepsNumbers(flags'[k], entries[k].isSt, entries[k].isLd)
      BY <3>2, <3>3, <3>4
    <3> QED  BY <3>2, <3>3, <3>5
  <2> QED  BY <2>1, <2>2
<1>2. AllowTimeout => \A i \in Port : rnUOp'[i].valid => ~IsSt(rnUOp'[i].fu)
  BY RenamedStores
<1>3. QED  BY <1>1, <1>2 DEF KindsAgree

-----------------------------------------------------------------------------
(* The invariant about the numbers of loads and stores. *)

\* The inductive invariant.
LsqInv ==
  MapInv /\ KindsAgree /\ UopNumbers /\ NextNumbers /\ RedirectNumbers /\ TrapNumbers

LEMMA InitLsq == Init => LsqInv
<1> SUFFICES ASSUME Init  PROVE LsqInv
  OBVIOUS
<1>1. MapInv  BY InitMap
<1>2. WindowInv  BY <1>1 DEF MapInv, RaisedInv
<1>3. /\ rnUOp = [i \in Port |-> NoRUOp] /\ branch = NoBranch /\ trapUOp = NoTrapUOp
      /\ baseIndex = 0 /\ lastIndex = 0 /\ counterSqN = 0
      /\ counterStoreSqN = storeSqN_r /\ counterLoadSqN = loadSqN_r
  BY DEF Init, RNInit, ROBInit
<1>4. Pos(lastIndex) = 0 /\ InFlight = 0
  BY <1>3, ZeroType, PlusMinusOne DEF Pos, InFlight
<1>5. KindsAgree
  <2>1. \A s \in SqNs : ~InROB(s)
    <3> SUFFICES ASSUME NEW s \in SqNs, InROB(s)  PROVE FALSE
      OBVIOUS
    <3>1. Pos(s) \in Nat /\ Pos(s) < 0  BY <1>2, <1>4, PosOfSlot
    <3> QED  BY <3>1, SMT
  <2>2. \A i \in Port : ~rnUOp[i].valid  BY <1>3 DEF NoRUOp
  <2> QED  BY <2>1, <2>2 DEF KindsAgree
<1>6. UopNumbers
  <2>1. \A q \in 0 .. InFlight - 1 : FALSE  BY <1>4, SMT
  <2> QED  BY <2>1 DEF UopNumbers
<1>7. NextNumbers
  <2>1. StoreSqNAfter(0) = storeSqN_r /\ LoadSqNAfter(0) = loadSqN_r
    BY <1>2, CountNone, PlusZero, LsqType DEF StoreSqNAfter, LoadSqNAfter
  <2> QED  BY <1>3, <1>4, <2>1 DEF NextNumbers
<1>8. RedirectNumbers /\ TrapNumbers
  BY <1>3 DEF RedirectNumbers, TrapNumbers, NoBranch, NoTrapUOp
<1>9. QED  BY <1>1, <1>5, <1>6, <1>7, <1>8 DEF LsqInv

LEMMA NextLsq ==
  ASSUME ScNeverTimesOut, LsqNumbersKept
  PROVE  LsqInv /\ [AnyNext]_vars => LsqInv'
<1> SUFFICES ASSUME LsqInv, [AnyNext]_vars  PROVE LsqInv'
  OBVIOUS
<1>1. MapInv /\ MapInv'  BY NextMap DEF LsqInv
<1>2. WindowInv /\ WindowInv' /\ RedirectCovers /\ FlushRedirects
  BY <1>1 DEF MapInv, RaisedInv
<1>3. KindsAgree /\ UopNumbers /\ NextNumbers /\ RedirectNumbers /\ TrapNumbers  BY DEF LsqInv
<1>4. CASE AnyNext
  <2>1. PICK F \in AnyCompletions : Cycle(F)  BY <1>4 DEF AnyNext
  <2>2. PICK n \in 0 .. Width : CycleOf(F, n)  BY <1>2, <2>1, CycleParts
  <2>3. \A q \in 0 .. InFlight' - 1 : q \in Nat /\ q < InFlight'
    BY <1>2, <2>2, FlightAfter, SMT
  <2>4. KindsAgree'  BY <1>2, <1>3, <2>2, KindsAgreeStep
  <2>5. UopNumbers'
    <3> SUFFICES ASSUME ~trapUOp'.valid, ~branch'.flush, NEW q \in 0 .. InFlight' - 1
                 PROVE  /\ MemUops'[q].stSqN = StoreSqNAfter(q + 1)'
                        /\ MemUops'[q].ldSqN = LoadSqNAfter(q)'
      BY DEF UopNumbers
    <3> QED  BY <1>2, <1>3, <2>2, <2>3, UopNumbersStep
  <2>6. NextNumbers'
    <3> SUFFICES ASSUME ~trapUOp'.valid, ~branch'.taken
                 PROVE  /\ counterStoreSqN' = StoreSqNAfter(InFlight)'
                        /\ counterLoadSqN' = LoadSqNAfter(InFlight)'
      BY DEF NextNumbers
    <3>1. PICK p \in Nat : p = InFlight'  BY <1>2, <2>2, FlightAfter
    <3>2. counterStoreSqN' = StoreSqNAfter(p)' /\ counterLoadSqN' = LoadSqNAfter(p)'
      BY <1>2, <1>3, <2>2, <3>1, NextNumbersStep
    <3> QED  BY <3>1, <3>2 DEF StoreSqNAfter, LoadSqNAfter, CountBelow
  <2>7. RedirectNumbers'
    <3> SUFFICES ASSUME ~trapUOp'.valid, branch'.taken
                 PROVE  /\ branch'.storeSqN = StoreSqNAfter(Pos(branch.sqN) + 1)'
                        /\ branch'.loadSqN = LoadSqNAfter(Pos(branch.sqN) + 1)'
      BY DEF RedirectNumbers
    <3>1. PICK p \in Int : p = Pos(branch.sqN)' + 1
      <4>1. branch'.sqN \in SqNs /\ baseIndex' \in SqNs
        BY <1>2 DEF WindowInv, TypeOK, ROBTypeOK, BranchProv
      <4>2. Diff(branch'.sqN, baseIndex') \in Int  BY <4>1, DiffType
      <4> QED  BY <4>2, SMT DEF Pos
    <3>2. branch'.storeSqN = StoreSqNAfter(p)' /\ branch'.loadSqN = LoadSqNAfter(p)'
      BY <1>2, <1>3, <2>2, <3>1, RedirectNumbersStep
    <3> QED  BY <3>1, <3>2 DEF StoreSqNAfter, LoadSqNAfter, CountBelow
  <2>8. TrapNumbers'
    <3>1. CASE trapUOp'.valid
      BY <1>2, <1>3, <2>2, <3>1, TrapNumbersStep
    <3>2. CASE ~trapUOp'.valid
      BY <3>2 DEF TrapNumbers
    <3> QED  BY <3>1, <3>2
  <2> QED  BY <1>1, <2>4, <2>5, <2>6, <2>7, <2>8 DEF LsqInv
<1>5. CASE UNCHANGED vars
  <2> USE <1>5 DEF vars, rnVars, robVars
  <2>1. MemUops' = MemUops /\ InFlight' = InFlight
    BY DEF MemUops, InFlight, Slot, RnPort, Pos
  <2>2. KindsAgree'
    <3>1. \A s : InROB(s)' = InROB(s)  BY DEF InROB
    <3> QED  BY <1>3, <3>1 DEF KindsAgree
  <2>3. UopNumbers' /\ NextNumbers'
    BY <1>3, <2>1 DEF UopNumbers, NextNumbers, StoreSqNAfter, LoadSqNAfter, Stores, Loads, CountBelow
  <2>4. RedirectNumbers' /\ TrapNumbers'
    BY <1>3, <2>1 DEF RedirectNumbers, TrapNumbers, TrapBranch, StoreSqNAfter, LoadSqNAfter,
                      Stores, Loads, CountBelow, Pos
  <2> QED  BY <1>1, <2>2, <2>3, <2>4 DEF LsqInv
<1>6. QED  BY <1>4, <1>5

\* Counting the uops of the buffer by their numbers or by their places is the same.
LEMMA CountByNumber ==
  ASSUME WindowInv, NEW T, NEW p \in Nat, p <= Pos(lastIndex)
  PROVE  Cardinality({s \in SqNs : InROB(s) /\ Pos(s) < p /\ Pos(s) \in T}) = CountBelow(T, p)
<1> DEFINE A == {q \in 0 .. p - 1 : q \in T}
           B == {s \in SqNs : InROB(s) /\ Pos(s) < p /\ Pos(s) \in T}
           f == [q \in A |-> Plus(baseIndex, q)]
<1>1. ASSUME NEW q \in A
      PROVE  Plus(baseIndex, q) \in B /\ Pos(Plus(baseIndex, q)) = q
  <2>1. q \in Nat /\ q < Pos(lastIndex) /\ q < p  BY FlightType, SMT
  <2>2. Plus(baseIndex, q) \in SqNs /\ InROB(Plus(baseIndex, q)) /\ Pos(Plus(baseIndex, q)) = q
    BY <2>1, SlotAt
  <2>3. q \in T  OBVIOUS
  <2> QED  BY <2>1, <2>2, <2>3
<1>2. ASSUME NEW s \in B
      PROVE  Pos(s) \in A /\ Plus(baseIndex, Pos(s)) = s
  <2>1. Pos(s) \in Nat /\ s = Plus(baseIndex, Pos(s))  BY PosOfSlot
  <2>2. Pos(s) < p /\ Pos(s) \in T  OBVIOUS
  <2>3. \A x \in Nat : x < p => x \in 0 .. p - 1  BY SMT
  <2> QED  BY <2>1, <2>2, <2>3
<1>3. IsFiniteSet(A)
  <2>1. 0 \in Int /\ p - 1 \in Int  BY SMT
  <2>2. IsFiniteSet(0 .. p - 1)  BY <2>1, FS_Interval
  <2>3. A \in SUBSET (0 .. p - 1)  OBVIOUS
  <2> QED  BY <2>2, <2>3, FS_Subset
<1>4. ExistsBijection(A, B)
  <2> HIDE DEF A, B
  <2>1. f \in [A -> B]  BY <1>1
  <2>2. IsInjective(f)  BY <1>1 DEF IsInjective
  <2>3. \A s \in B : \E q \in A : f[q] = s  BY <1>2
  <2> QED  BY <2>1, <2>2, <2>3 DEF ExistsBijection, Bijection, Injection, Surjection
<1>5. Cardinality(B) = Cardinality(A)
  <2> HIDE DEF A, B
  <2> QED  BY <1>3, <1>4, FS_Bijection
<1>6. QED  BY <1>5 DEF CountBelow

\* The places of the stores and of the loads in the buffer.
LEMMA PlaceKind ==
  ASSUME WindowInv, NEW s, InROB(s)
  PROVE  /\ Pos(s) \in Stores <=> entries[RobIdx(s)].isSt
         /\ Pos(s) \in Loads <=> entries[RobIdx(s)].isLd
<1>1. PICK q \in Nat : q = Pos(s) /\ q < Pos(lastIndex) /\ Slot(q) = RobIdx(s)  BY PosOfSlot
<1>2. MemUops[q].st = entries[RobIdx(s)].isSt /\ MemUops[q].ld = entries[RobIdx(s)].isLd
  BY <1>1 DEF MemUops
<1>3. QED  BY <1>1, <1>2 DEF Stores, Loads

LEMMA LsqInvAgrees == LsqInv => LsqSqNAgree
<1> SUFFICES ASSUME LsqInv  PROVE LsqSqNAgree
  OBVIOUS
<1>1. /\ MapInv /\ WindowInv /\ KindsAgree /\ UopNumbers /\ NextNumbers
  BY DEF LsqInv, MapInv, RaisedInv
<1>2. ASSUME NEW s \in SqNs, InROB(s), ~trapUOp.valid, ~branch.flush
      PROVE  /\ backend[RobIdx(s)].storeSqN = Plus(storeSqN_r, Cardinality(StoresUpTo(s)))
             /\ backend[RobIdx(s)].loadSqN = Plus(loadSqN_r, Cardinality(LoadsBefore(s)))
  <2>1. PICK q \in Nat : q = Pos(s) /\ q < Pos(lastIndex)  BY <1>1, <1>2, PosOfSlot
  <2>2. q + 1 \in Nat /\ q + 1 <= Pos(lastIndex) /\ q <= Pos(lastIndex)
    BY <1>1, <2>1, FlightType, SMT
  <2>3. ASSUME NEW k \in SqNs, InROB(k)
        PROVE  /\ Diff(k, s) <= 0 <=> Pos(k) < q + 1
               /\ Diff(k, s) < 0 <=> Pos(k) < q
    <3>1. Diff(k, s) = Pos(k) - Pos(s)  BY <1>1, <1>2, <2>3, LowerIsOlder
    <3>2. Pos(k) \in Nat  BY <1>1, <2>3, PosOfSlot
    <3> QED  BY <2>1, <3>1, <3>2, SMT
  <2>4. StoresUpTo(s) = {k \in SqNs : InROB(k) /\ Pos(k) < q + 1 /\ Pos(k) \in Stores}
    BY <1>1, <2>3, PlaceKind DEF StoresUpTo
  <2>5. LoadsBefore(s) = {k \in SqNs : InROB(k) /\ Pos(k) < q /\ Pos(k) \in Loads}
    BY <1>1, <2>3, PlaceKind DEF LoadsBefore
  <2>6. /\ Cardinality(StoresUpTo(s)) = CountBelow(Stores, q + 1)
        /\ Cardinality(LoadsBefore(s)) = CountBelow(Loads, q)
    BY <1>1, <2>2, <2>4, <2>5, CountByNumber
  <2>7. /\ Unit(s).storeSqN = StoreSqNAfter(Pos(s) + 1)
        /\ Unit(s).loadSqN = LoadSqNAfter(Pos(s))
    BY <1>1, <1>2, UnitNumbers
  <2>8. Unit(s).storeSqN = StoreSqNAfter(q + 1) /\ Unit(s).loadSqN = LoadSqNAfter(q)
    BY <2>1, <2>7
  <2> QED  BY <2>6, <2>8 DEF Unit, StoreSqNAfter, LoadSqNAfter
<1>3. ASSUME Settled
      PROVE  /\ counterStoreSqN = Plus(storeSqN_r,
                  Cardinality({s \in SqNs : InROB(s) /\ entries[RobIdx(s)].isSt})
                    + Cardinality({i \in Port : rnUOp[i].valid /\ IsSt(rnUOp[i].fu)}))
             /\ counterLoadSqN = Plus(loadSqN_r,
                  Cardinality({s \in SqNs : InROB(s) /\ entries[RobIdx(s)].isLd})
                    + Cardinality({i \in Port : rnUOp[i].valid /\ IsLd(rnUOp[i].fu)}))
  <2>1. ~branch.taken /\ ~trapUOp.valid  BY <1>3 DEF Settled
  <2>2. PICK m \in 0 .. Width :
          /\ \A i \in Port : rnUOp[i].valid <=> i < m
          /\ Pos(counterSqN) = Pos(lastIndex) + m
    BY <1>1 DEF WindowInv, RenamedInOrder
  <2>3. PICK l \in Nat : l = Pos(lastIndex) /\ l <= Pos(lastIndex)
    <3>1. Pos(lastIndex) \in Nat  BY <1>1, FlightType
    <3>2. Pos(lastIndex) <= Pos(lastIndex)  BY <3>1, SMT
    <3> QED  BY <3>1, <3>2
  <2>4. InFlight = m + l
    <3>1. InFlight = Pos(lastIndex) + m  BY <2>1, <2>2 DEF InFlight
    <3> QED  BY <2>3, <3>1, WidthType, SMT
  <2>5. /\ CountBelow(Stores, m + l) = CountBelow(Stores, l) + CountBelow(PortStores, m)
        /\ CountBelow(Loads, m + l) = CountBelow(Loads, l) + CountBelow(PortLoads, m)
    BY <1>1, <2>3, CountsGrow DEF CountsBehind
  <2>6. ASSUME NEW s \in SqNs, InROB(s)  PROVE Pos(s) < l
    BY <1>1, <2>3, <2>6, PosOfSlot
  <2>7. {s \in SqNs : InROB(s) /\ entries[RobIdx(s)].isSt}
          = {s \in SqNs : InROB(s) /\ Pos(s) < l /\ Pos(s) \in Stores}
    BY <1>1, <2>6, PlaceKind
  <2>8. {s \in SqNs : InROB(s) /\ entries[RobIdx(s)].isLd}
          = {s \in SqNs : InROB(s) /\ Pos(s) < l /\ Pos(s) \in Loads}
    BY <1>1, <2>6, PlaceKind
  <2>9. /\ Cardinality({s \in SqNs : InROB(s) /\ entries[RobIdx(s)].isSt}) = CountBelow(Stores, l)
        /\ Cardinality({s \in SqNs : InROB(s) /\ entries[RobIdx(s)].isLd}) = CountBelow(Loads, l)
    BY <1>1, <2>3, <2>7, <2>8, CountByNumber
  <2>10. ASSUME NEW i  PROVE i \in 0 .. m - 1 <=> i \in Port /\ i < m
    BY WidthType, SMT DEF Port
  <2>11. {i \in Port : rnUOp[i].valid /\ IsSt(rnUOp[i].fu)} = {i \in 0 .. m - 1 : i \in PortStores}
    BY <2>2, <2>10 DEF PortStores
  <2>12. {i \in Port : rnUOp[i].valid /\ IsLd(rnUOp[i].fu)} = {i \in 0 .. m - 1 : i \in PortLoads}
    BY <2>2, <2>10 DEF PortLoads
  <2>13. counterStoreSqN = StoreSqNAfter(m + l) /\ counterLoadSqN = LoadSqNAfter(m + l)
    BY <1>1, <2>1, <2>4 DEF NextNumbers
  <2>14. /\ counterStoreSqN = Plus(storeSqN_r, CountBelow(Stores, l) + CountBelow(PortStores, m))
         /\ counterLoadSqN = Plus(loadSqN_r, CountBelow(Loads, l) + CountBelow(PortLoads, m))
    BY <2>5, <2>13 DEF StoreSqNAfter, LoadSqNAfter
  <2>15. /\ Cardinality({i \in Port : rnUOp[i].valid /\ IsSt(rnUOp[i].fu)}) = CountBelow(PortStores, m)
         /\ Cardinality({i \in Port : rnUOp[i].valid /\ IsLd(rnUOp[i].fu)}) = CountBelow(PortLoads, m)
    BY <2>11, <2>12 DEF CountBelow
  <2> QED  BY <2>9, <2>14, <2>15
<1>4. QED  BY <1>2, <1>3 DEF LsqSqNAgree

\* The numbers of loads and stores that rename hands out ahead and those that the ROB
\* recovers from the instruction stream agree on every uop in flight and on the next
\* number to give, after every redirect and trap (Rename.sv, ROB.sv, TrapHandler.sv,
\* LoadBuffer.sv), for every size of the machine, as long as no store times out or traps
\* in any other way than by ST_FAULT, which nothing else reports (LsqNumbersKept).
THEOREM LsqSqNAgreeCorrect ==
  ASSUME ScNeverTimesOut, LsqNumbersKept
  PROVE  Spec => []LsqSqNAgree
<1>1. Init => LsqInv  BY InitLsq
<1>2. LsqInv /\ [Next]_vars => LsqInv'  BY NextLsq, NextIsAny
<1>3. LsqInv => LsqSqNAgree  BY LsqInvAgrees
<1>4. QED  BY <1>1, <1>2, <1>3, PTL DEF Spec

=============================================================================
