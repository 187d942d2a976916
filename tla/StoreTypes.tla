---------------------------- MODULE StoreTypes ----------------------------
(***************************************************************************)
(* What stores are made of once they have left the store queue             *)
(* (src/src/Include.sv).  An address is a block (the AXI_WIDTH bits that   *)
(* one cache write covers), a word in it, and the bytes of the word that   *)
(* the write mask selects.  A management operation (cbo.clean, cbo.flush)  *)
(* is a store with an empty write mask.                                    *)
(***************************************************************************)
EXTENDS Integers, Sequences

CONSTANTS
  Blocks,     \* block addresses
  MMIO,       \* the blocks for which IS_MMIO_PMA holds
  ExtMMIO,    \* those of them that are reached over the external bus
  LineOf,     \* the cache line a block belongs to
  NumWords,   \* AXI_WIDTH / 32
  Bytes,      \* byte positions in a word
  Vals,       \* what a program may store in a byte
  OpByte,     \* a byte of the opcode a management operation carries as data
  NoByte,     \* a byte position the write mask leaves out
  NoStore     \* an SQ_UOp that is not valid

Words == 0 .. NumWords - 1
Lanes == Words \X Bytes
Byte  == Vals \cup {OpByte}

ASSUME StoreTypesAssumption ==
  /\ MMIO \subseteq Blocks
  /\ ExtMMIO \subseteq MMIO
  /\ NumWords \in Nat \ {0}
  /\ OpByte \notin Vals
  /\ NoByte \notin Byte

\* A store as the store queue hands it over; every selected byte is val.
SQ_UOp == [block : Blocks, word : Words, wmask : SUBSET Bytes, val : Vals]

ASSUME NoStoreAssumption == NoStore \notin SQ_UOp

IsMMIO(u) == u.block \in MMIO
IsMgmt(u) == u.wmask = {}

(***************************************************************************)
(* A block of write data together with its mask: the bytes to write, and   *)
(* NoByte elsewhere.                                                       *)
(***************************************************************************)
Image   == [Lanes -> Byte \cup {NoByte}]
NoBytes == [l \in Lanes |-> NoByte]

\* The bytes of a store, aligned for the word at position w.
ImageAt(u, w) ==
  [l \in Lanes |-> IF l[1] = w /\ l[2] \in u.wmask THEN u.val ELSE NoByte]

\* The bytes of new on top of those of old; old may be an image or memory.
Over(new, old) == [l \in Lanes |-> IF new[l] = NoByte THEN old[l] ELSE new[l]]

\* The contents of memory, by block.
Memory == [Blocks -> [Lanes -> Byte]]

\* Memory after store u.
Apply(mem, u) == [mem EXCEPT ![u.block] = Over(ImageAt(u, u.word), @)]

=============================================================================
