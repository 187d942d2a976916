-------------------------------- MODULE SqN --------------------------------
(***************************************************************************)
(* Sequence numbers (SqN, src/src/Include.sv).  An instruction in flight   *)
(* is named by a number that is one bit longer than an index into the      *)
(* reorder buffer, so that two's complement subtraction orders any two     *)
(* instructions whose distance is below the size of the buffer.  The same  *)
(* type numbers loads and stores.                                          *)
(*                                                                         *)
(* The wrap-around is written with one conditional correction instead of   *)
(* the modulus: it is the same function on this range, and it is linear.   *)
(***************************************************************************)
EXTENDS Integers

CONSTANT ROBSize      \* 1 << ROB_SIZE_EXP, the number of ROB entries

ASSUME ROBSizeAssumption == ROBSize \in Nat \ {0, 1}

\* The ring of sequence numbers: ROB_SIZE_EXP + 1 bits.
Ring  == 2 * ROBSize
SqNs  == 0 .. Ring - 1

\* a + n and a - n on SqN operands, for 0 <= n <= Ring.
Plus(a, n)  == IF a + n >= Ring THEN a + n - Ring ELSE a + n
Minus(a, n) == IF a - n < 0 THEN a - n + Ring ELSE a - n

\* $signed(a - b): the difference as a two's complement number.
Diff(a, b) ==
  LET d == a - b
  IN  IF d >= ROBSize THEN d - Ring ELSE IF d < - ROBSize THEN d + Ring ELSE d

\* The low bits of a sequence number index the reorder buffer.
RobIdxs    == 0 .. ROBSize - 1
RobIdx(s)  == IF s >= ROBSize THEN s - ROBSize ELSE s

=============================================================================
