----------------------------- MODULE BitVector -----------------------------
(***************************************************************************)
(* src/sim/sc_stub.hpp: bit vectors kept in words of 64 bits, as the       *)
(* testbench uses them to take structs apart.  A word is the set of its    *)
(* bits, memory the set of the numbers of its bits.                        *)
(***************************************************************************)
EXTENDS Integers

Word == SUBSET (0 .. 63)

ShiftRight(w, n) == {b \in 0 .. 63 : b + n \in w}
ShiftLeft(w, n)  == {b \in 0 .. 63 : b - n \in w}

\* The number of words of an sc_bv<len>, as an index set.
WordIdx(len) == 0 .. (len + 63) \div 64 - 1

\* Bit k of a vector of words.
Bit(data, k) == k % 64 \in data[k \div 64]

\* range_t::to_uint64: bits low .. low + len - 1.
\* Fault: a range that reaches into the next word is cut off.
ToUint64InWord(data, low, len) ==
  {b \in ShiftRight(data[low \div 64], low % 64) : b < len}

ToUint64(data, low, len) ==
  LET acc  == ShiftRight(data[low \div 64], low % 64)
      both == IF (low % 64) + len > 64
              THEN acc \cup ShiftLeft(data[low \div 64 + 1], 64 - (low % 64)) ELSE acc
  IN  {b \in both : b < len}

\* sc_bv(init, start): len bits of memory mem, from bit start on.  The bytes are copied
\* first and shifted in place then.
Copied(mem, len, start) ==
  LET bytes == (len + 7 + (start % 8)) \div 8
  IN  [i \in WordIdx(len) |->
         {b \in 0 .. 63 : /\ 64 * i + b < 8 * bytes
                          /\ 8 * (start \div 8) + 64 * i + b \in mem}]

ScBv(mem, len, start) ==
  LET data == Copied(mem, len, start)
      off  == start % 8
  IN  IF off = 0 THEN data
      ELSE [i \in WordIdx(len) |->
              ShiftRight(data[i], off) \cup
              (IF i + 1 \in WordIdx(len) THEN ShiftLeft(data[i + 1], 64 - off) ELSE {})]

\* The memory the words occupy.
AsMemory(data, len) == {k \in 0 .. 64 * ((len + 63) \div 64) - 1 : Bit(data, k)}

\* Nothing of the vector is shifted out at its upper end.
Fits(len, start) == len + (start % 8) <= 64 * ((len + 63) \div 64)

=============================================================================
