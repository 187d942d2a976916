---------------------------- MODULE WiresProofs ----------------------------
(***************************************************************************)
(* What the testbench finds in the wires is what the core drives: first    *)
(* what bit vectors return, for vectors and ranges of every length, then   *)
(* where the fields of a packed struct are, and that the header says so.   *)
(***************************************************************************)
EXTENDS Wires, NatProofs

-----------------------------------------------------------------------------
(* Bit vectors.                                                            *)

\* A position is a word and a bit of it.
LEMMA Position ==
  ASSUME NEW k \in Nat
  PROVE  /\ k \div 64 \in Nat /\ k % 64 \in 0 .. 63
         /\ k = 64 * (k \div 64) + (k % 64)
  BY SMT

\* The position b places after another one, in the same word or in the next.
LEMMA PositionPlus ==
  ASSUME NEW k \in Nat, NEW b \in 0 .. 63
  PROVE  /\ (k % 64) + b < 64 => /\ (k + b) \div 64 = k \div 64
                               /\ (k + b) % 64 = (k % 64) + b
         /\ (k % 64) + b >= 64 => /\ (k + b) \div 64 = k \div 64 + 1
                                /\ (k + b) % 64 = (k % 64) + b - 64
  BY SMT

\* The bits of a vector from low on, as a number.
BitsFrom(data, low, len) == {b \in 0 .. len - 1 : Bit(data, low + b)}

\* A range of at most 64 bits is read as it stands in the words, wherever it begins, also
\* if it reaches into the next word (range_t::to_uint64).
THEOREM RangeIsRead ==
  ASSUME NEW data, NEW size \in Nat, \A i \in WordIdx(size) : data[i] \in Word,
         NEW low \in Nat, NEW len \in 0 .. 64, low + len <= size
  PROVE  ToUint64(data, low, len) = BitsFrom(data, low, len)
<1> DEFINE i == low \div 64
           o == low % 64
           acc == ShiftRight(data[i], o)
           next == ShiftLeft(data[i + 1], 64 - o)
<1>1. i \in Nat /\ o \in 0 .. 63 /\ low = 64 * i + o
  BY Position
<1>2. ASSUME NEW b \in 0 .. len - 1
      PROVE  data[i] \subseteq 0 .. 63 /\ (o + len > 64 => data[i + 1] \subseteq 0 .. 63)
  <2> HIDE DEF i, o
  <2>1. i \in WordIdx(size) /\ (o + len > 64 => i + 1 \in WordIdx(size))
    BY <1>1, SMT DEF WordIdx
  <2> QED  BY <2>1 DEF Word
<1>3. ASSUME NEW b \in 0 .. 63
      PROVE  /\ b \in acc <=> b + o \in data[i]
             /\ b \in next <=> b - (64 - o) \in data[i + 1]
  BY DEF ShiftRight, ShiftLeft
<1>4. acc \subseteq 0 .. 63 /\ next \subseteq 0 .. 63
  BY DEF ShiftRight, ShiftLeft
<1>5. ASSUME NEW b \in 0 .. len - 1
      PROVE  b \in (IF o + len > 64 THEN acc \cup next ELSE acc) <=> Bit(data, low + b)
  <2>1. b \in 0 .. 63  BY SMT
  <2>2. CASE o + b < 64
    <3>1. Bit(data, low + b) <=> o + b \in data[i]
      BY <2>1, <2>2, PositionPlus DEF Bit
    <3>2. b - (64 - o) \notin 0 .. 63  BY <1>1, <2>1, <2>2, SMT
    <3>3. o + len > 64 => b \notin next  BY <1>2, <1>3, <2>1, <3>2
    <3>4. b + o = o + b  BY <1>1, <2>1, SMT
    <3> QED  BY <1>3, <2>1, <3>1, <3>3, <3>4
  <2>3. CASE o + b >= 64
    <3>1. Bit(data, low + b) <=> o + b - 64 \in data[i + 1]
      BY <2>1, <2>3, PositionPlus DEF Bit
    <3>2. b - (64 - o) = o + b - 64 /\ o + len > 64 /\ b + o \notin 0 .. 63
      BY <1>1, <2>1, <2>3, SMT
    <3> QED  BY <1>2, <1>3, <2>1, <3>1, <3>2
  <2>4. o + b < 64 \/ o + b >= 64  BY <1>1, <2>1, SMT
  <2> QED  BY <2>2, <2>3, <2>4
<1>6. ToUint64(data, low, len) = {b \in (IF o + len > 64 THEN acc \cup next ELSE acc) : b < len}
  BY DEF ToUint64
<1>7. ASSUME NEW b, b \in (IF o + len > 64 THEN acc \cup next ELSE acc), b < len
      PROVE  b \in 0 .. len - 1
  <2>1. b \in 0 .. 63  BY <1>4, <1>7
  <2> QED  BY <1>7, <2>1, SMT
<1>8. ASSUME NEW b \in 0 .. len - 1  PROVE b < len
  BY SMT
<1> HIDE DEF acc, next, o, i
<1>9. QED  BY <1>5, <1>6, <1>7, <1>8 DEF BitsFrom

\* The same for the bytes of memory and the words that lie over them.
LEMMA BytePosition ==
  ASSUME NEW k \in Nat
  PROVE  k \div 8 \in Nat /\ k % 8 \in 0 .. 7 /\ k = 8 * (k \div 8) + (k % 8)
  BY SMT

\* The words of a vector: those of its bits, also of the bits that are shifted down
\* from the next word if nothing of it was cut off.
LEMMA WordOfBit ==
  ASSUME NEW len \in Nat, NEW k \in 0 .. len - 1
  PROVE  k \div 64 \in WordIdx(len)
  BY SMT DEF WordIdx

LEMMA WordOfShifted ==
  ASSUME NEW len \in Nat, NEW start \in Nat, Fits(len, start),
         NEW k \in 0 .. len - 1
  PROVE  (k + (start % 8)) \div 64 \in WordIdx(len)
  BY BytePosition, SMT DEF WordIdx, Fits

\* What was copied covers the bits that are shifted into place.
LEMMA CopiedBit ==
  ASSUME NEW mem, NEW len \in Nat, NEW start \in Nat, NEW i \in WordIdx(len), NEW b \in 0 .. 63,
         64 * i + b < len + (start % 8)
  PROVE  b \in Copied(mem, len, start)[i] <=> 8 * (start \div 8) + 64 * i + b \in mem
<1>1. i \in Nat  BY SMT DEF WordIdx
<1>2. 64 * i + b < 8 * ((len + 7 + (start % 8)) \div 8)
  BY <1>1, BytePosition, SMT
<1>3. QED  BY <1>2 DEF Copied

\* A vector holds the bits of memory it was made of, wherever they begin, as long as
\* nothing is shifted out at its upper end (sc_bv(init, start), shift in sc_stub.hpp).
THEOREM VectorIsCopied ==
  ASSUME NEW mem, NEW len \in Nat, NEW start \in Nat, Fits(len, start),
         NEW k \in 0 .. len - 1
  PROVE  Bit(ScBv(mem, len, start), k) <=> start + k \in mem
<1> DEFINE off == start % 8
           i == k \div 64
           b == k % 64
           data == Copied(mem, len, start)
<1>1. /\ off \in 0 .. 7 /\ start = 8 * (start \div 8) + off /\ start \div 8 \in Nat
      /\ i \in Nat /\ b \in 0 .. 63 /\ k = 64 * i + b /\ k \in Nat
  <2>1. k \in Nat  BY SMT
  <2> QED  BY <2>1, Position, BytePosition
<1>2. i \in WordIdx(len)  BY WordOfBit
<1> HIDE DEF off, i, b, data
<1>3. Bit(ScBv(mem, len, start), k) <=> b \in ScBv(mem, len, start)[i]
  BY DEF Bit, i, b
<1>4. CASE off = 0
  <2>1. ScBv(mem, len, start) = data  BY <1>4 DEF ScBv, off, data
  <2>2. 64 * i + b < len + (start % 8)  BY <1>1, <1>4, SMT DEF off
  <2>3. b \in data[i] <=> 8 * (start \div 8) + 64 * i + b \in mem
    BY <1>1, <1>2, <2>2, CopiedBit DEF data
  <2>4. 8 * (start \div 8) + 64 * i + b = start + k  BY <1>1, <1>4, SMT
  <2> QED  BY <1>3, <2>1, <2>3, <2>4
<1>5. CASE off # 0
  <2> DEFINE next == IF i + 1 \in WordIdx(len) THEN ShiftLeft(data[i + 1], 64 - off) ELSE {}
  <2>1. ScBv(mem, len, start)[i] = ShiftRight(data[i], off) \cup next
    BY <1>2, <1>5 DEF ScBv, off, data
  <2>2. data[i] \subseteq 0 .. 63  BY <1>2 DEF data, Copied
  <2>3. CASE b + off < 64
    <3>1. b + off \in 0 .. 63 /\ 64 * i + (b + off) < len + (start % 8)
      BY <1>1, <2>3, SMT DEF off
    <3>2. b + off \in data[i] <=> 8 * (start \div 8) + 64 * i + (b + off) \in mem
      BY <1>2, <3>1, CopiedBit DEF data
    <3>3. 8 * (start \div 8) + 64 * i + (b + off) = start + k  BY <1>1, SMT
    <3>4. b \in ShiftRight(data[i], off) <=> start + k \in mem
      BY <1>1, <3>2, <3>3 DEF ShiftRight
    <3>5. b \notin next
      <4>1. b - (64 - off) \notin 0 .. 63  BY <1>1, <2>3, SMT
      <4>2. i + 1 \in WordIdx(len) => data[i + 1] \subseteq 0 .. 63  BY DEF data, Copied
      <4> QED  BY <4>1, <4>2 DEF ShiftLeft
    <3> HIDE DEF next
    <3> QED  BY <1>3, <2>1, <3>4, <3>5
  <2>4. CASE b + off >= 64
    <3>1. b \notin ShiftRight(data[i], off)
      <4>1. b + off \notin 0 .. 63  BY <1>1, <2>4, SMT
      <4> QED  BY <2>2, <4>1 DEF ShiftRight
    <3>2. (k + off) \div 64 = i + 1
      BY <1>1, <2>4, SMT
    <3>3. i + 1 \in WordIdx(len)  BY <3>2, WordOfShifted DEF off
    <3>4. /\ b - (64 - off) \in 0 .. 63
          /\ 64 * (i + 1) + (b - (64 - off)) < len + (start % 8)
          /\ 8 * (start \div 8) + 64 * (i + 1) + (b - (64 - off)) = start + k
      BY <1>1, <2>4, SMT DEF off
    <3>5. b - (64 - off) \in data[i + 1] <=> start + k \in mem
      BY <3>3, <3>4, CopiedBit DEF data
    <3>6. b \in next <=> start + k \in mem
      BY <1>1, <3>3, <3>5 DEF ShiftLeft
    <3> HIDE DEF next
    <3> QED  BY <1>3, <2>1, <3>1, <3>6
  <2>5. b + off < 64 \/ b + off >= 64  BY <1>1, SMT
  <2> QED  BY <2>3, <2>4, <2>5
<1>6. QED  BY <1>4, <1>5

\* The words of such a copy.
LEMMA CopyIsWords ==
  ASSUME NEW mem, NEW len \in Nat, NEW start \in Nat
  PROVE  \A i \in WordIdx(len) : ScBv(mem, len, start)[i] \in Word
  BY DEF ScBv, Copied, ShiftRight, ShiftLeft, Word

\* A field of at most 64 bits of a struct that is itself a field of a vector is what
\* memory holds at its place: the range that the constructor of the inner struct reads
\* from a copy agrees with the range read from the outer one.
THEOREM NestedFieldIsRead ==
  ASSUME NEW mem, NEW len \in Nat, NEW start \in Nat, Fits(len, start),
         NEW low \in Nat, NEW w \in 0 .. 64, low + w <= len
  PROVE  ToUint64(ScBv(mem, len, start), low, w) = {b \in 0 .. w - 1 : start + low + b \in mem}
<1> DEFINE data == ScBv(mem, len, start)
<1>1. ToUint64(data, low, w) = BitsFrom(data, low, w)
  BY CopyIsWords, RangeIsRead
<1>2. ASSUME NEW b \in 0 .. w - 1
      PROVE  Bit(data, low + b) <=> start + low + b \in mem
  <2>1. low + b \in 0 .. len - 1 /\ start + (low + b) = start + low + b  BY SMT
  <2> QED  BY <2>1, VectorIsCopied
<1>3. QED  BY <1>1, <1>2 DEF BitsFrom

\* Words that hold at least size bits.
IsWords(data, size) == \A i \in WordIdx(size) : data[i] \in Word

\* A field whose bits are all there; a wide one is copied without loss.
IsField(f, size) ==
  /\ f.s \in Nat /\ f.w \in Nat \ {0} /\ f.s + f.w <= size
  /\ f.w > 64 => Fits(f.w, f.s)

\* A constructor reads from the words the bits of the field.
LEMMA FieldIsRead ==
  ASSUME NEW data, NEW size \in Nat, IsWords(data, size), NEW f, IsField(f, size)
  PROVE  ReadField(data, f) = BitsFrom(data, f.s, f.w)
<1>1. f.s \in Nat /\ f.w \in Nat /\ f.s + f.w <= size
  BY DEF IsField
<1>2. CASE f.w <= 64
  <2>1. f.w \in 0 .. 64  BY <1>1, <1>2, SMT
  <2>2. ToUint64(data, f.s, f.w) = BitsFrom(data, f.s, f.w)
    BY <1>1, <2>1, RangeIsRead DEF IsWords
  <2> QED  BY <1>2, <2>2 DEF ReadField
<1>3. CASE ~(f.w <= 64)
  <2> DEFINE mem == AsMemory(data, f.s + f.w)
  <2>1. Fits(f.w, f.s)  BY <1>1, <1>3, SMT DEF IsField
  <2>2. ASSUME NEW k \in 0 .. f.w - 1
        PROVE  Bit(ScBv(mem, f.w, f.s), k) <=> Bit(data, f.s + k)
    <3>1. Bit(ScBv(mem, f.w, f.s), k) <=> f.s + k \in mem
      BY <1>1, <2>1, VectorIsCopied
    <3>2. f.s + k \in 0 .. 64 * ((f.s + f.w + 63) \div 64) - 1
      <4> DEFINE n == f.s + f.w
      <4>1. n \in Nat /\ f.s + k \in 0 .. n - 1  BY <1>1, SMT
      <4> HIDE DEF n
      <4>2. n <= 64 * ((n + 63) \div 64)  BY <4>1, SMT
      <4>3. f.s + k \in 0 .. 64 * ((n + 63) \div 64) - 1  BY <4>1, <4>2, SMT
      <4> QED  BY <4>3 DEF n
    <3> QED  BY <3>1, <3>2 DEF AsMemory
  <2> QED  BY <1>3, <2>2 DEF ReadField, BitsFrom
<1>4. QED  BY <1>2, <1>3

\* So do the words from which a struct in a struct is made.
LEMMA NestedIsRead ==
  ASSUME NEW data, NEW size \in Nat, IsWords(data, size), NEW f, IsField(f, size)
  PROVE  /\ IsWords(NestedWords(data, f), f.w)
         /\ \A k \in 0 .. f.w - 1 : Bit(NestedWords(data, f), k) <=> Bit(data, f.s + k)
<1>1. f.s \in Nat /\ f.w \in Nat \ {0} /\ f.w \in Nat /\ f.s + f.w <= size
  BY DEF IsField
<1>2. CASE f.w <= 64
  <2> DEFINE word == ToUint64(data, f.s, f.w)
  <2>1. f.w \in 0 .. 64  BY <1>1, <1>2, SMT
  <2>2. word = BitsFrom(data, f.s, f.w)
    BY <1>1, <2>1, RangeIsRead DEF IsWords
  <2>3. NestedWords(data, f) = [i \in {0} |-> word]
    BY <1>2 DEF NestedWords
  <2>4. WordIdx(f.w) = {0}  BY <1>1, <1>2, SMT DEF WordIdx
  <2> HIDE DEF word
  <2>5. word \in Word
    <3>1. \A b \in 0 .. f.w - 1 : b \in 0 .. 63  BY <1>1, <1>2, SMT
    <3> QED  BY <2>2, <3>1 DEF BitsFrom, Word
  <2>6. ASSUME NEW k \in 0 .. f.w - 1
        PROVE  Bit([i \in {0} |-> word], k) <=> Bit(data, f.s + k)
    <3>1. k \div 64 = 0 /\ k % 64 = k  BY <1>1, <1>2, SMT
    <3>2. Bit([i \in {0} |-> word], k) <=> k \in word  BY <3>1 DEF Bit
    <3> QED  BY <2>2, <3>2 DEF BitsFrom
  <2> QED  BY <2>3, <2>4, <2>5, <2>6 DEF IsWords
<1>3. CASE ~(f.w <= 64)
  <2>1. ReadField(data, f) = BitsFrom(data, f.s, f.w)  BY FieldIsRead
  <2>2. ReadField(data, f) = {k \in 0 .. f.w - 1 : Bit(NestedWords(data, f), k)}
    BY <1>3 DEF ReadField, NestedWords
  <2>3. NestedWords(data, f) = ScBv(AsMemory(data, f.s + f.w), f.w, f.s)
    BY <1>3 DEF NestedWords
  <2>4. IsWords(NestedWords(data, f), f.w)
    BY <1>1, <2>3, CopyIsWords DEF IsWords
  <2> QED  BY <2>1, <2>2, <2>4 DEF BitsFrom
<1>4. QED  BY <1>2, <1>3

-----------------------------------------------------------------------------
(* Positions: sums of widths.                                              *)

\* A field begins where the one below it ends.
LEMMA LowIs ==
  ASSUME NEW w, Len(w) \in Nat
  PROVE  /\ RTL!Low(w, 1) = 0
         /\ \A j \in 1 .. Len(w) : RTL!Low(w, j + 1) = RTL!Low(w, j) + w[j]
<1> PICK n \in Nat : n = Len(w)  OBVIOUS
<1> DEFINE IsLow(f) == f = [j \in 1 .. n + 1 |-> IF j = 1 THEN 0 ELSE f[j - 1] + w[j - 1]]
           low == CHOOSE f : IsLow(f)
<1>1. IsLow(low)
  <2>1. \E f : IsLow(f)  BY SumsExist
  <2> HIDE DEF IsLow
  <2> QED  BY <2>1
<1>2. \A j : RTL!Low(w, j) = low[j]  BY DEF RTL!Low
<1>3. \A j \in 1 .. n + 1 : low[j] = IF j = 1 THEN 0 ELSE low[j - 1] + w[j - 1]
  <2> HIDE DEF low
  <2> QED  BY <1>1
<1> HIDE DEF low
<1>4. 1 \in 1 .. n + 1  BY SMT
<1>5. \A j \in 1 .. n : j + 1 \in 1 .. n + 1 /\ j + 1 # 1 /\ j + 1 - 1 = j  BY SMT
<1>6. QED  BY <1>2, <1>3, <1>4, <1>5

\* Positions grow with the number of the field.
LEMMA LowGrows ==
  ASSUME NEW w, Len(w) \in Nat, \A j \in 1 .. Len(w) : w[j] \in Nat,
         NEW i \in 1 .. Len(w) + 1, NEW j \in i .. Len(w) + 1
  PROVE  RTL!Low(w, i) \in Nat /\ RTL!Low(w, j) \in Nat /\ RTL!Low(w, i) <= RTL!Low(w, j)
<1> PICK m \in Nat : m = Len(w)  OBVIOUS
<1> PICK z : z = m + 1 /\ z \in Int /\ 1 \in Int /\ z - 1 = m /\ 1 \in 1 .. z /\ i \in Int  BY SMT
<1> DEFINE st(x) == RTL!Low(w, x)
<1>1. st(1) = 0 /\ \A x \in 1 .. m : st(x + 1) = st(x) + w[x]  BY LowIs
<1> HIDE DEF st
<1>2. ASSUME NEW x \in 1 .. m, st(x) \in Nat
      PROVE  x + 1 \in 1 .. z /\ st(x + 1) \in Nat /\ st(x) <= st(x + 1)
  <2>1. x + 1 \in 1 .. z /\ st(x + 1) = st(x) + w[x] /\ w[x] \in Nat  BY <1>1, SMT
  <2> QED  BY <1>2, <2>1, SMT
<1>3. \A x \in 1 .. z : st(x) \in Nat
  <2> DEFINE T == {x \in 1 .. z : st(x) \in Nat}
  <2>1. ASSUME NEW x \in 1 .. z - 1, x \in T  PROVE x + 1 \in T
    BY <1>2, <2>1
  <2>2. 1 \in T  BY <1>1
  <2>3. 1 .. z \subseteq T
    <3> HIDE DEF T
    <3> QED  BY <2>1, <2>2, Upward
  <2> QED  BY <2>3
<1>4. \A x \in i .. z : st(i) <= st(x)
  <2> DEFINE T == {x \in i .. z : st(i) <= st(x)}
  <2>0. i \in 1 .. z /\ i \in i .. z  BY SMT
  <2>1. ASSUME NEW x \in i .. z - 1, x \in T  PROVE x + 1 \in T
    <3>1. x \in i .. z /\ x \in 1 .. m /\ x \in 1 .. z /\ x + 1 \in i .. z  BY <2>0, SMT
    <3>2. st(x) \in Nat /\ st(i) \in Nat  BY <1>3, <2>0, <3>1
    <3>3. st(x + 1) \in Nat /\ st(x) <= st(x + 1)  BY <1>2, <3>1, <3>2
    <3>4. st(i) <= st(x)  BY <2>1
    <3>5. st(i) <= st(x + 1)  BY <3>2, <3>3, <3>4, SMT
    <3> QED  BY <3>1, <3>5
  <2>2. i \in T
    <3>1. st(i) \in Nat  BY <1>3, <2>0
    <3> QED  BY <2>0, <3>1, SMT
  <2>3. i .. z \subseteq T
    <3> HIDE DEF T
    <3> QED  BY <2>1, <2>2, Upward
  <2> QED  BY <2>3
<1>5. j \in i .. z /\ i \in 1 .. z /\ j \in 1 .. z  BY SMT
<1>6. QED  BY <1>3, <1>4, <1>5 DEF st

\* Different fields have no bit in common.
LEMMA FieldsApart ==
  ASSUME NEW w, Len(w) \in Nat, \A j \in 1 .. Len(w) : w[j] \in Nat,
         NEW i \in 1 .. Len(w), NEW j \in 1 .. Len(w), NEW x \in 0 .. w[i] - 1, NEW y \in 0 .. w[j] - 1,
         RTL!Low(w, i) + x = RTL!Low(w, j) + y
  PROVE  i = j /\ x = y
<1> PICK m \in Nat : m = Len(w)  OBVIOUS
<1> DEFINE st(k) == RTL!Low(w, k)
<1>1. ASSUME NEW k \in 1 .. m, NEW l \in k + 1 .. m
      PROVE  st(k) \in Nat /\ st(l) \in Nat /\ st(k) + w[k] <= st(l)
  <2>1. k + 1 \in 1 .. m + 1 /\ l \in k + 1 .. m + 1 /\ l \in 1 .. m + 1 /\ k \in 1 .. m + 1
    BY SMT
  <2>2. k \in k .. m + 1  BY SMT
  <2>3. st(k) \in Nat  BY <2>1, <2>2, LowGrows
  <2>4. st(l) \in Nat /\ st(k + 1) <= st(l)  BY <2>1, LowGrows
  <2>5. st(k + 1) = st(k) + w[k]  BY LowIs
  <2> QED  BY <2>3, <2>4, <2>5
<1>2. w[i] \in Nat /\ w[j] \in Nat /\ i \in Int /\ j \in Int  OBVIOUS
<1>3. st(i) \in Nat /\ st(j) \in Nat /\ st(i) + x = st(j) + y
  <2>1. i \in 1 .. m + 1 /\ j \in 1 .. m + 1 /\ i \in i .. m + 1 /\ j \in j .. m + 1  BY SMT
  <2> QED  BY <2>1, LowGrows
<1> HIDE DEF st
<1>4. ~(i < j)
  <2> SUFFICES ASSUME i < j  PROVE FALSE  OBVIOUS
  <2>1. j \in i + 1 .. m  BY SMT
  <2>2. st(i) + w[i] <= st(j)  BY <1>1, <2>1
  <2> QED  BY <1>2, <1>3, <2>2, SMT
<1>5. ~(j < i)
  <2> SUFFICES ASSUME j < i  PROVE FALSE  OBVIOUS
  <2>1. i \in j + 1 .. m  BY SMT
  <2>2. st(j) + w[j] <= st(i)  BY <1>1, <2>1
  <2> QED  BY <1>2, <1>3, <2>2, SMT
<1>6. i = j  BY <1>2, <1>4, <1>5, SMT
<1>7. QED  BY <1>3, <1>6, SMT

-----------------------------------------------------------------------------
(* A struct on the wires.                                                  *)

\* The number of fields of a struct, and the places of a field.
Count(t) == Len(RTL!SVStructs[t])
PlacesAt(t, j) ==
  IF RTL!IsSub(RTL!Field(t, j))
  THEN {RTL!SubPlace(t, j, RTL!Field(t, j).t, i) : i \in 1 .. Count(RTL!Field(t, j).t)}
  ELSE {RTL!Place(t, j)}

\* All fields have widths, also those of the structs in the struct.
IsSized(t) ==
  /\ Count(t) \in Nat /\ \A j \in 1 .. Count(t) : RTL!Widths(t)[j] \in Nat
  /\ \A j \in 1 .. Count(t) : RTL!IsSub(RTL!Field(t, j)) =>
       LET u == RTL!Field(t, j).t
       IN  Count(u) \in Nat /\ \A i \in 1 .. Count(u) : RTL!InnerWidths(u)[i] \in Nat

\* The values of all fields fit into their places.
IsValue(t, v) == \A p \in RTL!Places(t) : v[p[1]] \subseteq 0 .. p[2].w - 1

LEMMA WidthsLen ==
  ASSUME NEW t, Count(t) \in Nat
  PROVE  Len(RTL!Widths(t)) = Count(t) /\ Len(RTL!InnerWidths(t)) = Count(t)
<1>1. \A f, n : n \in Nat /\ f = [j \in 1 .. n |-> f[j]] => Len(f) = n  BY SMT
<1>2. RTL!Widths(t) = [j \in 1 .. Count(t) |-> RTL!Widths(t)[j]]
  BY DEF RTL!Widths, Count
<1>3. RTL!InnerWidths(t) = [j \in 1 .. Count(t) |-> RTL!InnerWidths(t)[j]]
  BY DEF RTL!InnerWidths, Count
<1>4. QED  BY <1>1, <1>2, <1>3

\* The place of a field is made of its position and its width.
LEMMA PlaceParts ==
  ASSUME NEW t, NEW j
  PROVE  /\ RTL!Place(t, j)[1] = <<RTL!Field(t, j).name>>
         /\ RTL!Place(t, j)[2].low = RTL!Low(RTL!Widths(t), j)
         /\ RTL!Place(t, j)[2].w = RTL!Widths(t)[j]
         /\ RTL!Place(t, j)[2].t = RTL!Field(t, j).t
  BY DEF RTL!Place

LEMMA SubPlaceParts ==
  ASSUME NEW t, NEW j, NEW u, NEW i
  PROVE  /\ RTL!SubPlace(t, j, u, i)[1] = <<RTL!Field(t, j).name, RTL!Field(u, i).name>>
         /\ RTL!SubPlace(t, j, u, i)[2].low = RTL!Low(RTL!Widths(t), j) + RTL!Low(RTL!InnerWidths(u), i)
         /\ RTL!SubPlace(t, j, u, i)[2].w = RTL!InnerWidths(u)[i]
         /\ RTL!SubPlace(t, j, u, i)[2].t = RTL!Field(u, i).t
  BY DEF RTL!SubPlace

LEMMA PlacesAre ==
  ASSUME NEW t
  PROVE  RTL!Places(t) = UNION {PlacesAt(t, j) : j \in 1 .. Count(t)}
  BY DEF RTL!Places, PlacesAt, Count

\* The fields of a struct in a struct fill the place of that struct.
LEMMA SubWidth ==
  ASSUME NEW t, IsSized(t), NEW j \in 1 .. Count(t), RTL!IsSub(RTL!Field(t, j)),
         NEW i \in 1 .. Count(RTL!Field(t, j).t)
  PROVE  LET w == RTL!InnerWidths(RTL!Field(t, j).t)
         IN  /\ w[i] \in Nat /\ RTL!Low(w, i) \in Nat
             /\ RTL!Low(w, i) + w[i] <= RTL!Widths(t)[j]
<1> DEFINE u == RTL!Field(t, j).t
           w == RTL!InnerWidths(u)
           low(x) == RTL!Low(w, x)
<1> PICK m \in Nat : m = Count(u)  BY DEF IsSized
<1>1. Len(w) = m /\ (\A x \in 1 .. m : w[x] \in Nat)
  BY WidthsLen DEF IsSized
<1>2. RTL!Widths(t)[j] = low(m + 1)
  <2>1. RTL!Widths(t)[j] = 1 * low(m + 1)
    BY DEF RTL!Widths, RTL!TypeWidth, RTL!IsSub, Count
  <2>2. m + 1 \in 1 .. m + 1 /\ 1 \in 1 .. m + 1 /\ m + 1 \in 1 .. m + 1  BY SMT
  <2>3. low(m + 1) \in Nat
    <3> HIDE DEF w, u
    <3> QED  BY <1>1, <2>2, LowGrows
  <2> QED  BY <2>1, <2>3, SMT
<1>3. i + 1 \in 1 .. m + 1 /\ m + 1 \in i + 1 .. m + 1 /\ i \in 1 .. m + 1 /\ i \in i .. m + 1
      /\ i \in 1 .. m
  BY SMT
<1>4. low(i) \in Nat /\ low(m + 1) \in Nat /\ low(i + 1) <= low(m + 1) /\ low(i + 1) = low(i) + w[i]
  <2> HIDE DEF w, u
  <2>1. low(i + 1) <= low(m + 1) /\ low(m + 1) \in Nat  BY <1>1, <1>3, LowGrows
  <2>2. low(i) \in Nat  BY <1>1, <1>3, LowGrows
  <2>3. low(i + 1) = low(i) + w[i]  BY <1>1, <1>3, LowIs
  <2> QED  BY <2>1, <2>2, <2>3
<1>5. w[i] \in Nat  BY <1>1
<1> HIDE DEF low, w, u
<1>6. low(i) + w[i] <= RTL!Widths(t)[j]  BY <1>2, <1>4
<1>7. QED  BY <1>4, <1>5, <1>6 DEF low, w, u

\* A place of a field lies inside of the field.
LEMMA PlaceInside ==
  ASSUME NEW t, IsSized(t), NEW j \in 1 .. Count(t), NEW p \in PlacesAt(t, j)
  PROVE  /\ p[2].w \in Nat /\ p[2].low \in Nat /\ RTL!Low(RTL!Widths(t), j) \in Nat
         /\ RTL!Widths(t)[j] \in Nat
         /\ p[2].low >= RTL!Low(RTL!Widths(t), j)
         /\ p[2].low + p[2].w <= RTL!Low(RTL!Widths(t), j) + RTL!Widths(t)[j]
<1> PICK n \in Nat : n = Count(t)  BY DEF IsSized
<1>1. RTL!Low(RTL!Widths(t), j) \in Nat /\ RTL!Widths(t)[j] \in Nat
  <2>1. j \in 1 .. n + 1 /\ j \in j .. n + 1  BY SMT
  <2>2. Len(RTL!Widths(t)) = n /\ \A x \in 1 .. n : RTL!Widths(t)[x] \in Nat
    BY WidthsLen DEF IsSized
  <2> QED  BY <2>1, <2>2, LowGrows
<1>2. CASE RTL!IsSub(RTL!Field(t, j))
  <2>1. PICK i \in 1 .. Count(RTL!Field(t, j).t) : p = RTL!SubPlace(t, j, RTL!Field(t, j).t, i)
    BY <1>2 DEF PlacesAt
  <2> DEFINE w == RTL!InnerWidths(RTL!Field(t, j).t)
  <2>2. w[i] \in Nat /\ RTL!Low(w, i) \in Nat /\ RTL!Low(w, i) + w[i] <= RTL!Widths(t)[j]
    BY <1>2, SubWidth
  <2>3. p[2].low = RTL!Low(RTL!Widths(t), j) + RTL!Low(w, i) /\ p[2].w = w[i]
    BY <2>1, SubPlaceParts
  <2> HIDE DEF w
  <2> QED  BY <1>1, <2>2, <2>3, SMT
<1>3. CASE ~RTL!IsSub(RTL!Field(t, j))
  <2>1. p[2].low = RTL!Low(RTL!Widths(t), j) /\ p[2].w = RTL!Widths(t)[j]
    <3>1. p = RTL!Place(t, j)  BY <1>3 DEF PlacesAt
    <3> QED  BY <3>1, PlaceParts
  <2> QED  BY <1>1, <2>1, SMT
<1>4. QED  BY <1>2, <1>3

\* The bits of the wires at the place of a field are those of its value: no other field is there.
LEMMA PackedIsPlaced ==
  ASSUME NEW t, IsSized(t), NEW v, IsValue(t, v),
         NEW j \in 1 .. Count(t), NEW p \in PlacesAt(t, j), NEW b \in 0 .. p[2].w - 1
  PROVE  p[2].low + b \in RTL!Packed(RTL!Places(t), v) <=> b \in v[p[1]]
<1> DEFINE places == RTL!Places(t)
           W == RTL!Widths(t)
<1>1. p \in places  BY PlacesAre
<1>2. ASSUME b \in v[p[1]]  PROVE p[2].low + b \in RTL!Packed(places, v)
  BY <1>1, <1>2 DEF RTL!Packed
<1>3. ASSUME p[2].low + b \in RTL!Packed(places, v)  PROVE b \in v[p[1]]
  <2>1. PICK q \in places : \E a \in v[q[1]] : p[2].low + b = q[2].low + a
    BY <1>3 DEF RTL!Packed
  <2>2. PICK a \in v[q[1]] : p[2].low + b = q[2].low + a  BY <2>1
  <2>3. a \in 0 .. q[2].w - 1  BY <2>2 DEF IsValue
  <2>4. PICK k \in 1 .. Count(t) : q \in PlacesAt(t, k)  BY PlacesAre
  <2>5. Len(W) = Count(t) /\ Count(t) \in Nat /\ \A x \in 1 .. Count(t) : W[x] \in Nat
    BY WidthsLen DEF IsSized
  <2>6. k = j
    <3> PICK x : x = p[2].low + b - RTL!Low(W, j)  OBVIOUS
    <3> PICK y : y = q[2].low + a - RTL!Low(W, k)  OBVIOUS
    <3>1. x \in 0 .. W[j] - 1 /\ RTL!Low(W, j) + x = p[2].low + b
      <4>1. /\ p[2].w \in Nat /\ p[2].low \in Nat /\ RTL!Low(W, j) \in Nat /\ W[j] \in Nat
            /\ p[2].low >= RTL!Low(W, j) /\ p[2].low + p[2].w <= RTL!Low(W, j) + W[j]
        BY PlaceInside
      <4> HIDE DEF W
      <4> QED  BY <4>1, SMT
    <3>2. y \in 0 .. W[k] - 1 /\ RTL!Low(W, k) + y = q[2].low + a
      <4>1. /\ q[2].w \in Nat /\ q[2].low \in Nat /\ RTL!Low(W, k) \in Nat /\ W[k] \in Nat
            /\ q[2].low >= RTL!Low(W, k) /\ q[2].low + q[2].w <= RTL!Low(W, k) + W[k]
        BY <2>4, PlaceInside
      <4> HIDE DEF W
      <4> QED  BY <2>3, <4>1, SMT
    <3>3. RTL!Low(W, j) + x = RTL!Low(W, k) + y  BY <2>2, <3>1, <3>2
    <3>4. j \in 1 .. Len(W) /\ k \in 1 .. Len(W) /\ Len(W) \in Nat /\ \A z \in 1 .. Len(W) : W[z] \in Nat
      BY <2>5
    <3>5. x \in 0 .. W[j] - 1 /\ y \in 0 .. W[k] - 1  BY <3>1, <3>2
    <3> HIDE DEF W
    <3> QED  BY ONLY <3>3, <3>4, <3>5, FieldsApart
  <2>7. CASE RTL!IsSub(RTL!Field(t, j))
    <3> DEFINE u == RTL!Field(t, j).t
               w == RTL!InnerWidths(u)
    <3>1. PICK i \in 1 .. Count(u) : p = RTL!SubPlace(t, j, u, i)
      BY <2>7 DEF PlacesAt
    <3>2. PICK l \in 1 .. Count(u) : q = RTL!SubPlace(t, j, u, l)
      BY <2>4, <2>6, <2>7 DEF PlacesAt
    <3>3. /\ p[2].low = RTL!Low(W, j) + RTL!Low(w, i) /\ p[2].w = w[i]
          /\ q[2].low = RTL!Low(W, j) + RTL!Low(w, l) /\ q[2].w = w[l]
      BY <3>1, <3>2, SubPlaceParts
    <3>4. RTL!Low(w, i) \in Nat /\ RTL!Low(w, l) \in Nat /\ RTL!Low(W, j) \in Nat
      BY <2>7, SubWidth, PlaceInside
    <3>5. Len(w) = Count(u) /\ Count(u) \in Nat /\ \A x \in 1 .. Count(u) : w[x] \in Nat
      BY <2>7, WidthsLen DEF IsSized
    <3> HIDE DEF u, w, W
    <3>6. RTL!Low(w, i) + b = RTL!Low(w, l) + a
      <4>1. b \in Int /\ a \in Int  BY <2>3
      <4> QED  BY <2>2, <3>3, <3>4, <4>1, SMT
    <3>7. b \in 0 .. w[i] - 1 /\ a \in 0 .. w[l] - 1  BY <2>3, <3>3
    <3>8. i \in 1 .. Len(w) /\ l \in 1 .. Len(w) /\ Len(w) \in Nat /\ \A z \in 1 .. Len(w) : w[z] \in Nat
      BY <3>5
    <3> PICK x \in 0 .. w[i] - 1 : x = b  BY <3>7
    <3> PICK y \in 0 .. w[l] - 1 : y = a  BY <3>7
    <3> RTL!Low(w, i) + x = RTL!Low(w, l) + y  BY <3>6
    <3>9. i = l /\ x = y  BY ONLY <3>8, RTL!Low(w, i) + x = RTL!Low(w, l) + y, FieldsApart
    <3> QED  BY <2>2, <3>1, <3>2, <3>9
  <2>8. CASE ~RTL!IsSub(RTL!Field(t, j))
    <3>1. q = p  BY <2>4, <2>6, <2>8 DEF PlacesAt
    <3>2. p[2].low \in Nat  BY PlaceInside
    <3>3. a = b  BY <2>2, <2>3, <3>1, <3>2, SMT
    <3> QED  BY <2>2, <3>1, <3>3
  <2> QED  BY <2>7, <2>8
<1>4. QED  BY <1>2, <1>3

\* So the value of a field can be taken out of the wires again.
LEMMA PlacedBits ==
  ASSUME NEW t, IsSized(t), NEW v, IsValue(t, v), NEW j \in 1 .. Count(t), NEW p \in PlacesAt(t, j)
  PROVE  {b \in 0 .. p[2].w - 1 : p[2].low + b \in RTL!Packed(RTL!Places(t), v)} = v[p[1]]
<1>1. v[p[1]] \subseteq 0 .. p[2].w - 1  BY PlacesAre DEF IsValue
<1>2. \A b \in 0 .. p[2].w - 1 : p[2].low + b \in RTL!Packed(RTL!Places(t), v) <=> b \in v[p[1]]
  BY PackedIsPlaced
<1>3. QED  BY <1>1, <1>2

-----------------------------------------------------------------------------
(* The header.                                                             *)

\* A field of the header says what the declaration says.
Matches(h, f) ==
  /\ h.name = f.name /\ h.w \in Nat \ {0} /\ h.w = f.w * RTL!TypeWidth(f.t)
  /\ \/ h.kind = "bits" /\ ~RTL!IsSub(f)
     \/ /\ h.kind = "enum" /\ ~RTL!IsSub(f) /\ h.of = f.t
        /\ f.t \in DOMAIN RTL!SVEnums /\ Enums[f.t] = 0 .. RTL!SVEnums[f.t][2]
     \/ h.kind = "struct" /\ RTL!IsSub(f) /\ h.of = f.t

\* A struct of the header has the fields that are declared, one after the other from below.
Agrees(t) ==
  LET h == Structs[t].fields
      n == Count(t)
  IN  /\ n \in Nat \ {0} /\ DOMAIN h = 1 .. n
      /\ \A j \in 1 .. n : Matches(h[j], RTL!Field(t, j))
      /\ h[1].s = 0 /\ \A j \in 1 .. n - 1 : h[j + 1].s = h[j].s + h[j].w
      /\ Structs[t].size = h[n].s + h[n].w

\* A struct without structs in it.
IsFlat(t) == \A j \in 1 .. Count(t) : RTL!Field(t, j).t \notin DOMAIN RTL!SVStructs

HeaderIsCurrent ==
  \A t \in DOMAIN Structs :
    /\ t \in DOMAIN RTL!SVStructs /\ Agrees(t)
    /\ \A f \in Fields(t) : f.kind = "struct" => f.of \in DOMAIN Structs /\ IsFlat(f.of)

\* The positions of the header are those of the declarations.
LEMMA HeaderLow ==
  ASSUME NEW t, Agrees(t)
  PROVE  /\ Count(t) \in Nat /\ Structs[t].size \in Nat
         /\ Structs[t].size = RTL!Low(RTL!Widths(t), Count(t) + 1)
         /\ \A j \in 1 .. Count(t) : LET h == Structs[t].fields[j]
              IN  /\ RTL!Widths(t)[j] \in Nat \ {0} /\ h.w = RTL!Widths(t)[j]
                  /\ h.s \in Nat /\ h.s = RTL!Low(RTL!Widths(t), j)
                  /\ h.s + h.w <= Structs[t].size
<1> DEFINE h == Structs[t].fields
           W == RTL!Widths(t)
           size == Structs[t].size
<1> PICK n \in Nat \ {0} : n = Count(t)  BY DEF Agrees
<1> PICK z : z = n + 1 /\ z \in Nat /\ z - 1 = n /\ 1 \in 1 .. n /\ n \in 1 .. n /\ z \in 1 .. z /\ n \in Nat
  BY SMT
<1>1. /\ \A j \in 1 .. n : h[j].w \in Nat \ {0} /\ h[j].w = W[j]
      /\ h[1].s = 0 /\ \A j \in 1 .. n - 1 : h[j + 1].s = h[j].s + h[j].w
      /\ size = h[n].s + h[n].w
  <2>1. \A j \in 1 .. n : RTL!Widths(t)[j] = RTL!Field(t, j).w * RTL!TypeWidth(RTL!Field(t, j).t)
    BY DEF RTL!Widths, Count
  <2> QED  BY <2>1 DEF Agrees, Matches
<1>2. Len(W) = n /\ (\A j \in 1 .. n : W[j] \in Nat)
  BY <1>1, WidthsLen
<1> HIDE DEF h, W, size
<1>3. \A j \in 1 .. n : h[j].s = RTL!Low(W, j)
  <2> DEFINE T == {j \in 1 .. n : h[j].s = RTL!Low(W, j)}
  <2>1. 1 \in T  BY <1>1, <1>2, LowIs
  <2>2. ASSUME NEW j \in 1 .. n - 1, j \in T  PROVE j + 1 \in T
    <3>1. j \in 1 .. n /\ j + 1 \in 1 .. n  BY SMT
    <3>2. RTL!Low(W, j + 1) = RTL!Low(W, j) + W[j]  BY <1>2, <3>1, LowIs
    <3>3. h[j].w = W[j] /\ h[j + 1].s = h[j].s + h[j].w  BY <1>1, <3>1
    <3> QED  BY <2>2, <3>1, <3>2, <3>3
  <2>3. 1 .. n \subseteq T
    <3> HIDE DEF T
    <3>1. 1 \in Int /\ n \in Int  BY SMT
    <3> QED  BY <2>1, <2>2, <3>1, Upward
  <2> QED  BY <2>3
<1>4. size = RTL!Low(W, z)  BY <1>1, <1>2, <1>3, LowIs
<1>5. ASSUME NEW j \in 1 .. n
      PROVE  RTL!Low(W, j) \in Nat /\ RTL!Low(W, j) + W[j] <= size /\ size \in Nat
  <2>1. j \in 1 .. n + 1 /\ j + 1 \in 1 .. n + 1 /\ z \in j + 1 .. n + 1 /\ j \in j .. n + 1 /\ z \in 1 .. n + 1
    BY SMT
  <2>2. RTL!Low(W, j) \in Nat  BY <1>2, <2>1, LowGrows
  <2>3. RTL!Low(W, j + 1) <= RTL!Low(W, z) /\ RTL!Low(W, z) \in Nat  BY <1>2, <2>1, LowGrows
  <2>4. RTL!Low(W, j + 1) = RTL!Low(W, j) + W[j]  BY <1>2, LowIs
  <2> QED  BY <1>4, <2>2, <2>3, <2>4
<1>6. size \in Nat  BY <1>5
<1>7. QED  BY <1>1, <1>3, <1>4, <1>5, <1>6 DEF h, W, size

\* Without structs in a struct there are no others to be looked up.
LEMMA FlatWidths ==
  ASSUME NEW t, IsFlat(t), Count(t) \in Nat
  PROVE  RTL!InnerWidths(t) = RTL!Widths(t)
<1>1. \A j \in 1 .. Count(t) : RTL!TypeWidth(RTL!Field(t, j).t) = RTL!EnumWidth(RTL!Field(t, j).t)
  BY DEF IsFlat, RTL!TypeWidth
<1>2. QED  BY <1>1 DEF RTL!InnerWidths, RTL!Widths, Count

\* What the header says of a struct in a struct.
LEMMA HeaderSub ==
  ASSUME HeaderIsCurrent, NEW t \in DOMAIN Structs, NEW j \in 1 .. Count(t)
  PROVE  LET f == RTL!Field(t, j)
             h == Structs[t].fields[j]
         IN  /\ h.kind = "struct" <=> RTL!IsSub(f)
             /\ h.kind = "struct" =>
                  /\ h.of = f.t /\ f.t \in DOMAIN Structs /\ Agrees(f.t) /\ IsFlat(f.t)
                  /\ Count(f.t) \in Nat /\ RTL!InnerWidths(f.t) = RTL!Widths(f.t)
<1> DEFINE f == RTL!Field(t, j)
           h == Structs[t].fields[j]
<1>1. Agrees(t)  BY DEF HeaderIsCurrent
<1>2. Matches(h, f) /\ h \in Fields(t)  BY <1>1 DEF Agrees, Fields
<1>3. h.kind = "struct" <=> RTL!IsSub(f)  BY <1>2 DEF Matches
<1>4. ASSUME h.kind = "struct"
      PROVE  h.of = f.t /\ f.t \in DOMAIN Structs /\ Agrees(f.t) /\ IsFlat(f.t)
  <2>1. h.of = f.t  BY <1>2, <1>4 DEF Matches
  <2>2. h.of \in DOMAIN Structs /\ IsFlat(h.of)  BY <1>2, <1>4 DEF HeaderIsCurrent
  <2> QED  BY <2>1, <2>2 DEF HeaderIsCurrent
<1>5. ASSUME h.kind = "struct"
      PROVE  Count(f.t) \in Nat /\ RTL!InnerWidths(f.t) = RTL!Widths(f.t)
  <2> HIDE DEF f, h
  <2>1. Count(f.t) \in Nat  BY <1>4, <1>5, HeaderLow
  <2> QED  BY <1>4, <1>5, <2>1, FlatWidths
<1>6. QED  BY <1>3, <1>4, <1>5

LEMMA HeaderSized ==
  ASSUME HeaderIsCurrent, NEW t \in DOMAIN Structs
  PROVE  IsSized(t)
<1>1. Agrees(t)  BY DEF HeaderIsCurrent
<1>2. Count(t) \in Nat /\ \A j \in 1 .. Count(t) : RTL!Widths(t)[j] \in Nat
  BY <1>1, HeaderLow
<1>3. ASSUME NEW j \in 1 .. Count(t), RTL!IsSub(RTL!Field(t, j))
      PROVE  LET u == RTL!Field(t, j).t
             IN  Count(u) \in Nat /\ \A i \in 1 .. Count(u) : RTL!InnerWidths(u)[i] \in Nat
  <2> PICK u : u = RTL!Field(t, j).t  OBVIOUS
  <2>1. Agrees(u) /\ RTL!InnerWidths(u) = RTL!Widths(u)  BY <1>3, HeaderSub
  <2>2. Count(u) \in Nat /\ \A i \in 1 .. Count(u) : RTL!Widths(u)[i] \in Nat
    BY <2>1, HeaderLow
  <2> QED  BY <2>1, <2>2
<1>4. QED  BY <1>2, <1>3 DEF IsSized

-----------------------------------------------------------------------------
(* Taking a struct apart.                                                  *)

\* The words of a struct that is taken apart hold its bits.
LEMMA RawWords ==
  ASSUME NEW mem, NEW size \in Nat
  PROVE  /\ IsWords(ScBv(mem, size, 0), size)
         /\ \A k \in 0 .. size - 1 : Bit(ScBv(mem, size, 0), k) <=> k \in mem
<1>1. Fits(size, 0) /\ 0 \in Nat  BY SMT DEF Fits
<1>2. \A k \in 0 .. size - 1 : 0 + k = k  BY SMT
<1>3. QED  BY <1>1, <1>2, CopyIsWords, VectorIsCopied DEF IsWords

\* A field of a struct, and of a struct in it, is read as it was packed.
LEMMA SimpleIsValue ==
  ASSUME HeaderIsCurrent, NEW t \in DOMAIN Structs, IsRead(t), NEW v, IsValue(t, v),
         NEW j \in 1 .. Count(t), Structs[t].fields[j].kind # "struct",
         NEW mem, mem = RTL!Packed(RTL!Places(t), v)
  PROVE  LET h == Structs[t].fields[j]
         IN  ReadField(ScBv(mem, Structs[t].size, 0), h) = v[<<h.name>>]
<1> DEFINE h == Structs[t].fields[j]
           p == RTL!Place(t, j)
           size == Structs[t].size
           data == ScBv(mem, size, 0)
<1>1. Agrees(t) /\ IsSized(t)  BY HeaderSized DEF HeaderIsCurrent
<1>2. /\ size \in Nat /\ h.s \in Nat /\ h.w \in Nat \ {0} /\ h.s + h.w <= size
      /\ h.s = RTL!Low(RTL!Widths(t), j) /\ h.w = RTL!Widths(t)[j]
  BY <1>1, HeaderLow
<1>3. h \in Fields(t) /\ h.name = RTL!Field(t, j).name  BY <1>1 DEF Agrees, Matches, Fields
<1>4. p[1] = <<h.name>> /\ p[2].low = h.s /\ p[2].w = h.w
  BY <1>2, <1>3, PlaceParts
<1>5. p \in PlacesAt(t, j)
  <2>1. ~RTL!IsSub(RTL!Field(t, j))  BY HeaderSub
  <2> QED  BY <2>1 DEF PlacesAt
<1>6. {b \in 0 .. p[2].w - 1 : p[2].low + b \in mem} = v[p[1]]
  BY <1>1, <1>5, PlacedBits
<1>7. IsField(h, size)  BY <1>2, <1>3 DEF IsField, IsRead
<1>8. IsWords(data, size) /\ \A k \in 0 .. size - 1 : Bit(data, k) <=> k \in mem
  BY <1>2, RawWords
<1> HIDE DEF h, p, size, data
<1>9. ReadField(data, h) = BitsFrom(data, h.s, h.w)  BY <1>2, <1>7, <1>8, FieldIsRead
<1>10. \A b \in 0 .. h.w - 1 : h.s + b \in 0 .. size - 1  BY <1>2, SMT
<1>11. BitsFrom(data, h.s, h.w) = {b \in 0 .. h.w - 1 : h.s + b \in mem}
  BY <1>8, <1>10 DEF BitsFrom
<1>12. ReadField(data, h) = v[<<h.name>>]  BY <1>4, <1>6, <1>9, <1>11
<1>13. QED  BY <1>12 DEF h, size, data

LEMMA NestedIsValue ==
  ASSUME HeaderIsCurrent, NEW t \in DOMAIN Structs, IsRead(t), NEW v, IsValue(t, v),
         NEW j \in 1 .. Count(t), Structs[t].fields[j].kind = "struct",
         NEW i \in 1 .. Count(RTL!Field(t, j).t),
         NEW mem, mem = RTL!Packed(RTL!Places(t), v)
  PROVE  LET h == Structs[t].fields[j]
             g == Structs[h.of].fields[i]
         IN  ReadField(NestedWords(ScBv(mem, Structs[t].size, 0), h), g) = v[<<h.name, g.name>>]
<1> DEFINE h == Structs[t].fields[j]
           u == RTL!Field(t, j).t
           g == Structs[h.of].fields[i]
           p == RTL!SubPlace(t, j, u, i)
           size == Structs[t].size
           data == ScBv(mem, size, 0)
           inner == NestedWords(data, h)
<1>1. Agrees(t) /\ IsSized(t)  BY HeaderSized DEF HeaderIsCurrent
<1>2. /\ size \in Nat /\ h.s \in Nat /\ h.w \in Nat \ {0} /\ h.s + h.w <= size
      /\ h.s = RTL!Low(RTL!Widths(t), j) /\ h.w = RTL!Widths(t)[j]
  BY <1>1, HeaderLow
<1>3. h \in Fields(t) /\ h.name = RTL!Field(t, j).name  BY <1>1 DEF Agrees, Matches, Fields
<1>4. /\ RTL!IsSub(RTL!Field(t, j)) /\ h.of = u /\ Agrees(u) /\ RTL!InnerWidths(u) = RTL!Widths(u)
  BY HeaderSub
<1>5. /\ g.s \in Nat /\ g.w \in Nat \ {0}
      /\ g.s = RTL!Low(RTL!InnerWidths(u), i) /\ g.w = RTL!InnerWidths(u)[i]
  BY <1>4, HeaderLow
<1>6. g.s + g.w <= h.w  BY <1>1, <1>2, <1>4, <1>5, SubWidth
<1>7. g \in Fields(h.of) /\ g.name = RTL!Field(u, i).name
  BY <1>4 DEF Agrees, Matches, Fields
<1>8. p[1] = <<h.name, g.name>> /\ p[2].low = h.s + g.s /\ p[2].w = g.w
  BY <1>2, <1>3, <1>5, <1>7, SubPlaceParts
<1>9. p \in PlacesAt(t, j)  BY <1>4 DEF PlacesAt
<1>10. {b \in 0 .. p[2].w - 1 : p[2].low + b \in mem} = v[p[1]]
  BY <1>1, <1>9, PlacedBits
<1>11. IsField(h, size)  BY <1>2, <1>3 DEF IsField, IsRead
<1>12. IsField(g, h.w)  BY <1>3, <1>5, <1>6, <1>7 DEF IsField, IsRead
<1>13. IsWords(data, size) /\ \A k \in 0 .. size - 1 : Bit(data, k) <=> k \in mem
  BY <1>2, RawWords
<1> HIDE DEF h, u, g, p, size, data, inner
<1>14. IsWords(inner, h.w) /\ \A k \in 0 .. h.w - 1 : Bit(inner, k) <=> Bit(data, h.s + k)
  BY <1>2, <1>11, <1>13, NestedIsRead DEF inner
<1>15. h.w \in Nat  BY <1>2
<1>16. ReadField(inner, g) = BitsFrom(inner, g.s, g.w)
  BY <1>12, <1>14, <1>15, FieldIsRead
<1>17. ASSUME NEW b \in 0 .. g.w - 1
       PROVE  Bit(inner, g.s + b) <=> h.s + g.s + b \in mem
  <2>1. g.s + b \in 0 .. h.w - 1 /\ h.s + (g.s + b) \in 0 .. size - 1 /\ h.s + (g.s + b) = h.s + g.s + b
    BY <1>2, <1>5, <1>6, SMT
  <2> QED  BY <1>13, <1>14, <2>1
<1>18. ReadField(inner, g) = v[<<h.name, g.name>>]
  BY <1>8, <1>10, <1>16, <1>17 DEF BitsFrom
<1>19. QED  BY <1>18 DEF h, g, size, data, inner

\* Whatever a constructor takes out of the wires is the value of the field.
LEMMA GetIsValue ==
  ASSUME HeaderIsCurrent, NEW t \in DOMAIN Structs, IsRead(t), NEW v, IsValue(t, v),
         NEW g \in Get(t, RTL!Packed(RTL!Places(t), v))
  PROVE  g[2] = v[g[1]]
<1> DEFINE mem == RTL!Packed(RTL!Places(t), v)
           data == ScBv(mem, Structs[t].size, 0)
<1>1. \A f \in Fields(t) : \E j \in 1 .. Count(t) : f = Structs[t].fields[j]
  BY DEF HeaderIsCurrent, Agrees, Fields
<1>2. CASE \E f \in Fields(t) : f.kind # "struct" /\ g = << <<f.name>>, ReadField(data, f)>>
  <2>1. PICK f \in Fields(t) : f.kind # "struct" /\ g = << <<f.name>>, ReadField(data, f)>>
    BY <1>2
  <2>2. PICK j \in 1 .. Count(t) : f = Structs[t].fields[j]  BY <1>1
  <2>3. ReadField(data, f) = v[<<f.name>>]  BY <2>1, <2>2, SimpleIsValue
  <2> HIDE DEF data, mem
  <2> QED  BY <2>1, <2>3
<1>3. CASE \E f \in Fields(t) : /\ f.kind = "struct"
                                /\ \E e \in Fields(f.of) :
                                     g = << <<f.name, e.name>>, ReadField(NestedWords(data, f), e)>>
  <2>1. PICK f \in Fields(t) :
          /\ f.kind = "struct"
          /\ \E e \in Fields(f.of) : g = << <<f.name, e.name>>, ReadField(NestedWords(data, f), e)>>
    BY <1>3
  <2>2. PICK e \in Fields(f.of) : g = << <<f.name, e.name>>, ReadField(NestedWords(data, f), e)>>
    BY <2>1
  <2>3. PICK j \in 1 .. Count(t) : f = Structs[t].fields[j]  BY <1>1
  <2>4. f.of = RTL!Field(t, j).t /\ Agrees(f.of)  BY <2>1, <2>3, HeaderSub
  <2>5. PICK i \in 1 .. Count(f.of) : e = Structs[f.of].fields[i]
    BY <2>4 DEF Agrees, Fields
  <2>6. ReadField(NestedWords(data, f), e) = v[<<f.name, e.name>>]
    BY <2>1, <2>3, <2>4, <2>5, NestedIsValue
  <2> HIDE DEF data, mem
  <2> QED  BY <2>2, <2>6
<1>4. QED
  <2> HIDE DEF mem
  <2> QED  BY <1>2, <1>3 DEF Get, mem

-----------------------------------------------------------------------------
(* What the testbench relies on in the declarations.                       *)

\* The names of the declarations.
LEMMA Declared ==
  /\ DOMAIN RTL!SVStructs =
       {"MemController_SglLdRes", "MemController_SglStRes", "MemController_LdDataFwd",
        "MemController_Transf", "MemController_Req", "MemController_Res", "PredBranch",
        "BranchPredInfo", "BranchProv", "BPBackup", "IFetchOp", "IF_Instr", "PD_Instr", "D_UOp",
        "R_UOp", "IS_UOp", "EX_UOp", "RES_UOp", "FlagsUOp", "ResultUOp", "LD_UOp", "ST_UOp",
        "CommitUOp", "Trap_UOp", "TrapControlState", "ROB_PERFC_Info"}
  /\ RTL!SVStructs["MemController_SglLdRes"] = RTL!SV_MemController_SglLdRes
  /\ RTL!SVStructs["MemController_SglStRes"] = RTL!SV_MemController_SglStRes
  /\ RTL!SVStructs["MemController_LdDataFwd"] = RTL!SV_MemController_LdDataFwd
  /\ RTL!SVStructs["MemController_Transf"] = RTL!SV_MemController_Transf
  /\ RTL!SVStructs["MemController_Req"] = RTL!SV_MemController_Req
  /\ RTL!SVStructs["MemController_Res"] = RTL!SV_MemController_Res
  /\ RTL!SVStructs["PredBranch"] = RTL!SV_PredBranch
  /\ RTL!SVStructs["BranchPredInfo"] = RTL!SV_BranchPredInfo
  /\ RTL!SVStructs["BranchProv"] = RTL!SV_BranchProv
  /\ RTL!SVStructs["BPBackup"] = RTL!SV_BPBackup
  /\ RTL!SVStructs["IFetchOp"] = RTL!SV_IFetchOp
  /\ RTL!SVStructs["IF_Instr"] = RTL!SV_IF_Instr
  /\ RTL!SVStructs["PD_Instr"] = RTL!SV_PD_Instr
  /\ RTL!SVStructs["D_UOp"] = RTL!SV_D_UOp
  /\ RTL!SVStructs["R_UOp"] = RTL!SV_R_UOp
  /\ RTL!SVStructs["IS_UOp"] = RTL!SV_IS_UOp
  /\ RTL!SVStructs["EX_UOp"] = RTL!SV_EX_UOp
  /\ RTL!SVStructs["RES_UOp"] = RTL!SV_RES_UOp
  /\ RTL!SVStructs["FlagsUOp"] = RTL!SV_FlagsUOp
  /\ RTL!SVStructs["ResultUOp"] = RTL!SV_ResultUOp
  /\ RTL!SVStructs["LD_UOp"] = RTL!SV_LD_UOp
  /\ RTL!SVStructs["ST_UOp"] = RTL!SV_ST_UOp
  /\ RTL!SVStructs["CommitUOp"] = RTL!SV_CommitUOp
  /\ RTL!SVStructs["Trap_UOp"] = RTL!SV_Trap_UOp
  /\ RTL!SVStructs["TrapControlState"] = RTL!SV_TrapControlState
  /\ RTL!SVStructs["ROB_PERFC_Info"] = RTL!SV_ROB_PERFC_Info
  BY DEF RTL!SVStructs

\* No type: a vector of logics.
LEMMA Untyped == "" \notin DOMAIN RTL!SVStructs /\ "" \notin DOMAIN RTL!SVEnums
  BY DEF RTL!SVStructs, RTL!SVEnums

LEMMA UntypedWidth == RTL!TypeWidth("") = 1
  BY Untyped DEF RTL!TypeWidth, RTL!EnumWidth

\* A vector of logics.
IsVector(f) == f.w \in Nat /\ f.t = ""

LEMMA TimesOne == \A x \in Nat : x * 1 = x
  BY SMT

LEMMA LIs == \A n, w : RTL!L(n, w).name = n /\ RTL!L(n, w).w = w /\ RTL!L(n, w).t = ""
  BY DEF RTL!L

LEMMA LIsVector == \A n : \A w \in Nat : IsVector(RTL!L(n, w))
  BY LIs DEF IsVector

\* How many fields the structs have.
LEMMA Lengths ==
  /\ Len(RTL!SV_MemController_SglLdRes) = 3
  /\ Len(RTL!SV_MemController_SglStRes) = 2
  /\ Len(RTL!SV_MemController_LdDataFwd) = 3
  /\ Len(RTL!SV_MemController_Transf) = 7
  /\ Len(RTL!SV_MemController_Req) = 7
  /\ Len(RTL!SV_MemController_Res) = 6
  /\ Len(RTL!SV_PredBranch) = 8
  /\ Len(RTL!SV_BranchPredInfo) = 1
  /\ Len(RTL!SV_BranchProv) = 13
  /\ Len(RTL!SV_BPBackup) = 8
  /\ Len(RTL!SV_IFetchOp) = 8
  /\ Len(RTL!SV_IF_Instr) = 10
  /\ Len(RTL!SV_PD_Instr) = 10
  /\ Len(RTL!SV_D_UOp) = 12
  /\ Len(RTL!SV_R_UOp) = 21
  /\ Len(RTL!SV_IS_UOp) = 17
  /\ Len(RTL!SV_EX_UOp) = 17
  /\ Len(RTL!SV_RES_UOp) = 6
  /\ Len(RTL!SV_FlagsUOp) = 5
  /\ Len(RTL!SV_ResultUOp) = 4
  /\ Len(RTL!SV_LD_UOp) = 14
  /\ Len(RTL!SV_ST_UOp) = 8
  /\ Len(RTL!SV_CommitUOp) = 7
  /\ Len(RTL!SV_Trap_UOp) = 11
  /\ Len(RTL!SV_TrapControlState) = 11
  /\ Len(RTL!SV_ROB_PERFC_Info) = 4
  BY DEF RTL!SV_MemController_SglLdRes, RTL!SV_MemController_SglStRes,
     RTL!SV_MemController_LdDataFwd, RTL!SV_MemController_Transf,
     RTL!SV_MemController_Req, RTL!SV_MemController_Res, RTL!SV_PredBranch,
     RTL!SV_BranchPredInfo, RTL!SV_BranchProv, RTL!SV_BPBackup, RTL!SV_IFetchOp,
     RTL!SV_IF_Instr, RTL!SV_PD_Instr, RTL!SV_D_UOp, RTL!SV_R_UOp, RTL!SV_IS_UOp,
     RTL!SV_EX_UOp, RTL!SV_RES_UOp, RTL!SV_FlagsUOp, RTL!SV_ResultUOp, RTL!SV_LD_UOp,
     RTL!SV_ST_UOp, RTL!SV_CommitUOp, RTL!SV_Trap_UOp, RTL!SV_TrapControlState,
     RTL!SV_ROB_PERFC_Info

\* The lowest field of most structs is the one that says whether it is valid.
LEMMA LowestFields ==
  /\ RTL!SV_MemController_SglLdRes[3] = RTL!L("valid", 1)
  /\ RTL!SV_MemController_SglStRes[2] = RTL!L("valid", 1)
  /\ RTL!SV_MemController_LdDataFwd[3] = RTL!L("valid", 1)
  /\ RTL!SV_MemController_Transf[7] = RTL!L("valid", 1)
  /\ RTL!SV_PredBranch[8] = RTL!L("valid", 1)
  /\ RTL!SV_IFetchOp[8] = RTL!L("valid", 1)
  /\ RTL!SV_IF_Instr[10] = RTL!L("valid", 1)
  /\ RTL!SV_PD_Instr[10] = RTL!L("valid", 1)
  /\ RTL!SV_D_UOp[12] = RTL!L("valid", 1)
  /\ RTL!SV_R_UOp[21] = RTL!L("valid", 1)
  /\ RTL!SV_IS_UOp[17] = RTL!L("valid", 1)
  /\ RTL!SV_EX_UOp[17] = RTL!L("valid", 1)
  /\ RTL!SV_RES_UOp[6] = RTL!L("valid", 1)
  /\ RTL!SV_FlagsUOp[5] = RTL!L("valid", 1)
  /\ RTL!SV_ResultUOp[4] = RTL!L("valid", 1)
  /\ RTL!SV_LD_UOp[14] = RTL!L("valid", 1)
  /\ RTL!SV_ST_UOp[8] = RTL!L("valid", 1)
  /\ RTL!SV_CommitUOp[7] = RTL!L("valid", 1)
  /\ RTL!SV_Trap_UOp[11] = RTL!L("valid", 1)
  /\ RTL!SV_BranchProv[13] = RTL!L("taken", 1)
  /\ RTL!SV_TrapControlState[11] = RTL!L("interruptDelegate", 1)
  /\ RTL!SV_TrapControlState[10] = RTL!L("interruptCause", RTL!TrapCause_w)
  /\ RTL!SV_ROB_PERFC_Info[4] = RTL!L("validRetire", 4)
  /\ RTL!SV_FlagsUOp[4] = RTL!L("doNotCommit", 1)
  BY DEF RTL!SV_MemController_SglLdRes, RTL!SV_MemController_SglStRes,
     RTL!SV_MemController_LdDataFwd, RTL!SV_MemController_Transf, RTL!SV_PredBranch,
     RTL!SV_IFetchOp, RTL!SV_IF_Instr, RTL!SV_PD_Instr, RTL!SV_D_UOp, RTL!SV_R_UOp,
     RTL!SV_IS_UOp, RTL!SV_EX_UOp, RTL!SV_RES_UOp, RTL!SV_FlagsUOp, RTL!SV_ResultUOp,
     RTL!SV_LD_UOp, RTL!SV_ST_UOp, RTL!SV_CommitUOp, RTL!SV_Trap_UOp, RTL!SV_BranchProv,
     RTL!SV_TrapControlState, RTL!SV_ROB_PERFC_Info

\* Field j from below is the one declared as the j-th from the end.
LEMMA FieldIs ==
  ASSUME NEW t, NEW n \in Nat, Count(t) = n, NEW j
  PROVE  RTL!Field(t, j) = RTL!SVStructs[t][n + 1 - j]
  BY DEF RTL!Field, Count

\* A vector of logics lies in the wires as it is.
LEMMA VectorPlace ==
  ASSUME NEW t, Count(t) \in Nat, NEW j \in 1 .. Count(t),
         NEW n, NEW w \in Nat, RTL!Field(t, j) = RTL!L(n, w)
  PROVE  /\ RTL!Widths(t)[j] = w
         /\ RTL!Place(t, j) \in PlacesAt(t, j) /\ RTL!Place(t, j) \in RTL!Places(t)
         /\ RTL!Place(t, j)[1] = <<n>> /\ RTL!Place(t, j)[2].w = w
         /\ RTL!Place(t, j)[2].low = RTL!Low(RTL!Widths(t), j)
<1> DEFINE f == RTL!Field(t, j)
           p == RTL!Place(t, j)
<1>1. f.name = n /\ f.w = w /\ f.t = "" /\ ~RTL!IsSub(f) /\ RTL!TypeWidth(f.t) = 1
  <2> HIDE DEF f
  <2>1. f = RTL!L(n, w)  BY DEF f
  <2>2. f.name = n /\ f.w = w /\ f.t = ""  BY <2>1, LIs
  <2> QED  BY <2>2, Untyped, UntypedWidth DEF RTL!IsSub
<1>2. RTL!Widths(t)[j] = w
  <2>1. RTL!Widths(t)[j] = w * 1  BY <1>1 DEF RTL!Widths, Count
  <2> QED  BY <2>1, TimesOne
<1>3. p[1] = <<n>> /\ p[2].low = RTL!Low(RTL!Widths(t), j) /\ p[2].w = w
  <2>1. p[1] = <<f.name>> /\ p[2].low = RTL!Low(RTL!Widths(t), j) /\ p[2].w = RTL!Widths(t)[j]
    BY PlaceParts
  <2> HIDE DEF f, p
  <2> QED  BY <1>1, <1>2, <2>1
<1>4. p \in PlacesAt(t, j)  BY <1>1 DEF PlacesAt
<1>5. p \in RTL!Places(t)  BY <1>4, PlacesAre
<1>6. QED  BY <1>2, <1>3, <1>4, <1>5

LEMMA VectorIsPlaced ==
  ASSUME NEW t, IsSized(t), NEW v, IsValue(t, v), NEW j \in 1 .. Count(t),
         NEW n, NEW w \in Nat, RTL!Field(t, j) = RTL!L(n, w)
  PROVE  {b \in 0 .. w - 1 : RTL!Low(RTL!Widths(t), j) + b \in RTL!Packed(RTL!Places(t), v)} = v[<<n>>]
<1> PICK p : p = RTL!Place(t, j)  OBVIOUS
<1>1. /\ p \in PlacesAt(t, j) /\ p[1] = <<n>> /\ p[2].w = w
      /\ p[2].low = RTL!Low(RTL!Widths(t), j)
  BY VectorPlace DEF IsSized
<1>2. {b \in 0 .. p[2].w - 1 : p[2].low + b \in RTL!Packed(RTL!Places(t), v)} = v[p[1]]
  BY <1>1, PlacedBits
<1>3. QED  BY <1>1, <1>2

\* Where the widths of all fields are numbers, and no field is a struct.
LEMMA PlainSized ==
  ASSUME NEW t, NEW n \in Nat, Count(t) = n,
         \A j \in 1 .. n : IsVector(RTL!Field(t, j))
  PROVE  IsSized(t)
<1>1. ASSUME NEW j \in 1 .. n
      PROVE  RTL!Widths(t)[j] \in Nat /\ ~RTL!IsSub(RTL!Field(t, j))
  <2> PICK w \in Nat : w = RTL!Field(t, j).w  BY DEF IsVector
  <2>1. RTL!Widths(t)[j] = w * 1
    BY UntypedWidth DEF RTL!Widths, Count, IsVector
  <2> QED  BY <2>1, TimesOne, Untyped DEF RTL!IsSub, IsVector
<1>2. QED  BY <1>1 DEF IsSized

\* Three structs are not in the header, but the testbench may look at bits of them.
LEMMA OthersSized ==
  IsSized("TrapControlState") /\ IsSized("ROB_PERFC_Info") /\ IsSized("MemController_Transf")
<1>1. IsSized("TrapControlState")
  <2>1. Count("TrapControlState") = 11 /\ 11 \in Nat  BY Declared, Lengths DEF Count
  <2>2. \A j \in 1 .. 11 : IsVector(RTL!Field("TrapControlState", j))
    BY Declared, Lengths, LIsVector DEF RTL!Field, RTL!SV_TrapControlState, RTL!TrapCause_w
  <2> QED  BY <2>1, <2>2, PlainSized
<1>2. IsSized("ROB_PERFC_Info")
  <2>1. Count("ROB_PERFC_Info") = 4 /\ 4 \in Nat  BY Declared, Lengths DEF Count
  <2>2. \A j \in 1 .. 4 : IsVector(RTL!Field("ROB_PERFC_Info", j))
    BY Declared, Lengths, LIsVector DEF RTL!Field, RTL!SV_ROB_PERFC_Info
  <2> QED  BY <2>1, <2>2, PlainSized
<1>3. IsSized("MemController_Transf")
  <2>1. Count("MemController_Transf") = 7 /\ 7 \in Nat  BY Declared, Lengths DEF Count
  <2>2. CACHE_SIZE_E - 2 \in Nat /\ CLSIZE_E - 1 \in Nat
    BY ConfigAssumption, SMT DEF ConfigAssumption
  <2>3. \A j \in 1 .. 7 : IsVector(RTL!Field("MemController_Transf", j))
    BY <2>2, Declared, Lengths, LIsVector DEF RTL!Field, RTL!SV_MemController_Transf, RTL!CacheID_w
  <2> QED  BY <2>1, <2>3, PlainSized
<1>4. QED  BY <1>1, <1>2, <1>3

\* So all structs that are looked at have sizes.
LEMMA TypesSized ==
  ASSUME HeaderIsCurrent, NEW t \in Types
  PROVE  IsSized(t)
<1>1. DOMAIN Structs = DOMAIN RTL!SVStructs \ {"TrapControlState", "ROB_PERFC_Info", "MemController_Transf"}
  BY Declared DEF Structs
<1>2. t \in DOMAIN RTL!SVStructs  BY TypesAssumption
<1>3. QED  BY <1>1, <1>2, HeaderSized, OthersSized

-----------------------------------------------------------------------------
(* What is found in the wires.                                             *)

\* What the core drives fits into the fields.
LEMMA DrivenIsValue ==
  ASSUME NEW t \in Types, NEW v \in Values[t]
  PROVE  PlacesOf[t] = RTL!Places(t) /\ IsLegal(t, v) /\ IsValue(t, v)
<1>1. PlacesOf[t] = RTL!Places(t)  BY DEF PlacesOf
<1>2. IsLegal(t, v)  BY ValuesAssumption
<1>3. QED  BY <1>1, <1>2 DEF IsLegal, IsValue

\* The lowest field, and the one above a lowest bit.
LEMMA LowestIs ==
  ASSUME NEW t, NEW n \in Nat \ {0}, Count(t) = n, NEW m, NEW w \in Nat, RTL!SVStructs[t][n] = RTL!L(m, w)
  PROVE  RTL!Field(t, 1) = RTL!L(m, w) /\ RTL!Low(RTL!Widths(t), 1) = 0 /\ RTL!Widths(t)[1] = w
<1>1. 1 \in 1 .. n /\ n + 1 - 1 = n /\ n \in Nat  BY SMT
<1>2. RTL!Field(t, 1) = RTL!L(m, w)  BY <1>1, FieldIs
<1>3. RTL!Widths(t)[1] = w  BY <1>1, <1>2, VectorPlace
<1>4. Len(RTL!Widths(t)) \in Nat  BY <1>1, WidthsLen
<1>5. QED  BY <1>2, <1>3, <1>4, LowIs

LEMMA LowestIsValue ==
  ASSUME HeaderIsCurrent, NEW t \in Types, NEW v \in Values[t], NEW n \in Nat \ {0}, Count(t) = n,
         NEW m, NEW w \in Nat, RTL!SVStructs[t][n] = RTL!L(m, w)
  PROVE  {b \in 0 .. w - 1 : b \in RTL!Packed(PlacesOf[t], v)} = v[<<m>>]
<1>1. 1 \in 1 .. n  BY SMT
<1>2. RTL!Field(t, 1) = RTL!L(m, w) /\ RTL!Low(RTL!Widths(t), 1) = 0  BY LowestIs
<1>3. IsSized(t) /\ IsValue(t, v) /\ PlacesOf[t] = RTL!Places(t)
  BY TypesSized, DrivenIsValue
<1>4. {b \in 0 .. w - 1 : RTL!Low(RTL!Widths(t), 1) + b \in RTL!Packed(RTL!Places(t), v)} = v[<<m>>]
  BY <1>1, <1>2, <1>3, VectorIsPlaced
<1>5. \A b \in 0 .. w - 1 : 0 + b = b  BY SMT
<1>6. QED  BY <1>2, <1>3, <1>4, <1>5

LEMMA SecondIsValue ==
  ASSUME HeaderIsCurrent, NEW t \in Types, NEW v \in Values[t], NEW n \in Nat \ {0, 1}, Count(t) = n,
         NEW k, RTL!SVStructs[t][n] = RTL!L(k, 1),
         NEW m, NEW w \in Nat, RTL!SVStructs[t][n - 1] = RTL!L(m, w)
  PROVE  {b \in 0 .. w - 1 : b + 1 \in RTL!Packed(PlacesOf[t], v)} = v[<<m>>]
<1>1. 1 \in 1 .. n /\ 2 \in 1 .. n /\ n + 1 - 2 = n - 1 /\ n \in Nat \ {0} /\ n \in Nat
      /\ 1 + 1 = 2 /\ 0 + 1 = 1 /\ 1 \in Nat
  BY SMT
<1>2. RTL!Field(t, 2) = RTL!L(m, w)  BY <1>1, FieldIs
<1>3. IsSized(t) /\ IsValue(t, v) /\ PlacesOf[t] = RTL!Places(t)
  BY TypesSized, DrivenIsValue
<1>4. {b \in 0 .. w - 1 : RTL!Low(RTL!Widths(t), 2) + b \in RTL!Packed(RTL!Places(t), v)} = v[<<m>>]
  BY <1>1, <1>2, <1>3, VectorIsPlaced
<1>5. RTL!Low(RTL!Widths(t), 2) = 1
  <2>1. Len(RTL!Widths(t)) = n  BY <1>1, WidthsLen
  <2>2. RTL!Low(RTL!Widths(t), 1 + 1) = RTL!Low(RTL!Widths(t), 1) + RTL!Widths(t)[1]
    BY <1>1, <2>1, LowIs
  <2>3. RTL!Low(RTL!Widths(t), 1) = 0 /\ RTL!Widths(t)[1] = 1
    BY <1>1, LowestIs
  <2> QED  BY <1>1, <2>2, <2>3
<1>6. \A b \in 0 .. w - 1 : 1 + b = b + 1  BY SMT
<1>7. QED  BY <1>3, <1>4, <1>5, <1>6

LEMMA PairIs == \A a, x, s : s \in {<<a, x>>} => s[1] = a /\ s[2] = x
  OBVIOUS

\* The bit that says whether a struct is valid is the lowest one.
LEMMA ValidityIsLowest ==
  ASSUME NEW t \in DOMAIN RTL!SVStructs, Validity(t) # << >>
  PROVE  \E n \in Nat \ {0} : \E m : /\ Count(t) = n /\ Validity(t) = <<m>>
                                    /\ RTL!SVStructs[t][n] = RTL!L(m, 1)
<1>1. CASE t = "BranchProv"
  <2>1. Count(t) = 13 /\ 13 \in Nat \ {0} /\ Validity(t) = <<"taken">>
    BY <1>1, Declared, Lengths DEF Count, Validity
  <2>2. RTL!SVStructs[t][13] = RTL!L("taken", 1)  BY <1>1, Declared, LowestFields
  <2> QED  BY <2>1, <2>2
<1>2. CASE t \notin {"BranchProv", "BPBackup", "BranchPredInfo", "MemController_Res", "MemController_Req",
                     "TrapControlState", "ROB_PERFC_Info"}
  <2>1. Validity(t) = <<"valid">>  BY <1>2 DEF Validity
  <2>2. \E n \in 2 .. 21 : Count(t) = n /\ RTL!SVStructs[t][n] = RTL!L("valid", 1)
    BY <1>2, Declared, Lengths, LowestFields DEF Count
  <2>3. \A n \in 2 .. 21 : n \in Nat \ {0}  BY SMT
  <2> QED  BY <2>1, <2>2, <2>3
<1>3. QED  BY <1>1, <1>2 DEF Validity

\* The single bits that are looked at are those of the fields.
LEMMA PeekedIsValue ==
  ASSUME HeaderIsCurrent, type \in Types, val \in Values[type], NEW s \in Peeked
  PROVE  s[2] = val[s[1]]
<1>1. Raw = RTL!Packed(PlacesOf[type], val)  BY DEF Raw
<1>2. CASE type = "TrapControlState"
  <2>1. Count(type) = 11 /\ 11 \in Nat \ {0, 1} /\ 11 \in Nat \ {0} /\ 11 - 1 = 10 /\ 1 \in Nat /\ 5 \in Nat
    BY <1>2, Declared, Lengths DEF Count
  <2>2. /\ RTL!SVStructs[type][11] = RTL!L("interruptDelegate", 1)
        /\ RTL!SVStructs[type][11 - 1] = RTL!L("interruptCause", 5)
    BY <1>2, <2>1, Declared, LowestFields DEF RTL!TrapCause_w
  <2>3. {b \in 0 .. 1 - 1 : b \in Raw} = val[<<"interruptDelegate">>]
    BY <1>1, <2>1, <2>2, LowestIsValue
  <2>4. {b \in 0 .. 5 - 1 : b + 1 \in Raw} = val[<<"interruptCause">>]
    BY <1>1, <2>1, <2>2, SecondIsValue
  <2>5. {b \in {0} : Peek(0)} = val[<<"interruptDelegate">>]
    BY <2>3 DEF Peek
  <2>6. {b \in 0 .. 3 : Peek(b + 1)} = val[<<"interruptCause">>]
    <3>1. val[<<"interruptCause">>] \subseteq 0 .. 3
      <4>1. \E p \in PlacesOf[type] : p[1] = <<"interruptCause">>
        <5>1. IsSized(type) /\ IsValue(type, val) /\ PlacesOf[type] = RTL!Places(type)
          BY TypesSized, DrivenIsValue
        <5>2. RTL!Field(type, 2) = RTL!L("interruptCause", 5) /\ 2 \in 1 .. Count(type)
          <6>1. 11 + 1 - 2 = 11 - 1 /\ 2 \in 1 .. 11  BY SMT
          <6> QED  BY <2>1, <2>2, <6>1, FieldIs
        <5>3. RTL!Place(type, 2)[1] = <<"interruptCause">> /\ RTL!Place(type, 2) \in RTL!Places(type)
          BY <2>1, <5>2, VectorPlace
        <5> QED  BY <5>1, <5>3
      <4> QED  BY <4>1, DrivenIsValue DEF IsLegal
    <3>2. \A b \in 0 .. 3 : b \in 0 .. 5 - 1  BY SMT
    <3> QED  BY <2>4, <3>1, <3>2 DEF Peek
  <2>7. Peeked = {<< <<"interruptCause">>, {b \in 0 .. 3 : Peek(b + 1)}>>} \cup
                 {<< <<"interruptDelegate">>, {b \in {0} : Peek(0)}>>}
    BY <1>2 DEF Peeked, Validity
  <2>8. CASE s \in {<< <<"interruptCause">>, {b \in 0 .. 3 : Peek(b + 1)}>>}
    BY <2>6, <2>8, PairIs
  <2>9. CASE s \in {<< <<"interruptDelegate">>, {b \in {0} : Peek(0)}>>}
    BY <2>5, <2>9, PairIs
  <2> QED  BY <2>7, <2>8, <2>9
<1>3. CASE type = "ROB_PERFC_Info"
  <2>1. Count(type) = 4 /\ 4 \in Nat \ {0} /\ 4 \in Nat /\ 4 - 1 = 3
    BY <1>3, Declared, Lengths DEF Count
  <2>2. RTL!SVStructs[type][4] = RTL!L("validRetire", 4)
    BY <1>3, Declared, LowestFields
  <2>3. {b \in 0 .. 4 - 1 : b \in Raw} = val[<<"validRetire">>]
    BY <1>1, <2>1, <2>2, LowestIsValue
  <2>4. {i \in 0 .. 3 : Peek(i)} = val[<<"validRetire">>]  BY <2>1, <2>3 DEF Peek
  <2>5. Peeked = {<< <<"validRetire">>, {i \in 0 .. 3 : Peek(i)}>>}
    BY <1>3 DEF Peeked, Validity
  <2> QED  BY <2>4, <2>5, PairIs
<1>4. CASE type = "FlagsUOp"
  <2>1. Count(type) = 5 /\ 5 \in Nat \ {0, 1} /\ 5 \in Nat \ {0} /\ 5 - 1 = 4 /\ 1 \in Nat
    BY <1>4, Declared, Lengths DEF Count
  <2>2. /\ RTL!SVStructs[type][5] = RTL!L("valid", 1)
        /\ RTL!SVStructs[type][5 - 1] = RTL!L("doNotCommit", 1)
    BY <1>4, <2>1, Declared, LowestFields
  <2>3. {b \in 0 .. 1 - 1 : b \in Raw} = val[<<"valid">>]
    BY <1>1, <2>1, <2>2, LowestIsValue
  <2>4. {b \in 0 .. 1 - 1 : b + 1 \in Raw} = val[<<"doNotCommit">>]
    BY <1>1, <2>1, <2>2, SecondIsValue
  <2>5. {b \in {0} : Peek(0)} = val[<<"valid">>] /\ {b \in {0} : Peek(1)} = val[<<"doNotCommit">>]
    BY <2>3, <2>4 DEF Peek
  <2>6. Peeked = {<< <<"valid">>, {b \in {0} : Peek(0)}>>} \cup {<< <<"doNotCommit">>, {b \in {0} : Peek(1)}>>}
    BY <1>4 DEF Peeked, Validity
  <2>7. CASE s \in {<< <<"valid">>, {b \in {0} : Peek(0)}>>}  BY <2>5, <2>7, PairIs
  <2>8. CASE s \in {<< <<"doNotCommit">>, {b \in {0} : Peek(1)}>>}  BY <2>5, <2>8, PairIs
  <2> QED  BY <2>6, <2>7, <2>8
<1>5. CASE type \notin {"TrapControlState", "ROB_PERFC_Info", "FlagsUOp"} /\ Validity(type) # << >>
  <2>1. type \in DOMAIN RTL!SVStructs  BY TypesAssumption
  <2>2. PICK n \in Nat \ {0} : \E m : /\ Count(type) = n /\ Validity(type) = <<m>>
                                      /\ RTL!SVStructs[type][n] = RTL!L(m, 1)
    BY <1>5, <2>1, ValidityIsLowest
  <2>3. PICK m : Count(type) = n /\ Validity(type) = <<m>> /\ RTL!SVStructs[type][n] = RTL!L(m, 1)
    BY <2>2
  <2>4. {b \in 0 .. 1 - 1 : b \in Raw} = val[<<m>>]
    BY <1>1, <2>3, LowestIsValue
  <2>5. {b \in {0} : Peek(0)} = val[Validity(type)]  BY <2>3, <2>4 DEF Peek
  <2>6. Peeked = {<<Validity(type), {b \in {0} : Peek(0)}>>}  BY <1>5 DEF Peeked
  <2> QED  BY <2>5, <2>6
<1>6. CASE type \notin {"TrapControlState", "ROB_PERFC_Info", "FlagsUOp"} /\ Validity(type) = << >>
  BY <1>6 DEF Peeked
<1>7. QED  BY <1>2, <1>3, <1>4, <1>5, <1>6

\* Every enumeration that is taken out of the wires has a place there.
LEMMA EnumHasPlace ==
  ASSUME HeaderIsCurrent, NEW t \in DOMAIN Structs, NEW e \in EnumPaths(t)
  PROVE  \E p \in RTL!Places(t) : /\ p[1] = e[1] /\ p[2].t \in DOMAIN RTL!SVEnums
                                 /\ e[2] = 0 .. RTL!SVEnums[p[2].t][2]
<1>1. \A f \in Fields(t) : \E j \in 1 .. Count(t) : f = Structs[t].fields[j] /\ Matches(f, RTL!Field(t, j))
  BY DEF HeaderIsCurrent, Agrees, Fields
<1>2. CASE \E f \in Fields(t) : f.kind = "enum" /\ e = << <<f.name>>, Enums[f.of]>>
  <2>1. PICK f \in Fields(t) : f.kind = "enum" /\ e = << <<f.name>>, Enums[f.of]>>  BY <1>2
  <2>2. PICK j \in 1 .. Count(t) : Matches(f, RTL!Field(t, j))  BY <1>1
  <2>3. /\ ~RTL!IsSub(RTL!Field(t, j)) /\ f.name = RTL!Field(t, j).name /\ f.of = RTL!Field(t, j).t
        /\ f.of \in DOMAIN RTL!SVEnums /\ Enums[f.of] = 0 .. RTL!SVEnums[f.of][2]
    BY <2>1, <2>2 DEF Matches
  <2> PICK p : p = RTL!Place(t, j)  OBVIOUS
  <2>4. p \in RTL!Places(t) /\ p[1] = <<f.name>> /\ p[2].t = f.of
    BY <2>3, PlacesAre, PlaceParts DEF PlacesAt
  <2> QED  BY <2>1, <2>3, <2>4
<1>3. CASE \E f \in Fields(t) : /\ f.kind = "struct"
                                /\ \E g \in Fields(f.of) :
                                     g.kind = "enum" /\ e = << <<f.name, g.name>>, Enums[g.of]>>
  <2>1. PICK f \in Fields(t) :
          /\ f.kind = "struct"
          /\ \E g \in Fields(f.of) : g.kind = "enum" /\ e = << <<f.name, g.name>>, Enums[g.of]>>
    BY <1>3
  <2>2. PICK g \in Fields(f.of) : g.kind = "enum" /\ e = << <<f.name, g.name>>, Enums[g.of]>>
    BY <2>1
  <2>3. PICK j \in 1 .. Count(t) : f = Structs[t].fields[j] /\ Matches(f, RTL!Field(t, j))  BY <1>1
  <2> PICK u : u = RTL!Field(t, j).t  OBVIOUS
  <2>4. RTL!IsSub(RTL!Field(t, j)) /\ f.of = u /\ Agrees(u)  BY <2>1, <2>3, HeaderSub
  <2>5. PICK i \in 1 .. Count(u) : Matches(g, RTL!Field(u, i))
    BY <2>4 DEF Agrees, Fields
  <2>6. /\ g.name = RTL!Field(u, i).name /\ g.of = RTL!Field(u, i).t
        /\ g.of \in DOMAIN RTL!SVEnums /\ Enums[g.of] = 0 .. RTL!SVEnums[g.of][2]
    BY <2>2, <2>5 DEF Matches
  <2> PICK p : p = RTL!SubPlace(t, j, u, i)  OBVIOUS
  <2>7. f.name = RTL!Field(t, j).name  BY <2>3 DEF Matches
  <2>8. p \in RTL!Places(t)  BY <2>4, PlacesAre DEF PlacesAt
  <2>9. p[1] = <<f.name, g.name>> /\ p[2].t = g.of  BY <2>6, <2>7, SubPlaceParts
  <2> QED  BY <2>2, <2>6, <2>8, <2>9
<1>4. QED  BY <1>2, <1>3 DEF EnumPaths

\* What is taken out of the wires, and what a constructor makes of an enumeration.
LEMMA LookIsValue ==
  ASSUME HeaderIsCurrent, type \in Types, val \in Values[type], TakesApart, NEW g \in Get(type, Raw)
  PROVE  /\ g[2] = val[g[1]]
         /\ \A e \in EnumPaths(type) : e[1] = g[1] => \E n \in e[2] : Bits(n) = g[2]
<1>1. type \in DOMAIN Structs /\ IsRead(type)  BY TypesAssumption DEF TakesApart
<1>2. IsValue(type, val) /\ IsLegal(type, val) /\ PlacesOf[type] = RTL!Places(type)
  BY DrivenIsValue
<1>3. g[2] = val[g[1]]  BY <1>1, <1>2, GetIsValue DEF Raw
<1>4. IsValid(type, val)
  <2>1. CASE Validity(type) # << >>
    <3> PICK x : x = {b \in {0} : Peek(0)}  OBVIOUS
    <3>1. <<Validity(type), x>> \in Peeked  BY <2>1 DEF Peeked
    <3>2. x = val[Validity(type)]  BY <3>1, PeekedIsValue
    <3>3. 0 \in x  BY <2>1 DEF TakesApart
    <3> QED  BY <3>2, <3>3 DEF IsValid
  <2> QED  BY <2>1 DEF IsValid
<1>5. ASSUME NEW e \in EnumPaths(type), e[1] = g[1]
      PROVE  \E n \in e[2] : Bits(n) = g[2]
  <2>1. PICK p \in RTL!Places(type) : /\ p[1] = e[1] /\ p[2].t \in DOMAIN RTL!SVEnums
                                      /\ e[2] = 0 .. RTL!SVEnums[p[2].t][2]
    BY <1>1, EnumHasPlace
  <2>2. \E n \in 0 .. RTL!SVEnums[p[2].t][2] : val[p[1]] = Bits(n)
    BY <1>2, <1>4, <2>1 DEF IsLegal
  <2> QED  BY <1>3, <1>5, <2>1, <2>2
<1>6. QED  BY <1>3, <1>5

\* The inductive invariant.
WiresInv == type \in Types /\ val \in Values[type] /\ SeenIsDriven /\ NeverThrows

LEMMA WiresInit_Inv == WiresInit => WiresInv
  BY DEF WiresInit, WiresInv, SeenIsDriven, NeverThrows

LEMMA WiresNext_Inv ==
  ASSUME HeaderIsCurrent, WiresInv, [WiresNext]_wireVars
  PROVE  WiresInv'
<1>1. CASE Drive
  BY <1>1 DEF Drive, WiresInv, SeenIsDriven, NeverThrows
<1>2. CASE Look
  <2> PICK got : got = IF TakesApart THEN Get(type, Raw) ELSE {}  OBVIOUS
  <2>1. /\ seen' = Peeked \cup got /\ type' = type /\ val' = val
        /\ thrown' = (thrown \/ \E g \in got : \E e \in EnumPaths(type) :
                                   e[1] = g[1] /\ \A n \in e[2] : Bits(n) # g[2])
    BY <1>2 DEF Look
  <2>2. ASSUME NEW g \in got
        PROVE  /\ g[2] = val[g[1]]
               /\ \A e \in EnumPaths(type) : e[1] = g[1] => \E n \in e[2] : Bits(n) = g[2]
    BY LookIsValue DEF WiresInv
  <2>3. \A s \in Peeked : s[2] = val[s[1]]  BY PeekedIsValue DEF WiresInv
  <2>4. SeenIsDriven'  BY <2>1, <2>2, <2>3 DEF SeenIsDriven
  <2>5. NeverThrows'  BY <2>1, <2>2 DEF NeverThrows, WiresInv
  <2> QED  BY <2>1, <2>4, <2>5 DEF WiresInv
<1>3. CASE UNCHANGED wireVars
  BY <1>3 DEF wireVars, WiresInv, SeenIsDriven, NeverThrows
<1>4. QED  BY <1>1, <1>2, <1>3 DEF WiresNext


-----------------------------------------------------------------------------
(* The header was made for this configuration.                             *)

HeaderConfig ==
  /\ ROB_SIZE_EXP = 6 /\ RF_SIZE_EXP = 6 /\ FSIZE_E = 4 /\ CACHE_SIZE_E = 14 /\ CLSIZE_E = 6
  /\ AXI_WIDTH = 128 /\ AXI_NUM_TRANS = 4 /\ NUM_PORTS_TOTAL = 7 /\ RETURN_SIZE_EXP = 5
  /\ TAGE_BASE = 4 /\ TAGE_STAGES = 6

\* The widths of it.
LEMMA Configured ==
  ASSUME HeaderConfig
  PROVE  /\ RTL!SqN_w = 7 /\ RTL!Tag_w = 7 /\ RTL!RegNm_w = 5 /\ RTL!FetchID_w = 5
         /\ RTL!FetchOff_w = 3 /\ RTL!FETCH_WORDS * 16 = 128 /\ RTL!RetStackIdx_w = 5
         /\ RTL!StID_w = 2 /\ RTL!CacheID_w = 1 /\ RTL!StNonce_w = 3 /\ RTL!TageID_w = 4
         /\ RTL!BHist_w = 64 /\ RTL!TrapCause_w = 5
         /\ CACHE_SIZE_E - 2 = 12 /\ CLSIZE_E - 1 = 5 /\ 32 - FSIZE_E = 28
         /\ AXI_WIDTH = 128 /\ AXI_WIDTH \div 8 = 16 /\ AXI_NUM_TRANS = 4 /\ NUM_PORTS_TOTAL = 7
<1>1. 2 ^ 4 = 16 /\ 2 ^ 3 = 8  BY SMT
<1>2. RTL!FETCH_WORDS = 8 /\ RTL!BHist_w = 64
  BY <1>1, SMT DEF HeaderConfig, RTL!FETCH_WORDS, RTL!BHist_w
<1>3. QED
  BY <1>2, SMT DEF HeaderConfig, RTL!SqN_w, RTL!Tag_w, RTL!RegNm_w, RTL!FetchID_w, RTL!FetchOff_w,
     RTL!RetStackIdx_w, RTL!StID_w, RTL!CacheID_w, RTL!StNonce_w, RTL!TageID_w, RTL!TrapCause_w

\* A vector of the header and one of the declarations.
LEMMA PlainMatches == \A n, s : \A w \in Nat \ {0} : Matches(B(n, s, w), RTL!L(n, w))
<1> SUFFICES ASSUME NEW n, NEW s, NEW w \in Nat \ {0}  PROVE Matches(B(n, s, w), RTL!L(n, w))
  OBVIOUS
<1>1. B(n, s, w).name = n /\ B(n, s, w).w = w /\ B(n, s, w).kind = "bits"  BY DEF B
<1> PICK f : f = RTL!L(n, w)  OBVIOUS
<1>2. f.name = n /\ f.w = w /\ f.t = ""  BY LIs
<1>3. w * 1 = w  BY TimesOne
<1>4. QED  BY <1>1, <1>2, <1>3, Untyped, UntypedWidth DEF Matches, RTL!IsSub

\* An enumeration has the same numbers in both.
LEMMA EnumsMatch ==
  \A e \in DOMAIN RTL!SVEnums :
    /\ e \notin DOMAIN RTL!SVStructs /\ RTL!SVEnums[e][1] \in Nat \ {0}
    /\ Enums[e] = 0 .. RTL!SVEnums[e][2]
<1>1. DOMAIN RTL!SVEnums = {"FuncUnit", "Flags", "IFetchFault", "FlushCause", "MemC_Cmd", "BranchType",
                            "RetStackAction", "HistoryAction", "BranchTargetSpec"}
  BY DEF RTL!SVEnums
<1>2. \A e \in DOMAIN RTL!SVEnums : e \notin DOMAIN RTL!SVStructs /\ RTL!SVEnums[e][1] \in Nat \ {0}
  BY <1>1, Declared DEF RTL!SVEnums
<1>3. /\ Enums["FuncUnit"] = 0 .. RTL!SVEnums["FuncUnit"][2]
      /\ Enums["Flags"] = 0 .. RTL!SVEnums["Flags"][2]
      /\ Enums["IFetchFault"] = 0 .. RTL!SVEnums["IFetchFault"][2]
      /\ Enums["FlushCause"] = 0 .. RTL!SVEnums["FlushCause"][2]
      /\ Enums["MemC_Cmd"] = 0 .. RTL!SVEnums["MemC_Cmd"][2]
      /\ Enums["BranchType"] = 0 .. RTL!SVEnums["BranchType"][2]
      /\ Enums["RetStackAction"] = 0 .. RTL!SVEnums["RetStackAction"][2]
      /\ Enums["HistoryAction"] = 0 .. RTL!SVEnums["HistoryAction"][2]
      /\ Enums["BranchTargetSpec"] = 0 .. RTL!SVEnums["BranchTargetSpec"][2]
  BY DEF RTL!SVEnums, Enums, FuncUnit, Flags, IFetchFault, FlushCause, MemC_Cmd, BranchType,
     RetStackAction, HistoryAction, BranchTargetSpec
<1>4. QED  BY <1>1, <1>2, <1>3

LEMMA EnumerationMatches ==
  \A n, s : \A e \in DOMAIN RTL!SVEnums : Matches(E(n, s, RTL!SVEnums[e][1], e), RTL!T(n, e))
<1> SUFFICES ASSUME NEW n, NEW s, NEW e \in DOMAIN RTL!SVEnums
             PROVE  Matches(E(n, s, RTL!SVEnums[e][1], e), RTL!T(n, e))
  OBVIOUS
<1> PICK w \in Nat \ {0} : w = RTL!SVEnums[e][1]  BY EnumsMatch
<1>1. E(n, s, w, e).name = n /\ E(n, s, w, e).w = w /\ E(n, s, w, e).kind = "enum" /\ E(n, s, w, e).of = e
  BY DEF E
<1>2. RTL!T(n, e).name = n /\ RTL!T(n, e).w = 1 /\ RTL!T(n, e).t = e  BY DEF RTL!T
<1>3. RTL!TypeWidth(e) = w  BY EnumsMatch DEF RTL!TypeWidth, RTL!EnumWidth
<1>4. 1 * w = w  BY SMT
<1>5. QED  BY <1>1, <1>2, <1>3, <1>4, EnumsMatch DEF Matches, RTL!IsSub

LEMMA EnumWidths ==
  /\ "FuncUnit" \in DOMAIN RTL!SVEnums /\ RTL!SVEnums["FuncUnit"][1] = 4
  /\ "Flags" \in DOMAIN RTL!SVEnums /\ RTL!SVEnums["Flags"][1] = 4
  /\ "IFetchFault" \in DOMAIN RTL!SVEnums /\ RTL!SVEnums["IFetchFault"][1] = 2
  /\ "FlushCause" \in DOMAIN RTL!SVEnums /\ RTL!SVEnums["FlushCause"][1] = 3
  /\ "MemC_Cmd" \in DOMAIN RTL!SVEnums /\ RTL!SVEnums["MemC_Cmd"][1] = 4
  /\ "BranchType" \in DOMAIN RTL!SVEnums /\ RTL!SVEnums["BranchType"][1] = 2
  /\ "RetStackAction" \in DOMAIN RTL!SVEnums /\ RTL!SVEnums["RetStackAction"][1] = 2
  /\ "HistoryAction" \in DOMAIN RTL!SVEnums /\ RTL!SVEnums["HistoryAction"][1] = 3
  /\ "BranchTargetSpec" \in DOMAIN RTL!SVEnums /\ RTL!SVEnums["BranchTargetSpec"][1] = 2
  BY DEF RTL!SVEnums

LEMMA EnumMatches ==
  \A n, s :
    /\ Matches(E(n, s, 4, "FuncUnit"), RTL!T(n, "FuncUnit"))
    /\ Matches(E(n, s, 4, "Flags"), RTL!T(n, "Flags"))
    /\ Matches(E(n, s, 2, "IFetchFault"), RTL!T(n, "IFetchFault"))
    /\ Matches(E(n, s, 3, "FlushCause"), RTL!T(n, "FlushCause"))
    /\ Matches(E(n, s, 4, "MemC_Cmd"), RTL!T(n, "MemC_Cmd"))
    /\ Matches(E(n, s, 2, "BranchType"), RTL!T(n, "BranchType"))
    /\ Matches(E(n, s, 2, "RetStackAction"), RTL!T(n, "RetStackAction"))
    /\ Matches(E(n, s, 3, "HistoryAction"), RTL!T(n, "HistoryAction"))
    /\ Matches(E(n, s, 2, "BranchTargetSpec"), RTL!T(n, "BranchTargetSpec"))
  BY EnumerationMatches, EnumWidths

\* A struct of the header has n fields, one after the other from below; no field of it is a struct.
Chain(h, n) ==
  /\ n \in Nat \ {0} /\ DOMAIN h.fields = 1 .. n
  /\ h.fields[1].s = 0 /\ \A j \in 1 .. n - 1 : h.fields[j + 1].s = h.fields[j].s + h.fields[j].w
  /\ h.size = h.fields[n].s + h.fields[n].w

Plain(h, n) == \A j \in 1 .. n : h.fields[j].kind # "struct"

LEMMA BIs == \A n, s, w : B(n, s, w).s = s /\ B(n, s, w).w = w /\ B(n, s, w).kind = "bits"
  BY DEF B
LEMMA EIs == \A n, s, w, e : E(n, s, w, e).s = s /\ E(n, s, w, e).w = w /\ E(n, s, w, e).kind = "enum"
  BY DEF E
LEMMA SIs ==
  \A n, s, w, e : /\ S(n, s, w, e).name = n /\ S(n, s, w, e).s = s /\ S(n, s, w, e).w = w
                  /\ S(n, s, w, e).kind = "struct" /\ S(n, s, w, e).of = e
  BY DEF S

LEMMA ChainAgrees ==
  ASSUME NEW t, NEW h, Structs[t] = h, NEW n, Count(t) = n, Chain(h, n),
         \A j \in 1 .. n : Matches(h.fields[j], RTL!Field(t, j))
  PROVE  Agrees(t)
  BY DEF Agrees, Chain

LEMMA PlainHeader ==
  ASSUME NEW t, NEW h, Structs[t] = h, NEW n, Chain(h, n), Plain(h, n)
  PROVE  \A f \in Fields(t) : f.kind # "struct"
  BY DEF Fields, Chain, Plain

\* The structs, one by one.
LEMMA MemController_SglLdResAgrees ==
  ASSUME HeaderConfig
  PROVE  Agrees("MemController_SglLdRes") /\ \A f \in Fields("MemController_SglLdRes") : f.kind # "struct"
<1>1. Structs["MemController_SglLdRes"] = MemController_SglLdRes /\ Count("MemController_SglLdRes") = 3
  BY Declared, Lengths DEF Structs, Count
<1>2. Chain(MemController_SglLdRes, 3) /\ Plain(MemController_SglLdRes, 3)
  BY BIs DEF Chain, Plain, MemController_SglLdRes
<1>3. \A j \in 1 .. 3 : Matches(MemController_SglLdRes.fields[j], RTL!Field("MemController_SglLdRes", j))
  BY Configured, PlainMatches, Declared, Lengths
     DEF RTL!SV_MemController_SglLdRes, RTL!Field, MemController_SglLdRes
<1>4. QED  BY <1>1, <1>2, <1>3, ChainAgrees, PlainHeader

LEMMA MemController_SglStResAgrees ==
  ASSUME HeaderConfig
  PROVE  Agrees("MemController_SglStRes") /\ \A f \in Fields("MemController_SglStRes") : f.kind # "struct"
<1>1. Structs["MemController_SglStRes"] = MemController_SglStRes /\ Count("MemController_SglStRes") = 2
  BY Declared, Lengths DEF Structs, Count
<1>2. Chain(MemController_SglStRes, 2) /\ Plain(MemController_SglStRes, 2)
  BY BIs DEF Chain, Plain, MemController_SglStRes
<1>3. \A j \in 1 .. 2 : Matches(MemController_SglStRes.fields[j], RTL!Field("MemController_SglStRes", j))
  BY Configured, PlainMatches, Declared, Lengths
     DEF RTL!SV_MemController_SglStRes, RTL!Field, MemController_SglStRes
<1>4. QED  BY <1>1, <1>2, <1>3, ChainAgrees, PlainHeader

LEMMA MemController_LdDataFwdAgrees ==
  ASSUME HeaderConfig
  PROVE  Agrees("MemController_LdDataFwd") /\ \A f \in Fields("MemController_LdDataFwd") : f.kind # "struct"
<1>1. Structs["MemController_LdDataFwd"] = MemController_LdDataFwd /\ Count("MemController_LdDataFwd") = 3
  BY Declared, Lengths DEF Structs, Count
<1>2. Chain(MemController_LdDataFwd, 3) /\ Plain(MemController_LdDataFwd, 3)
  BY BIs DEF Chain, Plain, MemController_LdDataFwd
<1>3. \A j \in 1 .. 3 : Matches(MemController_LdDataFwd.fields[j], RTL!Field("MemController_LdDataFwd", j))
  BY Configured, PlainMatches, Declared, Lengths
     DEF RTL!SV_MemController_LdDataFwd, RTL!Field, MemController_LdDataFwd
<1>4. QED  BY <1>1, <1>2, <1>3, ChainAgrees, PlainHeader

LEMMA MemController_ReqAgrees ==
  ASSUME HeaderConfig
  PROVE  Agrees("MemController_Req") /\ \A f \in Fields("MemController_Req") : f.kind # "struct"
<1>1. Structs["MemController_Req"] = MemController_Req /\ Count("MemController_Req") = 7
  BY Declared, Lengths DEF Structs, Count
<1>2. Chain(MemController_Req, 7) /\ Plain(MemController_Req, 7)
  BY BIs, EIs DEF Chain, Plain, MemController_Req
<1>3. \A j \in 1 .. 7 : Matches(MemController_Req.fields[j], RTL!Field("MemController_Req", j))
  BY Configured, PlainMatches, EnumMatches, Declared, Lengths
     DEF RTL!SV_MemController_Req, RTL!Field, MemController_Req
<1>4. QED  BY <1>1, <1>2, <1>3, ChainAgrees, PlainHeader

LEMMA PredBranchAgrees ==
  ASSUME HeaderConfig
  PROVE  Agrees("PredBranch") /\ \A f \in Fields("PredBranch") : f.kind # "struct"
<1>1. Structs["PredBranch"] = PredBranch /\ Count("PredBranch") = 8
  BY Declared, Lengths DEF Structs, Count
<1>2. Chain(PredBranch, 8) /\ Plain(PredBranch, 8)
  BY BIs, EIs DEF Chain, Plain, PredBranch
<1>3. \A j \in 1 .. 8 : Matches(PredBranch.fields[j], RTL!Field("PredBranch", j))
  BY Configured, PlainMatches, EnumMatches, Declared, Lengths
     DEF RTL!SV_PredBranch, RTL!Field, PredBranch
<1>4. QED  BY <1>1, <1>2, <1>3, ChainAgrees, PlainHeader

LEMMA BranchPredInfoAgrees ==
  ASSUME HeaderConfig
  PROVE  Agrees("BranchPredInfo") /\ \A f \in Fields("BranchPredInfo") : f.kind # "struct"
<1>1. Structs["BranchPredInfo"] = BranchPredInfo /\ Count("BranchPredInfo") = 1
  BY Declared, Lengths DEF Structs, Count
<1>2. Chain(BranchPredInfo, 1) /\ Plain(BranchPredInfo, 1)
  BY BIs DEF Chain, Plain, BranchPredInfo
<1>3. \A j \in 1 .. 1 : Matches(BranchPredInfo.fields[j], RTL!Field("BranchPredInfo", j))
  BY Configured, PlainMatches, Declared, Lengths
     DEF RTL!SV_BranchPredInfo, RTL!Field, BranchPredInfo
<1>4. QED  BY <1>1, <1>2, <1>3, ChainAgrees, PlainHeader

LEMMA BranchProvAgrees ==
  ASSUME HeaderConfig
  PROVE  Agrees("BranchProv") /\ \A f \in Fields("BranchProv") : f.kind # "struct"
<1>1. Structs["BranchProv"] = BranchProv /\ Count("BranchProv") = 13
  BY Declared, Lengths DEF Structs, Count
<1>2. Chain(BranchProv, 13) /\ Plain(BranchProv, 13)
  BY BIs, EIs DEF Chain, Plain, BranchProv
<1>3. \A j \in 1 .. 13 : Matches(BranchProv.fields[j], RTL!Field("BranchProv", j))
  BY Configured, PlainMatches, EnumMatches, Declared, Lengths
     DEF RTL!SV_BranchProv, RTL!Field, BranchProv
<1>4. QED  BY <1>1, <1>2, <1>3, ChainAgrees, PlainHeader

LEMMA BPBackupAgrees ==
  ASSUME HeaderConfig
  PROVE  Agrees("BPBackup") /\ \A f \in Fields("BPBackup") : f.kind # "struct"
<1>1. Structs["BPBackup"] = BPBackup /\ Count("BPBackup") = 8
  BY Declared, Lengths DEF Structs, Count
<1>2. Chain(BPBackup, 8) /\ Plain(BPBackup, 8)
  BY BIs DEF Chain, Plain, BPBackup
<1>3. \A j \in 1 .. 8 : Matches(BPBackup.fields[j], RTL!Field("BPBackup", j))
  BY Configured, PlainMatches, Declared, Lengths
     DEF RTL!SV_BPBackup, RTL!Field, BPBackup
<1>4. QED  BY <1>1, <1>2, <1>3, ChainAgrees, PlainHeader

LEMMA IF_InstrAgrees ==
  ASSUME HeaderConfig
  PROVE  Agrees("IF_Instr") /\ \A f \in Fields("IF_Instr") : f.kind # "struct"
<1>1. Structs["IF_Instr"] = IF_Instr /\ Count("IF_Instr") = 10
  BY Declared, Lengths DEF Structs, Count
<1>2. Chain(IF_Instr, 10) /\ Plain(IF_Instr, 10)
  BY BIs, EIs DEF Chain, Plain, IF_Instr
<1>3. \A j \in 1 .. 10 : Matches(IF_Instr.fields[j], RTL!Field("IF_Instr", j))
  BY Configured, PlainMatches, EnumMatches, Declared, Lengths
     DEF RTL!SV_IF_Instr, RTL!Field, IF_Instr
<1>4. QED  BY <1>1, <1>2, <1>3, ChainAgrees, PlainHeader

LEMMA PD_InstrAgrees ==
  ASSUME HeaderConfig
  PROVE  Agrees("PD_Instr") /\ \A f \in Fields("PD_Instr") : f.kind # "struct"
<1>1. Structs["PD_Instr"] = PD_Instr /\ Count("PD_Instr") = 10
  BY Declared, Lengths DEF Structs, Count
<1>2. Chain(PD_Instr, 10) /\ Plain(PD_Instr, 10)
  BY BIs, EIs DEF Chain, Plain, PD_Instr
<1>3. \A j \in 1 .. 10 : Matches(PD_Instr.fields[j], RTL!Field("PD_Instr", j))
  BY Configured, PlainMatches, EnumMatches, Declared, Lengths
     DEF RTL!SV_PD_Instr, RTL!Field, PD_Instr
<1>4. QED  BY <1>1, <1>2, <1>3, ChainAgrees, PlainHeader

LEMMA D_UOpAgrees ==
  ASSUME HeaderConfig
  PROVE  Agrees("D_UOp") /\ \A f \in Fields("D_UOp") : f.kind # "struct"
<1>1. Structs["D_UOp"] = D_UOp /\ Count("D_UOp") = 12
  BY Declared, Lengths DEF Structs, Count
<1>2. Chain(D_UOp, 12) /\ Plain(D_UOp, 12)
  BY BIs, EIs DEF Chain, Plain, D_UOp
<1>3. \A j \in 1 .. 12 : Matches(D_UOp.fields[j], RTL!Field("D_UOp", j))
  BY Configured, PlainMatches, EnumMatches, Declared, Lengths
     DEF RTL!SV_D_UOp, RTL!Field, D_UOp
<1>4. QED  BY <1>1, <1>2, <1>3, ChainAgrees, PlainHeader

LEMMA R_UOpAgrees ==
  ASSUME HeaderConfig
  PROVE  Agrees("R_UOp") /\ \A f \in Fields("R_UOp") : f.kind # "struct"
<1>1. Structs["R_UOp"] = R_UOp /\ Count("R_UOp") = 21
  BY Declared, Lengths DEF Structs, Count
<1>2. Chain(R_UOp, 21) /\ Plain(R_UOp, 21)
  BY BIs, EIs DEF Chain, Plain, R_UOp
<1>3. \A j \in 1 .. 21 : Matches(R_UOp.fields[j], RTL!Field("R_UOp", j))
  BY Configured, PlainMatches, EnumMatches, Declared, Lengths
     DEF RTL!SV_R_UOp, RTL!Field, R_UOp
<1>4. QED  BY <1>1, <1>2, <1>3, ChainAgrees, PlainHeader

LEMMA IS_UOpAgrees ==
  ASSUME HeaderConfig
  PROVE  Agrees("IS_UOp") /\ \A f \in Fields("IS_UOp") : f.kind # "struct"
<1>1. Structs["IS_UOp"] = IS_UOp /\ Count("IS_UOp") = 17
  BY Declared, Lengths DEF Structs, Count
<1>2. Chain(IS_UOp, 17) /\ Plain(IS_UOp, 17)
  BY BIs, EIs DEF Chain, Plain, IS_UOp
<1>3. \A j \in 1 .. 17 : Matches(IS_UOp.fields[j], RTL!Field("IS_UOp", j))
  BY Configured, PlainMatches, EnumMatches, Declared, Lengths
     DEF RTL!SV_IS_UOp, RTL!Field, IS_UOp
<1>4. QED  BY <1>1, <1>2, <1>3, ChainAgrees, PlainHeader

LEMMA RES_UOpAgrees ==
  ASSUME HeaderConfig
  PROVE  Agrees("RES_UOp") /\ \A f \in Fields("RES_UOp") : f.kind # "struct"
<1>1. Structs["RES_UOp"] = RES_UOp /\ Count("RES_UOp") = 6
  BY Declared, Lengths DEF Structs, Count
<1>2. Chain(RES_UOp, 6) /\ Plain(RES_UOp, 6)
  BY BIs, EIs DEF Chain, Plain, RES_UOp
<1>3. \A j \in 1 .. 6 : Matches(RES_UOp.fields[j], RTL!Field("RES_UOp", j))
  BY Configured, PlainMatches, EnumMatches, Declared, Lengths
     DEF RTL!SV_RES_UOp, RTL!Field, RES_UOp
<1>4. QED  BY <1>1, <1>2, <1>3, ChainAgrees, PlainHeader

LEMMA FlagsUOpAgrees ==
  ASSUME HeaderConfig
  PROVE  Agrees("FlagsUOp") /\ \A f \in Fields("FlagsUOp") : f.kind # "struct"
<1>1. Structs["FlagsUOp"] = FlagsUOp /\ Count("FlagsUOp") = 5
  BY Declared, Lengths DEF Structs, Count
<1>2. Chain(FlagsUOp, 5) /\ Plain(FlagsUOp, 5)
  BY BIs, EIs DEF Chain, Plain, FlagsUOp
<1>3. \A j \in 1 .. 5 : Matches(FlagsUOp.fields[j], RTL!Field("FlagsUOp", j))
  BY Configured, PlainMatches, EnumMatches, Declared, Lengths
     DEF RTL!SV_FlagsUOp, RTL!Field, FlagsUOp
<1>4. QED  BY <1>1, <1>2, <1>3, ChainAgrees, PlainHeader

LEMMA ResultUOpAgrees ==
  ASSUME HeaderConfig
  PROVE  Agrees("ResultUOp") /\ \A f \in Fields("ResultUOp") : f.kind # "struct"
<1>1. Structs["ResultUOp"] = ResultUOp /\ Count("ResultUOp") = 4
  BY Declared, Lengths DEF Structs, Count
<1>2. Chain(ResultUOp, 4) /\ Plain(ResultUOp, 4)
  BY BIs DEF Chain, Plain, ResultUOp
<1>3. \A j \in 1 .. 4 : Matches(ResultUOp.fields[j], RTL!Field("ResultUOp", j))
  BY Configured, PlainMatches, Declared, Lengths
     DEF RTL!SV_ResultUOp, RTL!Field, ResultUOp
<1>4. QED  BY <1>1, <1>2, <1>3, ChainAgrees, PlainHeader

LEMMA LD_UOpAgrees ==
  ASSUME HeaderConfig
  PROVE  Agrees("LD_UOp") /\ \A f \in Fields("LD_UOp") : f.kind # "struct"
<1>1. Structs["LD_UOp"] = LD_UOp /\ Count("LD_UOp") = 14
  BY Declared, Lengths DEF Structs, Count
<1>2. Chain(LD_UOp, 14) /\ Plain(LD_UOp, 14)
  BY BIs DEF Chain, Plain, LD_UOp
<1>3. \A j \in 1 .. 14 : Matches(LD_UOp.fields[j], RTL!Field("LD_UOp", j))
  BY Configured, PlainMatches, Declared, Lengths
     DEF RTL!SV_LD_UOp, RTL!Field, LD_UOp
<1>4. QED  BY <1>1, <1>2, <1>3, ChainAgrees, PlainHeader

LEMMA ST_UOpAgrees ==
  ASSUME HeaderConfig
  PROVE  Agrees("ST_UOp") /\ \A f \in Fields("ST_UOp") : f.kind # "struct"
<1>1. Structs["ST_UOp"] = ST_UOp /\ Count("ST_UOp") = 8
  BY Declared, Lengths DEF Structs, Count
<1>2. Chain(ST_UOp, 8) /\ Plain(ST_UOp, 8)
  BY BIs DEF Chain, Plain, ST_UOp
<1>3. \A j \in 1 .. 8 : Matches(ST_UOp.fields[j], RTL!Field("ST_UOp", j))
  BY Configured, PlainMatches, Declared, Lengths
     DEF RTL!SV_ST_UOp, RTL!Field, ST_UOp
<1>4. QED  BY <1>1, <1>2, <1>3, ChainAgrees, PlainHeader

LEMMA CommitUOpAgrees ==
  ASSUME HeaderConfig
  PROVE  Agrees("CommitUOp") /\ \A f \in Fields("CommitUOp") : f.kind # "struct"
<1>1. Structs["CommitUOp"] = CommitUOp /\ Count("CommitUOp") = 7
  BY Declared, Lengths DEF Structs, Count
<1>2. Chain(CommitUOp, 7) /\ Plain(CommitUOp, 7)
  BY BIs DEF Chain, Plain, CommitUOp
<1>3. \A j \in 1 .. 7 : Matches(CommitUOp.fields[j], RTL!Field("CommitUOp", j))
  BY Configured, PlainMatches, Declared, Lengths
     DEF RTL!SV_CommitUOp, RTL!Field, CommitUOp
<1>4. QED  BY <1>1, <1>2, <1>3, ChainAgrees, PlainHeader

LEMMA Trap_UOpAgrees ==
  ASSUME HeaderConfig
  PROVE  Agrees("Trap_UOp") /\ \A f \in Fields("Trap_UOp") : f.kind # "struct"
<1>1. Structs["Trap_UOp"] = Trap_UOp /\ Count("Trap_UOp") = 11
  BY Declared, Lengths DEF Structs, Count
<1>2. Chain(Trap_UOp, 11) /\ Plain(Trap_UOp, 11)
  BY BIs, EIs DEF Chain, Plain, Trap_UOp
<1>3. \A j \in 1 .. 11 : Matches(Trap_UOp.fields[j], RTL!Field("Trap_UOp", j))
  BY Configured, PlainMatches, EnumMatches, Declared, Lengths
     DEF RTL!SV_Trap_UOp, RTL!Field, Trap_UOp
<1>4. QED  BY <1>1, <1>2, <1>3, ChainAgrees, PlainHeader


\* Structs with structs in them: those have no others in them, and fill their fields.
LEMMA TIs == \A n, t : RTL!T(n, t).name = n /\ RTL!T(n, t).w = 1 /\ RTL!T(n, t).t = t
  BY DEF RTL!T

\* A field that is not a struct.
IsLeaf(f) == f.t \notin DOMAIN RTL!SVStructs

LEMMA LIsLeaf == \A n, w : IsLeaf(RTL!L(n, w))
<1> SUFFICES ASSUME NEW n, NEW w  PROVE IsLeaf(RTL!L(n, w))  OBVIOUS
<1> PICK f : f = RTL!L(n, w)  OBVIOUS
<1>1. f.t = ""  BY LIs
<1>2. QED  BY <1>1, Untyped DEF IsLeaf

LEMMA BranchTypeIsLeaf == \A n : IsLeaf(RTL!T(n, "BranchType"))
<1> SUFFICES ASSUME NEW n  PROVE IsLeaf(RTL!T(n, "BranchType"))  OBVIOUS
<1> PICK f : f = RTL!T(n, "BranchType")  OBVIOUS
<1>1. f.t = "BranchType"  BY TIs
<1>2. "BranchType" \notin DOMAIN RTL!SVStructs  BY Declared
<1>3. QED  BY <1>1, <1>2 DEF IsLeaf

LEMMA LeavesAreFlat ==
  ASSUME NEW t, NEW n, Count(t) = n, \A j \in 1 .. n : IsLeaf(RTL!Field(t, j))
  PROVE  IsFlat(t)
  BY DEF IsFlat, IsLeaf

LEMMA FlatStructs ==
  /\ IsFlat("PredBranch") /\ IsFlat("BranchPredInfo") /\ IsFlat("MemController_SglStRes")
  /\ IsFlat("MemController_SglLdRes") /\ IsFlat("MemController_LdDataFwd") /\ IsFlat("MemController_Transf")
<1>1. IsFlat("PredBranch")
  <2>1. Count("PredBranch") = 8  BY Declared, Lengths DEF Count
  <2>2. \A j \in 1 .. 8 : IsLeaf(RTL!Field("PredBranch", j))
    BY Declared, Lengths, LIsLeaf, BranchTypeIsLeaf DEF RTL!Field, RTL!SV_PredBranch
  <2> QED  BY <2>1, <2>2, LeavesAreFlat
<1>2. IsFlat("BranchPredInfo")
  <2>1. Count("BranchPredInfo") = 1  BY Declared, Lengths DEF Count
  <2>2. \A j \in 1 .. 1 : IsLeaf(RTL!Field("BranchPredInfo", j))
    BY Declared, Lengths, LIsLeaf DEF RTL!Field, RTL!SV_BranchPredInfo
  <2> QED  BY <2>1, <2>2, LeavesAreFlat
<1>3. IsFlat("MemController_SglStRes")
  <2>1. Count("MemController_SglStRes") = 2  BY Declared, Lengths DEF Count
  <2>2. \A j \in 1 .. 2 : IsLeaf(RTL!Field("MemController_SglStRes", j))
    BY Declared, Lengths, LIsLeaf DEF RTL!Field, RTL!SV_MemController_SglStRes
  <2> QED  BY <2>1, <2>2, LeavesAreFlat
<1>4. IsFlat("MemController_SglLdRes")
  <2>1. Count("MemController_SglLdRes") = 3  BY Declared, Lengths DEF Count
  <2>2. \A j \in 1 .. 3 : IsLeaf(RTL!Field("MemController_SglLdRes", j))
    BY Declared, Lengths, LIsLeaf DEF RTL!Field, RTL!SV_MemController_SglLdRes
  <2> QED  BY <2>1, <2>2, LeavesAreFlat
<1>5. IsFlat("MemController_LdDataFwd")
  <2>1. Count("MemController_LdDataFwd") = 3  BY Declared, Lengths DEF Count
  <2>2. \A j \in 1 .. 3 : IsLeaf(RTL!Field("MemController_LdDataFwd", j))
    BY Declared, Lengths, LIsLeaf DEF RTL!Field, RTL!SV_MemController_LdDataFwd
  <2> QED  BY <2>1, <2>2, LeavesAreFlat
<1>6. IsFlat("MemController_Transf")
  <2>1. Count("MemController_Transf") = 7  BY Declared, Lengths DEF Count
  <2>2. \A j \in 1 .. 7 : IsLeaf(RTL!Field("MemController_Transf", j))
    BY Declared, Lengths, LIsLeaf DEF RTL!Field, RTL!SV_MemController_Transf
  <2> QED  BY <2>1, <2>2, LeavesAreFlat
<1>7. QED  BY <1>1, <1>2, <1>3, <1>4, <1>5, <1>6

LEMMA StructMatches ==
  ASSUME NEW u \in DOMAIN RTL!SVStructs, Agrees(u), IsFlat(u), NEW n, NEW s, NEW w, w = Structs[u].size
  PROVE  Matches(S(n, s, w, u), RTL!T(n, u))
<1> PICK m \in Nat \ {0} : m = Count(u)  BY DEF Agrees
<1>1. w = RTL!TypeWidth(u)
  BY HeaderLow, FlatWidths DEF RTL!TypeWidth, Count
<1>2. w \in Nat \ {0}
  <2> PICK h : h = Structs[u].fields[1]  OBVIOUS
  <2>1. 1 \in 1 .. m  BY SMT
  <2>2. w \in Nat /\ h.w \in Nat \ {0} /\ h.s \in Nat /\ h.s + h.w <= w
    BY <2>1, HeaderLow
  <2> QED  BY <2>2, SMT
<1>3. 1 * w = w  BY <1>2, SMT
<1> PICK h : h = S(n, s, w, u)  OBVIOUS
<1> PICK f : f = RTL!T(n, u)  OBVIOUS
<1>4. h.name = n /\ h.w = w /\ h.kind = "struct" /\ h.of = u  BY SIs
<1>5. f.name = n /\ f.w = 1 /\ f.t = u  BY TIs
<1>6. QED  BY <1>1, <1>2, <1>3, <1>4, <1>5 DEF Matches, RTL!IsSub

\* The transfers of the memory controller are an array of structs that the header keeps as bits.
LEMMA TransferWidth ==
  ASSUME HeaderConfig
  PROVE  RTL!TypeWidth("MemController_Transf") = 84
<1> PICK W : W = RTL!Widths("MemController_Transf")  OBVIOUS
<1>1. /\ Count("MemController_Transf") = 7 /\ 7 \in Nat /\ Len(RTL!SVStructs["MemController_Transf"]) = 7
      /\ "MemController_Transf" \in DOMAIN RTL!SVStructs
  BY Declared, Lengths DEF Count
<1>2. \A j \in 1 .. 7 : IsVector(RTL!Field("MemController_Transf", j))
  <2>1. CACHE_SIZE_E - 2 \in Nat /\ CLSIZE_E - 1 \in Nat  BY Configured
  <2> QED
    BY <2>1, Declared, Lengths, LIsVector DEF RTL!Field, RTL!SV_MemController_Transf, RTL!CacheID_w
<1>3. \A j \in 1 .. 7 : W[j] = RTL!Field("MemController_Transf", j).w
  <2>1. \A j \in 1 .. 7 : W[j] = RTL!Field("MemController_Transf", j).w * 1
    BY <1>1, <1>2, UntypedWidth DEF RTL!Widths, IsVector
  <2> QED  BY <1>2, <2>1, TimesOne DEF IsVector
<1>4. \A n, w : RTL!L(n, w).w = w  BY LIs
<1>5. W[1] = 1 /\ W[2] = 1 /\ W[3] = 1 /\ W[4] = 5 /\ W[5] = 12 /\ W[6] = 32 /\ W[7] = 32
  BY <1>3, <1>4, Configured, Declared, Lengths DEF RTL!Field, RTL!SV_MemController_Transf
<1>6. Len(W) = 7  BY <1>1, WidthsLen
<1>7. RTL!Low(W, 1) = 0 /\ \A j \in 1 .. 7 : RTL!Low(W, j + 1) = RTL!Low(W, j) + W[j]
  <2> PICK n \in Nat : n = Len(W)  BY <1>6
  <2> QED  BY <1>6, LowIs
<1>8. RTL!Low(W, 7 + 1) = 84  BY <1>5, <1>7, SMT
<1>9. RTL!InnerWidths("MemController_Transf") = W  BY <1>1, FlatStructs, FlatWidths
<1>10. QED  BY <1>1, <1>8, <1>9 DEF RTL!TypeWidth

LEMMA TransfersMatch ==
  ASSUME HeaderConfig, NEW s
  PROVE  Matches(B("transfers", s, 336), RTL!A("transfers", AXI_NUM_TRANS, "MemController_Transf"))
<1> PICK f : f = RTL!A("transfers", AXI_NUM_TRANS, "MemController_Transf")  OBVIOUS
<1>1. f.name = "transfers" /\ f.w = 4 /\ f.t = "MemController_Transf"  BY Configured DEF RTL!A
<1>2. 4 * 84 = 336 /\ 336 \in Nat \ {0}  BY SMT
<1>3. B("transfers", s, 336).name = "transfers" /\ B("transfers", s, 336).w = 336
       /\ B("transfers", s, 336).kind = "bits"
  BY DEF B
<1>4. QED  BY <1>1, <1>2, <1>3, TransferWidth DEF Matches, RTL!IsSub

LEMMA IFetchOpAgrees ==
  ASSUME HeaderConfig
  PROVE  Agrees("IFetchOp") /\ \A f \in Fields("IFetchOp") : f.kind = "struct" => f.of = "PredBranch"
<1>1. Structs["IFetchOp"] = IFetchOp /\ Count("IFetchOp") = 8
  BY Declared, Lengths DEF Structs, Count
<1>2. Chain(IFetchOp, 8)
  BY BIs, EIs, SIs DEF Chain, IFetchOp
<1>3. \A n, s : Matches(S(n, s, 41, "PredBranch"), RTL!T(n, "PredBranch"))
  <2>1. Structs["PredBranch"].size = 41  BY DEF Structs, PredBranch
  <2> QED  BY <2>1, PredBranchAgrees, FlatStructs, StructMatches, Declared
<1>4. \A j \in 1 .. 8 : Matches(IFetchOp.fields[j], RTL!Field("IFetchOp", j))
  BY <1>3, Configured, PlainMatches, EnumMatches, Declared, Lengths
     DEF RTL!SV_IFetchOp, RTL!Field, IFetchOp
<1>5. \A j \in 1 .. 8 : IFetchOp.fields[j].kind = "struct" => IFetchOp.fields[j].of = "PredBranch"
  BY BIs, EIs, SIs DEF IFetchOp
<1>6. QED  BY <1>1, <1>2, <1>4, <1>5, ChainAgrees DEF Fields, Chain

LEMMA EX_UOpAgrees ==
  ASSUME HeaderConfig
  PROVE  Agrees("EX_UOp") /\ \A f \in Fields("EX_UOp") : f.kind = "struct" => f.of = "BranchPredInfo"
<1>1. Structs["EX_UOp"] = EX_UOp /\ Count("EX_UOp") = 17
  BY Declared, Lengths DEF Structs, Count
<1>2. Chain(EX_UOp, 17)
  BY BIs, EIs, SIs DEF Chain, EX_UOp
<1>3. \A n, s : Matches(S(n, s, 1, "BranchPredInfo"), RTL!T(n, "BranchPredInfo"))
  <2>1. Structs["BranchPredInfo"].size = 1  BY DEF Structs, BranchPredInfo
  <2> QED  BY <2>1, BranchPredInfoAgrees, FlatStructs, StructMatches, Declared
<1>4. \A j \in 1 .. 17 : Matches(EX_UOp.fields[j], RTL!Field("EX_UOp", j))
  BY <1>3, Configured, PlainMatches, EnumMatches, Declared, Lengths
     DEF RTL!SV_EX_UOp, RTL!Field, EX_UOp
<1>5. \A j \in 1 .. 17 : EX_UOp.fields[j].kind = "struct" => EX_UOp.fields[j].of = "BranchPredInfo"
  BY BIs, EIs, SIs DEF EX_UOp
<1>6. QED  BY <1>1, <1>2, <1>4, <1>5, ChainAgrees DEF Fields, Chain

LEMMA MemController_ResAgrees ==
  ASSUME HeaderConfig
  PROVE  /\ Agrees("MemController_Res")
         /\ \A f \in Fields("MemController_Res") : f.kind = "struct" =>
              f.of \in {"MemController_SglStRes", "MemController_SglLdRes", "MemController_LdDataFwd"}
<1>1. Structs["MemController_Res"] = MemController_Res /\ Count("MemController_Res") = 6
  BY Declared, Lengths DEF Structs, Count
<1>2. Chain(MemController_Res, 6)
  BY BIs, SIs DEF Chain, MemController_Res
<1>3. /\ \A n, s : Matches(S(n, s, 13, "MemController_SglStRes"), RTL!T(n, "MemController_SglStRes"))
      /\ \A n, s : Matches(S(n, s, 45, "MemController_SglLdRes"), RTL!T(n, "MemController_SglLdRes"))
      /\ \A n, s : Matches(S(n, s, 161, "MemController_LdDataFwd"), RTL!T(n, "MemController_LdDataFwd"))
  <2>1. /\ Structs["MemController_SglStRes"].size = 13 /\ Structs["MemController_SglLdRes"].size = 45
        /\ Structs["MemController_LdDataFwd"].size = 161
    BY DEF Structs, MemController_SglStRes, MemController_SglLdRes, MemController_LdDataFwd
  <2> QED
    BY <2>1, MemController_SglStResAgrees, MemController_SglLdResAgrees, MemController_LdDataFwdAgrees,
       FlatStructs, StructMatches, Declared
<1>4. \A j \in 1 .. 6 : Matches(MemController_Res.fields[j], RTL!Field("MemController_Res", j))
  BY <1>3, Configured, PlainMatches, TransfersMatch, Declared, Lengths
     DEF RTL!SV_MemController_Res, RTL!Field, MemController_Res
<1>5. \A j \in 1 .. 6 : MemController_Res.fields[j].kind = "struct" =>
        MemController_Res.fields[j].of \in
          {"MemController_SglStRes", "MemController_SglLdRes", "MemController_LdDataFwd"}
  BY BIs, SIs DEF MemController_Res
<1>6. QED  BY <1>1, <1>2, <1>4, <1>5, ChainAgrees DEF Fields, Chain

\* The generated header agrees with the declarations, for the configuration it was
\* generated for: names, widths, positions, enumerators and sizes of all its structs
\* (slang.hpp is made from Include.sv and Config.sv, but kept as a file).
THEOREM HeaderCurrent ==
  ASSUME HeaderConfig
  PROVE  HeaderIsCurrent
<1> DEFINE Inner == {"PredBranch", "BranchPredInfo", "MemController_SglStRes",
                     "MemController_SglLdRes", "MemController_LdDataFwd"}
           Good(t) == Agrees(t) /\ \A f \in Fields(t) : f.kind = "struct" => f.of \in Inner
<1>1. /\ Good("MemController_SglLdRes") /\ Good("MemController_SglStRes")
      /\ Good("MemController_LdDataFwd") /\ Good("MemController_Req") /\ Good("PredBranch")
      /\ Good("BranchPredInfo") /\ Good("BranchProv") /\ Good("BPBackup") /\ Good("IF_Instr")
      /\ Good("PD_Instr") /\ Good("D_UOp") /\ Good("R_UOp") /\ Good("IS_UOp") /\ Good("RES_UOp")
      /\ Good("FlagsUOp") /\ Good("ResultUOp") /\ Good("LD_UOp") /\ Good("ST_UOp")
      /\ Good("CommitUOp") /\ Good("Trap_UOp")
  BY MemController_SglLdResAgrees, MemController_SglStResAgrees, MemController_LdDataFwdAgrees,
     MemController_ReqAgrees, PredBranchAgrees, BranchPredInfoAgrees, BranchProvAgrees,
     BPBackupAgrees, IF_InstrAgrees, PD_InstrAgrees, D_UOpAgrees, R_UOpAgrees, IS_UOpAgrees,
     RES_UOpAgrees, FlagsUOpAgrees, ResultUOpAgrees, LD_UOpAgrees, ST_UOpAgrees,
     CommitUOpAgrees, Trap_UOpAgrees
<1>2. Good("IFetchOp") /\ Good("EX_UOp") /\ Good("MemController_Res")
  BY IFetchOpAgrees, EX_UOpAgrees, MemController_ResAgrees
<1>3. DOMAIN Structs =
        {"MemController_SglLdRes", "MemController_SglStRes", "MemController_LdDataFwd",
         "MemController_Req", "MemController_Res", "PredBranch", "BranchPredInfo", "BranchProv",
         "BPBackup", "IFetchOp", "IF_Instr", "PD_Instr", "D_UOp", "R_UOp", "IS_UOp", "EX_UOp",
         "RES_UOp", "FlagsUOp", "ResultUOp", "LD_UOp", "ST_UOp", "CommitUOp", "Trap_UOp"}
  BY DEF Structs
<1>4. \A u \in Inner : u \in DOMAIN Structs /\ IsFlat(u)  BY <1>3, FlatStructs
<1>5. DOMAIN Structs \subseteq DOMAIN RTL!SVStructs  BY <1>3, Declared
<1>6. \A t \in DOMAIN Structs : Good(t)
  <2> HIDE DEF Good
  <2> QED  BY <1>1, <1>2, <1>3
<1> HIDE DEF Inner
<1>7. QED  BY <1>4, <1>5, <1>6 DEF HeaderIsCurrent

LEMMA WiresInvCorrect ==
  ASSUME HeaderConfig
  PROVE  WiresSpec => []WiresInv
<1>1. HeaderIsCurrent  BY HeaderCurrent
<1>2. WiresInit => WiresInv  BY WiresInit_Inv
<1>3. WiresInv /\ [WiresNext]_wireVars => WiresInv'  BY <1>1, WiresNext_Inv
<1>4. QED  BY <1>2, <1>3, PTL DEF WiresSpec

\* What the testbench finds in the wires is what the core drives, whatever it drives
\* (the reads of LogInstructions and GET in Top_tb.cpp, through sc_stub.hpp and slang.hpp).
THEOREM SeenIsDrivenCorrect ==
  ASSUME HeaderConfig
  PROVE  WiresSpec => []SeenIsDriven
<1>1. WiresInv => SeenIsDriven  BY DEF WiresInv
<1>2. QED  BY <1>1, WiresInvCorrect, PTL

\* No constructor of an enumeration throws: what is not valid is not taken apart
\* (the checks of valid and taken before GET in Top_tb.cpp).
THEOREM NeverThrowsCorrect ==
  ASSUME HeaderConfig
  PROVE  WiresSpec => []NeverThrows
<1>1. WiresInv => NeverThrows  BY DEF WiresInv
<1>2. QED  BY <1>1, WiresInvCorrect, PTL

=============================================================================
