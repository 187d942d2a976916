------------------------------- MODULE Fuzzer -------------------------------
(***************************************************************************)
(* src/sim/Fuzzer.hpp: test cases, which are programs cut into             *)
(* instructions, their way from and to memory, and their mutation.  Memory *)
(* is a sequence of halfwords; the two lowest bits of an instruction tell  *)
(* whether it has one halfword or two.                                     *)
(***************************************************************************)
EXTENDS Integers, Sequences

CONSTANT Bits   \* bound: halfwords have this many bits

ASSUME FuzzerAssumption == Bits \in Nat \ {0, 1}

Halfword == 0 .. 2 ^ Bits - 1

\* Instr: its lower and its upper halfword.
Instr == [lo : Halfword, hi : Halfword]

IsLong(instr) == instr.lo % 4 = 3
GetSize(instr) == IF IsLong(instr) THEN 2 ELSE 1

\* Where in memory the k-th instruction of a test case starts, and where the last one ends.
Start(prog, k) ==
  LET start[j \in 1 .. Len(prog) + 1] ==
        IF j = 1 THEN 0 ELSE start[j - 1] + GetSize(prog[j - 1])
  IN  start[k]

\* load: as many instructions as there are.  A long one that is cut off is dropped.
LoadFrom(mem) ==
  LET load[i \in 0 .. Len(mem)] ==
        IF i = Len(mem) THEN << >>
        ELSE LET long == mem[i + 1] % 4 = 3
             IN  IF ~long THEN << [lo |-> mem[i + 1], hi |-> 0] >> \o load[i + 1]
                 ELSE IF i + 1 = Len(mem) THEN << >>
                 ELSE << [lo |-> mem[i + 1], hi |-> mem[i + 2]] >> \o load[i + 2]
  IN  load[0]

\* Fault: every instruction is written with one halfword.
UnpackShort(prog, mem) ==
  [a \in DOMAIN mem |-> IF a <= Len(prog) THEN prog[a].lo ELSE mem[a]]

\* unpack: the instructions that fit are written one after the other, the rest of
\* memory keeps what it holds.
Unpack(prog, mem) ==
  [a \in DOMAIN mem |->
     LET K == {k \in DOMAIN prog : /\ Start(prog, k) < a /\ a <= Start(prog, k + 1)
                                   /\ \A j \in 1 .. k : Start(prog, j + 1) <= Len(mem)}
     IN  IF K = {} THEN mem[a]
         ELSE LET k == CHOOSE k \in K : TRUE
              IN  IF a = Start(prog, k) + 1 THEN prog[k].lo ELSE prog[k].hi]

FlipBit(h, b) == IF (h \div 2 ^ b) % 2 = 1 THEN h - 2 ^ b ELSE h + 2 ^ b

\* RandomBitflipTactic: one bit of one instruction, which may change its size.
Mutations(prog) ==
  LET flipped(instr, b) == IF b < Bits THEN [instr EXCEPT !.lo = FlipBit(@, b)]
                           ELSE [instr EXCEPT !.hi = FlipBit(@, b - Bits)]
  IN  UNION {{[prog EXCEPT ![k] = flipped(@, b)] : b \in 0 .. Bits * GetSize(prog[k]) - 1} :
               k \in DOMAIN prog}

=============================================================================
