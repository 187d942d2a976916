-------------------------------- MODULE ISA --------------------------------
(***************************************************************************)
(* The instruction set, one instruction at a time: what a program means.   *)
(* The reference model of the co-simulation (riscv-isa-sim, as             *)
(* src/sim/Simif.cpp steps it) executes by these definitions, and so does  *)
(* the in-order machine the core is compared with (InOrder).               *)
(*                                                                         *)
(* One instruction stands for each way an instruction can go through the   *)
(* core: ADD1 computes, LI is executed by rename, BEQZ and JALR redirect,  *)
(* RDCSR reads a counter the two sides do not agree on, LR and SC go to    *)
(* memory, CSRW has the pipeline flushed after it, ILL traps when it is    *)
(* executed and ECALL when it is decoded.                                  *)
(***************************************************************************)
EXTENDS Integers, Sequences

CONSTANTS
  Programs,     \* the programs that are run: sequences of instructions
  NumXRegs,     \* architectural registers, x0 included
  NumVals,      \* bound: values of a register are 0 .. NumVals - 1
  MinstretMod   \* bound: minstret counts modulo this

XReg  == 0 .. NumXRegs - 1
Val   == 0 .. NumVals - 1
Op    == {"ADD1", "LI", "BEQZ", "JALR", "RDCSR", "LR", "SC", "CSRW", "ILL", "ECALL"}
Instr == [op : Op, rd : XReg, rs : XReg, target : Nat]

ASSUME ISAAssumption ==
  /\ NumXRegs \in Nat \ {0} /\ NumVals \in Nat \ {0, 1} /\ MinstretMod \in Nat \ {0}
  /\ \A p \in Programs :
       /\ p \in Seq(Instr) /\ Len(p) > 0
       /\ \A k \in 1 .. Len(p) : p[k].target < Len(p) /\ (p[k].op = "ECALL" => p[k].rd = 0)

PCs(p) == 0 .. Len(p) - 1

\* The instruction at address a; execution wraps around at the end of memory.
At(p, a)   == p[a + 1]
Seq1(p, a) == (a + 1) % Len(p)

\* mtvec
Handler == 0

IsTrap(i) == i.op \in {"ILL", "ECALL"}

\* What instruction i at address a writes to its destination when its operand is v.
\* Loads find 0 in memory; a store-conditional returns 0 if it has stored.
ResultOf(i, a, v, reserved) ==
  CASE i.op = "ADD1" -> (v + 1) % NumVals
    [] i.op = "LI"   -> 1
    [] i.op = "JALR" -> (a + 1) % NumVals
    [] i.op = "SC"   -> IF reserved THEN 0 ELSE 1
    [] OTHER         -> 0

NextPC(p, a, v) ==
  LET i == At(p, a)
  IN  CASE IsTrap(i)                   -> Handler
        [] i.op = "BEQZ" /\ v = 0      -> i.target
        [] i.op = "JALR"               -> v % Len(p)
        [] OTHER                       -> Seq1(p, a)

SetReg(x, rd, v) == IF rd = 0 THEN x ELSE [x EXCEPT ![rd] = v]

\* Exceptions do not count as retired.
Retired(i) == IF IsTrap(i) THEN 0 ELSE 1

\* The machine after its next instruction.  A machine m has the fields pc,
\* reg, minstret and res (the reservation).
Stepped(p, m) ==
  LET i == At(p, m.pc)
      v == m.reg[i.rs]
  IN  [pc       |-> NextPC(p, m.pc, v),
       reg      |-> IF IsTrap(i) THEN m.reg
                    ELSE SetReg(m.reg, i.rd, ResultOf(i, m.pc, v, m.res)),
       minstret |-> (m.minstret + Retired(i)) % MinstretMod,
       res      |-> i.op = "LR" \/ (m.res /\ i.op # "SC")]

Interrupted(m) == [m EXCEPT !.pc = Handler]

=============================================================================
