------------------------------ MODULE InOrder ------------------------------
(***************************************************************************)
(* The in-order machine: the abstract specification of the core.  It       *)
(* retires up to RetireWidth instructions at a time.  A counter may read   *)
(* anything, a store-conditional may fail for no reason, and an interrupt  *)
(* may come before any instruction, or together with a CSR write.          *)
(***************************************************************************)
EXTENDS ISA

CONSTANT RetireWidth   \* instructions retired at once, at least one

VARIABLES prog, pc, reg, minstret, reservation

archVars == <<prog, pc, reg, minstret, reservation>>

Outcomes(p, m) ==
  LET i == At(p, m.pc)
  IN  {Interrupted(m)} \cup
      (IF i.op = "RDCSR" THEN {[Stepped(p, m) EXCEPT !.reg = SetReg(m.reg, i.rd, v)] : v \in Val}
       ELSE IF i.op = "SC" THEN {Stepped(p, m), Stepped(p, [m EXCEPT !.res = FALSE])}
       ELSE IF i.op = "CSRW" THEN {Stepped(p, m), Interrupted(Stepped(p, m))}
       ELSE {Stepped(p, m)})

\* The states the machine can be in after n more instructions or interrupts.
After(p, m, n) ==
  LET f[k \in 0 .. n] == IF k = 0 THEN {m} ELSE UNION {Outcomes(p, x) : x \in f[k - 1]}
  IN  f[n]

Machine == [pc |-> pc, reg |-> reg, minstret |-> minstret, res |-> reservation]

ISAInit ==
  /\ prog \in Programs
  /\ pc = Handler /\ minstret = 0 /\ reservation = FALSE
  /\ reg \in [XReg -> Val] /\ reg[0] = 0

ISANext ==
  \E n \in 1 .. RetireWidth : \E m \in After(prog, Machine, n) :
    /\ pc' = m.pc /\ reg' = m.reg /\ minstret' = m.minstret /\ reservation' = m.res
    /\ UNCHANGED prog

ISASpec == ISAInit /\ [][ISANext]_archVars

=============================================================================
