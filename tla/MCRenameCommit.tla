--------------------------- MODULE MCRenameCommit ---------------------------
(***************************************************************************)
(* Instances of RenameCommit for TLC.                                      *)
(***************************************************************************)
EXTENDS RenameCommit

UOp(fu, rd, rs)  == [fu |-> fu, rd |-> rd, rs |-> rs, mispred |-> FALSE]
WrongBranch(rd, rs) == [fu |-> "INT", rd |-> rd, rs |-> rs, mispred |-> TRUE]

Completing(fu, fl) == [f \in FuncUnit |-> IF f = fu THEN fl ELSE {"NONE"}]

\* Two wide, one register: a dependency chain through x1, eliminated
\* immediates; a computation ends well, with a flush, or not at all (the hang
\* detection makes an exception of it).
WideUOps    == {UOp("INT", 1, 1), UOp("RN", 1, 0), WrongBranch(0, 1)}
WideOutcome == Completing("INT", {"NONE", "ORDERING"})

\* Loads that depend on one another, stores, store-conditionals and atomics
\* without destination, next to branches and decode-time traps; every memory fault.
MemUOps    == {UOp("LOAD", 1, 1), UOp("STORE", 0, 0), UOp("SC", 1, 0),
               UOp("ATOMIC", 0, 1), UOp("TRAP", 0, 0), WrongBranch(0, 0)}
MemOutcome == [f \in FuncUnit |->
                 CASE f = "LOAD"  -> {"NONE", "LD_FAULT"}
                   [] f = "STORE" -> {"NONE", "ST_FAULT", "ORDERING"}
                   [] f \in {"SC", "ATOMIC"} -> {"NONE", "ST_FAULT"}
                   [] OTHER -> {"NONE"}]

\* A store unit that also reports cache management operations the current
\* privilege level may not use (AGU.sv, isIllegalInstr).
CboUOps    == {UOp("STORE", 0, 0), UOp("INT", 1, 1)}
CboOutcome == Completing("STORE", {"NONE", "ILLEGAL"})

\* A chain through x1 and branches, for the liveness property.
LiveUOps    == {UOp("INT", 1, 1), WrongBranch(0, 1)}
LiveOutcome == Completing("INT", {"NONE", "ILLEGAL"})

(***************************************************************************)
(* MCView: what tells two states apart.                                    *)
(*  - Slots outside the buffer keep what was in them, completed slots keep *)
(*    their operands; neither is read again.                               *)
(*  - Sequence numbers are only compared by Diff and advanced by Plus and  *)
(*    Minus, which commute with a rotation of the ring; so they are taken  *)
(*    relative to baseIndex, and those of loads and stores relative to the *)
(*    ones the ROB has recovered.                                          *)
(***************************************************************************)
Rotated(s, origin) == (s - origin) % Ring

LsqView(r) == [r EXCEPT !.loadSqN = Rotated(@, loadSqN_r),
                        !.storeSqN = Rotated(@, storeSqN_r)]
UOpView(r) == IF r = NoRUOp \/ r = NoBranch \/ r = NoTrapUOp THEN r
              ELSE [LsqView(r) EXCEPT !.sqN = Rotated(@, baseIndex)]

SlotView(k) ==
  <<entries[k], flags[k],
    [LsqView(backend[k]) EXCEPT !.tag = IF flags[k] = "NX" THEN @ ELSE TAG_ZERO,
                                !.avail = @ \/ flags[k] # "NX"]>>

MCView ==
  <<ratVars, tbVars, failSc, mispredFlush, stop, comUOp,
    Rotated(counterSqN, baseIndex), Rotated(lastIndex, baseIndex),
    Rotated(counterLoadSqN, loadSqN_r), Rotated(counterStoreSqN, storeSqN_r),
    [i \in Port |-> UOpView(rnUOp[i])], UOpView(trapUOp), UOpView(branch),
    {Rotated(s, baseIndex) : s \in intRes}, {Rotated(s, baseIndex) : s \in memRes},
    IF misprReplay_r.valid THEN <<Rotated(misprReplay_r.iterSqN, baseIndex),
                                  Rotated(misprReplay_r.endSqN, baseIndex)>> ELSE <<>>,
    [d \in {Rotated(s, baseIndex) : s \in {t \in SqNs : InROB(t)}} |->
       SlotView(RobIdx(Plus(baseIndex, d)))]>>
=============================================================================
