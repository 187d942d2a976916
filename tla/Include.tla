------------------------------ MODULE Include ------------------------------
(***************************************************************************)
(* The types every stage of the core shares (src/src/Include.sv) and the   *)
(* sizes it is configured with (src/src/Config.sv).                        *)
(*                                                                         *)
(* A tag below NumTags names a physical register.  The tags from NumTags   *)
(* on have the top bit set and hold a small immediate instead of naming a  *)
(* register; TAG_ZERO is the immediate 0.                                  *)
(***************************************************************************)
EXTENDS SqN

CONSTANTS
  NumRegs,   \* architectural registers, x0 included (32)
  NumTags,   \* physical registers (1 << RF_SIZE_EXP)
  Width      \* DEC_WIDTH: uops renamed or committed per cycle

ASSUME IncludeAssumption ==
  /\ NumRegs \in Nat \ {0}
  /\ NumTags \in Nat \ {0}
  /\ Width \in {1, 2, 4}    \* ROB.sv writes out its four banks
  /\ Width < ROBSize

Reg       == 0 .. NumRegs - 1
RFTag     == 0 .. NumTags - 1
TAG_ZERO  == NumTags
TAG_ONE   == NumTags + 1
ImmTag    == {TAG_ZERO, TAG_ONE}     \* bound: the immediates 0 and 1
Tag       == RFTag \cup ImmTag
Port      == 0 .. Width - 1

(***************************************************************************)
(* Functional units, as far as rename, the ROB and the sequence numbers of *)
(* loads and stores tell them apart.  "RN" is executed by rename itself, a *)
(* "TRAP" is a trap known at decode, "SC" is store-conditional, "STORE"    *)
(* includes the cache management operations.  The compute units (integer,  *)
(* branch, CSR, multiply, divide, float) are "INT".                        *)
(***************************************************************************)
FuncUnit  == {"INT", "RN", "LOAD", "STORE", "SC", "ATOMIC", "TRAP"}
IsLd(fu)  == fu \in {"LOAD", "ATOMIC"}
IsSt(fu)  == fu \in {"STORE", "SC", "ATOMIC"}

(***************************************************************************)
(* Completion flags, grouped by what commit does about them: FLAGS_BRANCH  *)
(* behaves as NONE, PRED is a predicted branch, ORDERING is FENCE,         *)
(* ORDERING or XRET (flush and go on), the others trap.  NX is "not        *)
(* executed".                                                              *)
(***************************************************************************)
Exception == {"ILLEGAL", "TRAP", "LD_FAULT", "ST_FAULT"}
MemFault  == {"LD_FAULT", "ST_FAULT"}
Flags     == {"NONE", "PRED", "ORDERING", "NX"} \cup Exception

\* A redirect of the instruction stream: everything after sqN is thrown away.
BranchProv == [taken : BOOLEAN, sqN : SqNs, flush : BOOLEAN, isSCFail : BOOLEAN,
               loadSqN : SqNs, storeSqN : SqNs]
NoBranch   == [taken |-> FALSE, sqN |-> 0, flush |-> FALSE, isSCFail |-> FALSE,
               loadSqN |-> 0, storeSqN |-> 0]

\* sqN is younger than the redirect that is being distributed in this cycle.
Squashed(sqN, branch) == branch.taken /\ Diff(sqN, branch.sqN) > 0

\* A decoded uop: one destination, one register operand.  mispred says that
\* fetch goes on in the wrong direction after it, which the program can only
\* find out by executing it.
D_UOp  == [fu : FuncUnit, rd : Reg, rs : Reg, mispred : BOOLEAN]
NoDUOp == [fu |-> "NONE", rd |-> 0, rs |-> 0, mispred |-> FALSE]

\* A renamed uop.
R_UOp  == [valid : BOOLEAN, sqN : SqNs, fu : FuncUnit, rd : Reg, tagDst : Tag,
           tag : Tag, avail : BOOLEAN, loadSqN : SqNs, storeSqN : SqNs,
           mispred : BOOLEAN]
NoRUOp == [valid |-> FALSE, sqN |-> 0, fu |-> "RN", rd |-> 0, tagDst |-> TAG_ZERO,
           tag |-> TAG_ZERO, avail |-> FALSE, loadSqN |-> 0, storeSqN |-> 0,
           mispred |-> FALSE]

\* What a rename or commit port asks the rename structures to record.
RATWrite   == [valid : BOOLEAN, rd : Reg, tag : Tag]
NoRATWrite == [valid |-> FALSE, rd |-> 0, tag |-> TAG_ZERO]

\* A completed uop, as the functional units report it.
FlagsUOp == [sqN : SqNs, tagDst : Tag, flags : Flags \ {"NX"}, doNotCommit : BOOLEAN]

=============================================================================
