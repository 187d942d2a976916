---------------------------- MODULE PackedStructs ----------------------------
(***************************************************************************)
(* The packed structs of src/src/Include.sv, as far as the simulator takes *)
(* them out of the wires of the core: fields in the order of declaration,  *)
(* the last one in the lowest bits.  Widths follow src/src/Config.sv.      *)
(***************************************************************************)
EXTENDS Integers, Sequences

CONSTANTS
  ROB_SIZE_EXP, RF_SIZE_EXP, FSIZE_E, CACHE_SIZE_E, CLSIZE_E, AXI_WIDTH,
  AXI_NUM_TRANS, NUM_PORTS_TOTAL, RETURN_SIZE_EXP, TAGE_BASE, TAGE_STAGES

SqN_w == ROB_SIZE_EXP + 1
Tag_w == RF_SIZE_EXP + 1
RegNm_w == 5
FetchID_w == 5
FetchOff_w == FSIZE_E - 1
FETCH_WORDS == 2 ^ (FSIZE_E - 1)
RetStackIdx_w == RETURN_SIZE_EXP
StID_w == 2
CacheID_w == 1
StNonce_w == 3
TageID_w == 4
BHist_w == TAGE_BASE * 2 ^ (TAGE_STAGES - 2)
TrapCause_w == 5

\* The enumerations: their width and the last enumerator; they count from 0.
SVEnums ==
  [FuncUnit |-> <<4, 12>>, Flags |-> <<4, 15>>, IFetchFault |-> <<2, 3>>,
   FlushCause |-> <<3, 5>>, MemC_Cmd |-> <<4, 9>>, BranchType |-> <<2, 3>>,
   RetStackAction |-> <<2, 2>>, HistoryAction |-> <<3, 4>>, BranchTargetSpec |-> <<2, 3>>]

\* Fields: logic vectors, arrays of structs, and fields of a named type.
L(n, w)    == [name |-> n, w |-> w, t |-> ""]
A(n, k, t) == [name |-> n, w |-> k, t |-> t]
T(n, t)    == [name |-> n, w |-> 1, t |-> t]

SV_MemController_SglLdRes == <<
  L("data", 32), L("id", CACHE_SIZE_E - 2), L("valid", 1)>>
SV_MemController_SglStRes == <<
  L("id", CACHE_SIZE_E - 2), L("valid", 1)>>
SV_MemController_LdDataFwd == <<
  L("data", AXI_WIDTH), L("addr", 32), L("valid", 1)>>
SV_MemController_Transf == <<
  L("writeAddr", 32), L("readAddr", 32), L("cacheAddr", CACHE_SIZE_E - 2),
  L("progress", CLSIZE_E - 1), L("cacheID", CacheID_w), L("active", 1), L("valid", 1)>>
SV_MemController_Req == <<
  L("mask", AXI_WIDTH \div 8), L("data", AXI_WIDTH), L("cacheAddr", CACHE_SIZE_E - 2),
  L("readAddr", 32), L("writeAddr", 32), L("cacheID", CacheID_w), T("cmd", "MemC_Cmd")>>
SV_MemController_Res == <<
  T("ldDataFwd", "MemController_LdDataFwd"),
  A("transfers", AXI_NUM_TRANS, "MemController_Transf"),
  T("sglLdRes", "MemController_SglLdRes"), T("sglStRes", "MemController_SglStRes"),
  L("stall", 3), L("busy", 1)>>
SV_PredBranch == <<
  L("dst", 31), L("offs", FetchOff_w), L("compr", 1), T("btype", "BranchType"),
  L("multiple", 1), L("taken", 1), L("dirOnly", 1), L("valid", 1)>>
SV_BranchPredInfo == <<
  L("taken", 1)>>
SV_BranchProv == <<
  T("cause", "FlushCause"), T("tgtSpec", "BranchTargetSpec"), L("isSCFail", 1),
  L("fetchOffs", FetchOff_w), T("retAct", "RetStackAction"), T("histAct", "HistoryAction"),
  L("dstPC", 32), L("sqN", SqN_w), L("storeSqN", SqN_w), L("loadSqN", SqN_w), L("flush", 1),
  L("fetchID", FetchID_w), L("taken", 1)>>
SV_BPBackup == <<
  L("tageID", TageID_w), L("altPred", 1), L("history", BHist_w), L("rIdx", RetStackIdx_w),
  L("isRegularBranch", 1), L("predTaken", 1), L("predOffs", FetchOff_w), L("pred", 1)>>
SV_IFetchOp == <<
  L("pc", 32), L("fetchID", FetchID_w), T("fetchFault", "IFetchFault"),
  L("lastValid", FetchOff_w), T("predBr", "PredBranch"), L("predRetAddr", 31),
  L("rIdx", RetStackIdx_w), L("valid", 1)>>
SV_IF_Instr == <<
  L("pc", 32 - FSIZE_E), L("fetchID", FetchID_w), T("fetchFault", "IFetchFault"),
  L("firstValid", FetchOff_w), L("lastValid", FetchOff_w), L("predPos", FetchOff_w),
  L("predTaken", 1), L("predTarget", 31), L("instrs", FETCH_WORDS * 16), L("valid", 1)>>
SV_PD_Instr == <<
  L("instr", 32), L("pc", 31), L("fetchStartOffs", FetchOff_w),
  L("fetchPredOffs", FetchOff_w), L("predTarget", 31), L("predTaken", 1),
  L("fetchID", FetchID_w), T("fetchFault", "IFetchFault"), L("is16bit", 1), L("valid", 1)>>
SV_D_UOp == <<
  L("imm", 32), L("imm12", 12), L("rs1", 5), L("rs2", 5), L("immB", 1), L("rd", 5),
  L("opcode", 6), T("fu", "FuncUnit"), L("fetchID", FetchID_w), L("fetchOffs", FetchOff_w),
  L("compressed", 1), L("valid", 1)>>
SV_R_UOp == <<
  L("imm", 32), L("imm12", 12), L("availA", 1), L("tagA", Tag_w), L("availB", 1),
  L("tagB", Tag_w), L("immB", 1), L("availC", 1), L("tagC", Tag_w), L("sqN", SqN_w),
  L("tagDst", Tag_w), L("rd", RegNm_w), L("opcode", 6), L("fetchID", FetchID_w),
  L("fetchOffs", FetchOff_w), L("storeSqN", SqN_w), L("loadSqN", SqN_w), T("fu", "FuncUnit"),
  L("compressed", 1), L("validIQ", NUM_PORTS_TOTAL), L("valid", 1)>>
SV_IS_UOp == <<
  L("imm", 32), L("imm12", 12), L("availA", 1), L("tagA", Tag_w), L("availB", 1),
  L("tagB", Tag_w), L("immB", 1), L("sqN", SqN_w), L("tagDst", Tag_w), L("opcode", 6),
  L("fetchID", FetchID_w), L("fetchOffs", FetchOff_w), L("storeSqN", SqN_w),
  L("loadSqN", SqN_w), T("fu", "FuncUnit"), L("compressed", 1), L("valid", 1)>>
SV_EX_UOp == <<
  L("srcA", 32), L("srcB", 32), L("pc", 32), L("fetchOffs", FetchOff_w),
  L("fetchStartOffs", FetchOff_w), L("fetchPredOffs", FetchOff_w), L("imm", 32),
  L("opcode", 6), L("tagDst", Tag_w), L("sqN", SqN_w), L("fetchID", FetchID_w),
  T("bpi", "BranchPredInfo"), L("storeSqN", SqN_w), L("loadSqN", SqN_w), T("fu", "FuncUnit"),
  L("compressed", 1), L("valid", 1)>>
SV_RES_UOp == <<
  L("result", 32), L("tagDst", Tag_w), L("sqN", SqN_w), T("flags", "Flags"),
  L("doNotCommit", 1), L("valid", 1)>>
SV_FlagsUOp == <<
  L("tagDst", Tag_w), L("sqN", SqN_w), T("flags", "Flags"), L("doNotCommit", 1), L("valid", 1)>>
SV_ResultUOp == <<
  L("result", 32), L("tagDst", Tag_w), L("doNotCommit", 1), L("valid", 1)>>
SV_LD_UOp == <<
  L("data", 32), L("dataValid", 1), L("addr", 32), L("signExtend", 1), L("size", 2),
  L("storeSqN", SqN_w), L("loadSqN", SqN_w), L("tagDst", Tag_w), L("sqN", SqN_w),
  L("atomic", 1), L("doNotCommit", 1), L("external", 1), L("isMMIO", 1), L("valid", 1)>>
SV_ST_UOp == <<
  L("addr", 32), L("data", AXI_WIDTH), L("wmask", AXI_WIDTH \div 8), L("isMMIO", 1),
  L("isMgmt", 1), L("nonce", StNonce_w), L("id", StID_w), L("valid", 1)>>
SV_CommitUOp == <<
  L("rd", RegNm_w), L("tagDst", Tag_w), L("sqN", SqN_w), L("isBranch", 1),
  L("branchTaken", 1), L("compressed", 1), L("valid", 1)>>
SV_Trap_UOp == <<
  L("timeout", 1), T("flags", "Flags"), L("tag", Tag_w), L("sqN", SqN_w), L("loadSqN", SqN_w),
  L("storeSqN", SqN_w), L("rd", RegNm_w), L("fetchOffs", FetchOff_w), L("fetchID", FetchID_w),
  L("compressed", 1), L("valid", 1)>>
SV_TrapControlState == <<
  L("retvec", 31), L("mtvec", 30), L("mvectord", 1), L("stvec", 30), L("svectord", 1),
  L("medeleg", 16), L("mideleg", 16), L("priv", 2), L("interruptPending", 1),
  L("interruptCause", TrapCause_w), L("interruptDelegate", 1)>>
SV_ROB_PERFC_Info == <<
  L("stallWeigth", 2), L("stallCause", 3), L("branchRetire", 4), L("validRetire", 4)>>

SVStructs ==
  [MemController_SglLdRes |-> SV_MemController_SglLdRes, MemController_SglStRes |-> SV_MemController_SglStRes,
   MemController_LdDataFwd |-> SV_MemController_LdDataFwd, MemController_Transf |-> SV_MemController_Transf,
   MemController_Req |-> SV_MemController_Req, MemController_Res |-> SV_MemController_Res,
   PredBranch |-> SV_PredBranch, BranchPredInfo |-> SV_BranchPredInfo,
   BranchProv |-> SV_BranchProv, BPBackup |-> SV_BPBackup,
   IFetchOp |-> SV_IFetchOp, IF_Instr |-> SV_IF_Instr,
   PD_Instr |-> SV_PD_Instr, D_UOp |-> SV_D_UOp,
   R_UOp |-> SV_R_UOp, IS_UOp |-> SV_IS_UOp,
   EX_UOp |-> SV_EX_UOp, RES_UOp |-> SV_RES_UOp,
   FlagsUOp |-> SV_FlagsUOp, ResultUOp |-> SV_ResultUOp,
   LD_UOp |-> SV_LD_UOp, ST_UOp |-> SV_ST_UOp,
   CommitUOp |-> SV_CommitUOp, Trap_UOp |-> SV_Trap_UOp,
   TrapControlState |-> SV_TrapControlState, ROB_PERFC_Info |-> SV_ROB_PERFC_Info]

-----------------------------------------------------------------------------
\* Where a field is.  Fields are counted from the lowest bits here: from the last one declared.
Field(t, j) == SVStructs[t][Len(SVStructs[t]) + 1 - j]

\* The lowest bit of field j, given the widths of the fields: the sum of the widths below
\* it.  For the number after the last one this is the width of all of them.
Low(w, j) ==
  LET low[i \in 1 .. Len(w) + 1] == IF i = 1 THEN 0 ELSE low[i - 1] + w[i - 1]
  IN  low[j]

\* A field is a number of logics, enumerations or structs.  A struct that is a field consists
\* of logics and enumerations.
EnumWidth(t) == IF t \in DOMAIN SVEnums THEN SVEnums[t][1] ELSE 1
InnerWidths(t) == [j \in 1 .. Len(SVStructs[t]) |-> Field(t, j).w * EnumWidth(Field(t, j).t)]
TypeWidth(t) ==
  IF t \in DOMAIN SVStructs THEN Low(InnerWidths(t), Len(SVStructs[t]) + 1) ELSE EnumWidth(t)
Widths(t) == [j \in 1 .. Len(SVStructs[t]) |-> Field(t, j).w * TypeWidth(Field(t, j).t)]

\* The places of struct t, by the path: the lowest bit, the width, and the enumeration
\* if there is one.  A field whose type is a struct has the places of that struct.
IsSub(f) == f.w = 1 /\ f.t \in DOMAIN SVStructs

Place(t, j) == << <<Field(t, j).name>>,
                  [low |-> Low(Widths(t), j), w |-> Widths(t)[j], t |-> Field(t, j).t]>>
SubPlace(t, j, u, i) == << <<Field(t, j).name, Field(u, i).name>>,
                           [low |-> Low(Widths(t), j) + Low(InnerWidths(u), i), w |-> InnerWidths(u)[i],
                            t |-> Field(u, i).t]>>
Places(t) ==
  UNION {IF IsSub(Field(t, j))
         THEN {SubPlace(t, j, Field(t, j).t, i) : i \in 1 .. Len(SVStructs[Field(t, j).t])}
         ELSE {Place(t, j)} : j \in 1 .. Len(SVStructs[t])}

\* The bits of a wire with these places whose fields have the values val (by path, as sets
\* of bits).
Packed(places, val) == UNION {{p[2].low + b : b \in val[p[1]]} : p \in places}

=============================================================================
