------------------------------ MODULE Structs ------------------------------
(***************************************************************************)
(* src/sim/slang/slang.hpp: where the fields of the structs of the core are *)
(* in the raw data of the simulation model, as the header says that was    *)
(* generated for one configuration of src/src/Include.sv, and how the       *)
(* constructors of the structs take them out.                               *)
(***************************************************************************)
EXTENDS BitVector, Sequences

\* A field of w bits from bit s on: plain bits, an enumeration, or a struct.
B(n, s, w)    == [name |-> n, s |-> s, w |-> w, kind |-> "bits", of |-> ""]
E(n, s, w, e) == [name |-> n, s |-> s, w |-> w, kind |-> "enum", of |-> e]
S(n, s, w, t) == [name |-> n, s |-> s, w |-> w, kind |-> "struct", of |-> t]

\* The numbers the constructors of the enumerations accept; others throw.
FuncUnit == 0 .. 12
Flags == 0 .. 15
IFetchFault == 0 .. 3
FlushCause == 0 .. 5
MemC_Cmd == 0 .. 9
BranchType == 0 .. 3
RetStackAction == 0 .. 2
HistoryAction == 0 .. 4
BranchTargetSpec == 0 .. 3

Enums ==
  [FuncUnit |-> FuncUnit, Flags |-> Flags, IFetchFault |-> IFetchFault,
   FlushCause |-> FlushCause, MemC_Cmd |-> MemC_Cmd, BranchType |-> BranchType,
   RetStackAction |-> RetStackAction, HistoryAction |-> HistoryAction, BranchTargetSpec |-> BranchTargetSpec]

\* The structs: their size and their fields.
MemController_SglLdRes == [size |-> 45, fields |-> <<
  B("valid", 0, 1), B("id", 1, 12), B("data", 13, 32)>>]
MemController_SglStRes == [size |-> 13, fields |-> <<
  B("valid", 0, 1), B("id", 1, 12)>>]
MemController_LdDataFwd == [size |-> 161, fields |-> <<
  B("valid", 0, 1), B("addr", 1, 32), B("data", 33, 128)>>]
MemController_Req == [size |-> 225, fields |-> <<
  E("cmd", 0, 4, "MemC_Cmd"), B("cacheID", 4, 1), B("writeAddr", 5, 32),
  B("readAddr", 37, 32), B("cacheAddr", 69, 12), B("data", 81, 128), B("mask", 209, 16)>>]
MemController_Res == [size |-> 559, fields |-> <<
  B("busy", 0, 1), B("stall", 1, 3), S("sglStRes", 4, 13, "MemController_SglStRes"),
  S("sglLdRes", 17, 45, "MemController_SglLdRes"), B("transfers", 62, 336),
  S("ldDataFwd", 398, 161, "MemController_LdDataFwd")>>]
PredBranch == [size |-> 41, fields |-> <<
  B("valid", 0, 1), B("dirOnly", 1, 1), B("taken", 2, 1), B("multiple", 3, 1),
  E("btype", 4, 2, "BranchType"), B("compr", 6, 1), B("offs", 7, 3), B("dst", 10, 31)>>]
BranchPredInfo == [size |-> 1, fields |-> <<
  B("taken", 0, 1)>>]
BranchProv == [size |-> 74, fields |-> <<
  B("taken", 0, 1), B("fetchID", 1, 5), B("flush", 6, 1), B("loadSqN", 7, 7),
  B("storeSqN", 14, 7), B("sqN", 21, 7), B("dstPC", 28, 32),
  E("histAct", 60, 3, "HistoryAction"), E("retAct", 63, 2, "RetStackAction"),
  B("fetchOffs", 65, 3), B("isSCFail", 68, 1), E("tgtSpec", 69, 2, "BranchTargetSpec"),
  E("cause", 71, 3, "FlushCause")>>]
BPBackup == [size |-> 80, fields |-> <<
  B("pred", 0, 1), B("predOffs", 1, 3), B("predTaken", 4, 1), B("isRegularBranch", 5, 1),
  B("rIdx", 6, 5), B("history", 11, 64), B("altPred", 75, 1), B("tageID", 76, 4)>>]
IFetchOp == [size |-> 120, fields |-> <<
  B("valid", 0, 1), B("rIdx", 1, 5), B("predRetAddr", 6, 31),
  S("predBr", 37, 41, "PredBranch"), B("lastValid", 78, 3),
  E("fetchFault", 81, 2, "IFetchFault"), B("fetchID", 83, 5), B("pc", 88, 32)>>]
IF_Instr == [size |-> 205, fields |-> <<
  B("valid", 0, 1), B("instrs", 1, 128), B("predTarget", 129, 31), B("predTaken", 160, 1),
  B("predPos", 161, 3), B("lastValid", 164, 3), B("firstValid", 167, 3),
  E("fetchFault", 170, 2, "IFetchFault"), B("fetchID", 172, 5), B("pc", 177, 28)>>]
PD_Instr == [size |-> 110, fields |-> <<
  B("valid", 0, 1), B("is16bit", 1, 1), E("fetchFault", 2, 2, "IFetchFault"),
  B("fetchID", 4, 5), B("predTaken", 9, 1), B("predTarget", 10, 31),
  B("fetchPredOffs", 41, 3), B("fetchStartOffs", 44, 3), B("pc", 47, 31), B("instr", 78, 32)>>]
D_UOp == [size |-> 80, fields |-> <<
  B("valid", 0, 1), B("compressed", 1, 1), B("fetchOffs", 2, 3), B("fetchID", 5, 5),
  E("fu", 10, 4, "FuncUnit"), B("opcode", 14, 6), B("rd", 20, 5), B("immB", 25, 1),
  B("rs2", 26, 5), B("rs1", 31, 5), B("imm12", 36, 12), B("imm", 48, 32)>>]
R_UOp == [size |-> 129, fields |-> <<
  B("valid", 0, 1), B("validIQ", 1, 7), B("compressed", 8, 1), E("fu", 9, 4, "FuncUnit"),
  B("loadSqN", 13, 7), B("storeSqN", 20, 7), B("fetchOffs", 27, 3), B("fetchID", 30, 5),
  B("opcode", 35, 6), B("rd", 41, 5), B("tagDst", 46, 7), B("sqN", 53, 7), B("tagC", 60, 7),
  B("availC", 67, 1), B("immB", 68, 1), B("tagB", 69, 7), B("availB", 76, 1),
  B("tagA", 77, 7), B("availA", 84, 1), B("imm12", 85, 12), B("imm", 97, 32)>>]
IS_UOp == [size |-> 109, fields |-> <<
  B("valid", 0, 1), B("compressed", 1, 1), E("fu", 2, 4, "FuncUnit"), B("loadSqN", 6, 7),
  B("storeSqN", 13, 7), B("fetchOffs", 20, 3), B("fetchID", 23, 5), B("opcode", 28, 6),
  B("tagDst", 34, 7), B("sqN", 41, 7), B("immB", 48, 1), B("tagB", 49, 7), B("availB", 56, 1),
  B("tagA", 57, 7), B("availA", 64, 1), B("imm12", 65, 12), B("imm", 77, 32)>>]
EX_UOp == [size |-> 183, fields |-> <<
  B("valid", 0, 1), B("compressed", 1, 1), E("fu", 2, 4, "FuncUnit"), B("loadSqN", 6, 7),
  B("storeSqN", 13, 7), S("bpi", 20, 1, "BranchPredInfo"), B("fetchID", 21, 5),
  B("sqN", 26, 7), B("tagDst", 33, 7), B("opcode", 40, 6), B("imm", 46, 32),
  B("fetchPredOffs", 78, 3), B("fetchStartOffs", 81, 3), B("fetchOffs", 84, 3),
  B("pc", 87, 32), B("srcB", 119, 32), B("srcA", 151, 32)>>]
RES_UOp == [size |-> 52, fields |-> <<
  B("valid", 0, 1), B("doNotCommit", 1, 1), E("flags", 2, 4, "Flags"), B("sqN", 6, 7),
  B("tagDst", 13, 7), B("result", 20, 32)>>]
FlagsUOp == [size |-> 20, fields |-> <<
  B("valid", 0, 1), B("doNotCommit", 1, 1), E("flags", 2, 4, "Flags"), B("sqN", 6, 7),
  B("tagDst", 13, 7)>>]
ResultUOp == [size |-> 41, fields |-> <<
  B("valid", 0, 1), B("doNotCommit", 1, 1), B("tagDst", 2, 7), B("result", 9, 32)>>]
LD_UOp == [size |-> 101, fields |-> <<
  B("valid", 0, 1), B("isMMIO", 1, 1), B("external", 2, 1), B("doNotCommit", 3, 1),
  B("atomic", 4, 1), B("sqN", 5, 7), B("tagDst", 12, 7), B("loadSqN", 19, 7),
  B("storeSqN", 26, 7), B("size", 33, 2), B("signExtend", 35, 1), B("addr", 36, 32),
  B("dataValid", 68, 1), B("data", 69, 32)>>]
ST_UOp == [size |-> 184, fields |-> <<
  B("valid", 0, 1), B("id", 1, 2), B("nonce", 3, 3), B("isMgmt", 6, 1), B("isMMIO", 7, 1),
  B("wmask", 8, 16), B("data", 24, 128), B("addr", 152, 32)>>]
CommitUOp == [size |-> 23, fields |-> <<
  B("valid", 0, 1), B("compressed", 1, 1), B("branchTaken", 2, 1), B("isBranch", 3, 1),
  B("sqN", 4, 7), B("tagDst", 11, 7), B("rd", 18, 5)>>]
Trap_UOp == [size |-> 48, fields |-> <<
  B("valid", 0, 1), B("compressed", 1, 1), B("fetchID", 2, 5), B("fetchOffs", 7, 3),
  B("rd", 10, 5), B("storeSqN", 15, 7), B("loadSqN", 22, 7), B("sqN", 29, 7), B("tag", 36, 7),
  E("flags", 43, 4, "Flags"), B("timeout", 47, 1)>>]

Structs ==
  [MemController_SglLdRes |-> MemController_SglLdRes, MemController_SglStRes |-> MemController_SglStRes, MemController_LdDataFwd |-> MemController_LdDataFwd,
   MemController_Req |-> MemController_Req, MemController_Res |-> MemController_Res, PredBranch |-> PredBranch,
   BranchPredInfo |-> BranchPredInfo, BranchProv |-> BranchProv, BPBackup |-> BPBackup,
   IFetchOp |-> IFetchOp, IF_Instr |-> IF_Instr, PD_Instr |-> PD_Instr,
   D_UOp |-> D_UOp, R_UOp |-> R_UOp, IS_UOp |-> IS_UOp,
   EX_UOp |-> EX_UOp, RES_UOp |-> RES_UOp, FlagsUOp |-> FlagsUOp,
   ResultUOp |-> ResultUOp, LD_UOp |-> LD_UOp, ST_UOp |-> ST_UOp,
   CommitUOp |-> CommitUOp, Trap_UOp |-> Trap_UOp]

-----------------------------------------------------------------------------
\* What a constructor makes of the words data: the bits of every field, by the path
\* to it.  A nested struct is made from a 64-bit number if it fits, from a copy of
\* its bits otherwise.
Fields(T) == {Structs[T].fields[k] : k \in DOMAIN Structs[T].fields}

\* Plain bits wider than a number are copied.
ReadField(data, f) ==
  IF f.w <= 64 THEN ToUint64(data, f.s, f.w)
  ELSE LET copy == ScBv(AsMemory(data, f.s + f.w), f.w, f.s)
       IN  {k \in 0 .. f.w - 1 : Bit(copy, k)}

NestedWords(data, f) ==
  IF f.w <= 64 THEN [i \in {0} |-> ToUint64(data, f.s, f.w)]
  ELSE ScBv(AsMemory(data, f.s + f.w), f.w, f.s)

\* GET(T, raw): mem is the raw data of the model.
Get(T, mem) ==
  LET data   == ScBv(mem, Structs[T].size, 0)
      simple == {f \in Fields(T) : f.kind # "struct"}
      nested == UNION {{<<f, g>> : g \in Fields(f.of)} : f \in Fields(T) \ simple}
  IN  {<< <<f.name>>, ReadField(data, f)>> : f \in simple} \cup
      {<< <<p[1].name, p[2].name>>, ReadField(NestedWords(data, p[1]), p[2])>> : p \in nested}

\* The paths to the fields that are enumerations, with the numbers that are accepted.
EnumPaths(T) ==
  {<< <<f.name>>, Enums[f.of]>> : f \in {g \in Fields(T) : g.kind = "enum"}} \cup
  UNION {{<< <<f.name, g.name>>, Enums[g.of]>> : g \in {x \in Fields(f.of) : x.kind = "enum"}} :
         f \in {x \in Fields(T) : x.kind = "struct"}}

=============================================================================
