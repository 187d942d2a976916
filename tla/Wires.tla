------------------------------- MODULE Wires -------------------------------
(***************************************************************************)
(* How the testbench looks at the core: the core drives a struct onto its  *)
(* wires as src/src/Include.sv lays it out, the testbench peeks at single  *)
(* bits and takes the struct apart as src/sim/slang/slang.hpp says         *)
(* (LogInstructions and GET in src/sim/Top_tb.cpp).  Fields of a struct    *)
(* that is not valid may be anything.                                      *)
(***************************************************************************)
EXTENDS Structs

CONSTANTS
  ROB_SIZE_EXP, RF_SIZE_EXP, FSIZE_E, CACHE_SIZE_E, CLSIZE_E, AXI_WIDTH,
  AXI_NUM_TRANS, NUM_PORTS_TOTAL, RETURN_SIZE_EXP, TAGE_BASE, TAGE_STAGES,
  Types,       \* the structs that are looked at
  Values       \* the values the core drives, for each of them

ASSUME ConfigAssumption ==
  /\ {ROB_SIZE_EXP, RF_SIZE_EXP, AXI_WIDTH, AXI_NUM_TRANS, NUM_PORTS_TOTAL,
      RETURN_SIZE_EXP, TAGE_BASE} \subseteq Nat \ {0}
  /\ FSIZE_E \in 2 .. 31 /\ CACHE_SIZE_E \in Nat \ 0 .. 2 /\ CLSIZE_E \in Nat \ {0, 1}
  /\ TAGE_STAGES \in Nat \ {0, 1}

\* The layout in the design, under names of its own.
RTL == INSTANCE PackedStructs

\* Nobody takes a struct apart that has a wide field from which something would be shifted out.
IsRead(t) ==
  t \in DOMAIN Structs =>
    \A f \in Fields(t) :
      /\ f.w > 64 => Fits(f.w, f.s)
      /\ f.kind = "struct" => \A g \in Fields(f.of) : g.w > 64 => Fits(g.w, g.s)

ASSUME TypesAssumption == Types \subseteq DOMAIN RTL!SVStructs /\ \A t \in Types : IsRead(t)

VARIABLES
  type,   \* the struct on the wires
  val,    \* the values of its fields, by path, as sets of bits
  seen,   \* what the testbench has found in them: pairs of a path and bits
  thrown  \* a constructor did not accept an enumerator

wireVars == <<type, val, seen, thrown>>

\* The fields of the wires; the same for all states of a type.
PlacesOf == [t \in Types |-> RTL!Places(t)]
Paths(t) == {p[1] : p \in PlacesOf[t]}

\* The bits of a number.
Bits(n) == {b \in 0 .. 7 : (n \div 2 ^ b) % 2 = 1}

\* The field that says that the others mean something.
Validity(t) == CASE t = "BranchProv" -> <<"taken">>
                 [] t \in {"BPBackup", "BranchPredInfo", "MemController_Res", "MemController_Req",
                           "TrapControlState", "ROB_PERFC_Info"} -> << >>
                 [] OTHER -> <<"valid">>

IsValid(t, v) == Validity(t) = << >> \/ v[Validity(t)] # {}

\* What the core may drive: an enumerator where the struct is valid; causes of interrupts
\* are below 16 (CSR.sv).
IsLegal(t, v) ==
  \A p \in PlacesOf[t] :
    /\ v[p[1]] \subseteq 0 .. p[2].w - 1
    /\ IsValid(t, v) /\ p[2].t \in DOMAIN RTL!SVEnums =>
         \E n \in 0 .. RTL!SVEnums[p[2].t][2] : v[p[1]] = Bits(n)
    /\ p[1] = <<"interruptCause">> => v[p[1]] \subseteq 0 .. 3

ASSUME ValuesAssumption ==
  \A t \in Types : \A v \in Values[t] : DOMAIN v = Paths(t) /\ IsLegal(t, v)

WiresInit ==
  /\ type \in Types /\ val \in Values[type]
  /\ seen = {} /\ thrown = FALSE

\* The next value on the wires.
Drive ==
  /\ val' \in Values[type]
  /\ seen' = {} /\ UNCHANGED <<type, thrown>>

-----------------------------------------------------------------------------
Raw == RTL!Packed(PlacesOf[type], val)

\* wire & (1 << k)
Peek(k) == k \in Raw

\* What LogInstructions reads without taking a struct apart.
Peeked ==
  (IF Validity(type) # << >> THEN {<<Validity(type), {b \in {0} : Peek(0)}>>} ELSE {}) \cup
  CASE type = "TrapControlState" ->
         {<< <<"interruptCause">>, {b \in 0 .. 3 : Peek(b + 1)}>>,
          << <<"interruptDelegate">>, {b \in {0} : Peek(0)}>>}
    [] type = "ROB_PERFC_Info" -> {<< <<"validRetire">>, {i \in 0 .. 3 : Peek(i)}>>}
    [] type = "FlagsUOp" -> {<< <<"doNotCommit">>, {b \in {0} : Peek(1)}>>}
    [] OTHER -> {}

\* Fault: the valid bit is not looked at first.
TakesApartAlways == type \in DOMAIN Structs

\* The testbench takes a struct apart if its lowest bit is set, flags also only if they
\* are not of an uop that does not commit.
TakesApart ==
  /\ type \in DOMAIN Structs
  /\ Validity(type) # << >> => Peek(0)
  /\ type = "FlagsUOp" => ~Peek(1)

\* GET
Look ==
  /\ LET got == IF TakesApart THEN Get(type, Raw) ELSE {}
     IN  /\ seen' = Peeked \cup got
         /\ thrown' = (thrown \/ \E g \in got : \E e \in EnumPaths(type) :
                                   e[1] = g[1] /\ \A n \in e[2] : Bits(n) # g[2])
  /\ UNCHANGED <<type, val>>

WiresNext == Drive \/ Look

WiresSpec == WiresInit /\ [][WiresNext]_wireVars

-----------------------------------------------------------------------------
\* What the testbench finds in a wire is what the core has driven, for every field of
\* every struct, across the words of the raw data and through structs in structs
\* (sc_stub.hpp:9, "used to unpack structs from raw verilator model data").
SeenIsDriven == \A s \in seen : s[2] = val[s[1]]

\* No wire the core can drive makes a constructor of an enumeration throw: fields of
\* structs that are not valid are never looked at.
NeverThrows == ~thrown

=============================================================================
