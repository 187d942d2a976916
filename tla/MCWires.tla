------------------------------ MODULE MCWires ------------------------------
(***************************************************************************)
(* Instances of Wires for TLC: all structs of the header, and the two      *)
(* the testbench only peeks at.  Three of them have a field of 128 bits    *)
(* that does not begin at a byte; they are taken apart by nobody.          *)
(***************************************************************************)
EXTENDS Wires, FiniteSets

Unread == {"IF_Instr", "MemController_Req", "MemController_LdDataFwd", "MemController_Res"}

ReadTypes == (DOMAIN Structs \ Unread) \cup {"TrapControlState", "ROB_PERFC_Info"}

\* Patterns for a field: none, all or every other bit; an enumerator; a cause of an interrupt.
Patterns(p) ==
  IF p[2].t \in DOMAIN RTL!SVEnums THEN {Bits(n) : n \in 0 .. RTL!SVEnums[p[2].t][2]}
  ELSE IF p[1] = <<"interruptCause">> THEN {Bits(n) : n \in {1, 3, 5, 7, 9, 11}}
  ELSE {{}, 0 .. p[2].w - 1, {b \in 0 .. p[2].w - 1 : b % 2 = 0}}

\* All fields empty, or all as full as they may be.
Fullest(p) == CHOOSE x \in Patterns(p) : \A y \in Patterns(p) : Cardinality(y) <= Cardinality(x)
Bases(places) ==
  LET paths == {p[1] : p \in places}
      place(path) == CHOOSE p \in places : p[1] = path
  IN  {[path \in paths |-> {}], [path \in paths |-> Fullest(place(path))]}

\* One of these with one field changed, also to no enumerator if the struct is not valid.
MCValues ==
  [t \in Types |->
     LET places == PlacesOf[t]
     IN  UNION {{[base EXCEPT ![p[1]] = x] :
                   x \in Patterns(p) \cup
                         (IF IsValid(t, [base EXCEPT ![p[1]] = {}]) THEN {} ELSE {0 .. p[2].w - 1})} :
                base \in Bases(places), p \in places}]

=============================================================================
