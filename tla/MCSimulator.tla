---------------------------- MODULE MCSimulator ----------------------------
(***************************************************************************)
(* Instances of Simulator for TLC.                                         *)
(***************************************************************************)
EXTENDS Simulator

\* Three halfwords of program, each an instruction or half of a long one.
MCMemories == [1 .. 3 -> {0, 3}]
=============================================================================
