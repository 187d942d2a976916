--------------------------- MODULE OrderedMemory ---------------------------
(***************************************************************************)
(* What the memory side of the core promises to a thread: the stores it    *)
(* has committed (queue) take effect one after the other, in the order in  *)
(* which they were committed, and nothing else changes memory.  mem is     *)
(* what a load would read.                                                 *)
(***************************************************************************)
EXTENDS StoreTypes, SequencesExt

VARIABLES queue, mem

OMInit == queue = << >> /\ mem \in Memory

\* k stores take effect, and further stores may be committed.
Perform(k) ==
  /\ mem' = FoldLeft(Apply, mem, SubSeq(queue, 1, k))
  /\ queue' \in Seq(SQ_UOp)
  /\ IsPrefix(SubSeq(queue, k + 1, Len(queue)), queue')

OMNext == \E k \in 0 .. Len(queue) : Perform(k)

OMSpec == OMInit /\ [][OMNext]_<<queue, mem>>

=============================================================================
