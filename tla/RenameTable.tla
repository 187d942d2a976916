---------------------------- MODULE RenameTable ----------------------------
(***************************************************************************)
(* The register alias table (src/src/RenameTable.sv): for every            *)
(* architectural register the tag of its committed value and the tag of    *)
(* its newest speculative value, and for every physical register whether   *)
(* its value has been produced.                                            *)
(*                                                                         *)
(* The ports of one cycle are functions from Port; among several ports     *)
(* that write the same register in one cycle the highest port wins, as the *)
(* last of several nonblocking assignments does.                           *)
(***************************************************************************)
EXTENDS Include

VARIABLES comTag, specTag, tagAvail

ratVars == <<comTag, specTag, tagAvail>>

RATTypeOK ==
  /\ comTag \in [Reg -> Tag]
  /\ specTag \in [Reg -> Tag]
  /\ tagAvail \subseteq RFTag

\* Port i is the last one of this cycle that writes register r (never x0).
LastWriter(i, r, w) ==
  /\ r # 0
  /\ w[i].valid /\ w[i].rd = r
  /\ \A j \in Port : j > i => ~(w[j].valid /\ w[j].rd = r)

\* The table with this cycle's writes applied.
Written(table, w) ==
  [r \in Reg |-> IF \E i \in Port : LastWriter(i, r, w)
                 THEN w[CHOOSE i \in Port : LastWriter(i, r, w)].tag
                 ELSE table[r]]

RATInit ==
  /\ comTag = [r \in Reg |-> TAG_ZERO]
  /\ specTag = [r \in Reg |-> TAG_ZERO]
  /\ tagAvail = RFTag

\* Operand lookup of the uop on port i: uops renamed on lower ports in the
\* same cycle come first, then the table.
OlderIssue(i, j, r, issue) ==
  /\ j < i /\ r # 0
  /\ issue[j].valid /\ issue[j].rd = r
  /\ \A k \in Port : j < k /\ k < i => ~(issue[k].valid /\ issue[k].rd = r)

\* Fault: the uops renamed in the same cycle are forgotten.
LookupTableOnly(i, r, issue) == specTag[r]

LookupSpecTag(i, r, issue) ==
  IF \E j \in Port : OlderIssue(i, j, r, issue)
  THEN issue[CHOOSE j \in Port : OlderIssue(i, j, r, issue)].tag
  ELSE specTag[r]

\* Faults: the table is asked also for an operand that is renamed in the same
\* cycle; a result written back in the same cycle is missed.
AvailTableOnly(i, r, issue, wb) == specTag[r] \in tagAvail \cup ImmTag \cup wb

AvailMissesWriteback(i, r, issue, wb) ==
  \/ LookupSpecTag(i, r, issue) \in ImmTag
  \/ /\ specTag[r] \in tagAvail
     /\ \A j \in Port : ~OlderIssue(i, j, r, issue)

\* A result written back in this cycle counts as available.  A uop renamed on
\* a lower port is available at once only if rename eliminated it, and then
\* its tag is an immediate.
LookupAvail(i, r, issue, wb) ==
  IF \E j \in Port : OlderIssue(i, j, r, issue)
  THEN LookupSpecTag(i, r, issue) \in ImmTag
  ELSE specTag[r] \in tagAvail \cup ImmTag \cup wb

\* OUT_commitPrevTags: the tag whose value the commit on port i replaces.
CommitPrevTag(w) == comTag[w.rd]

\* Fault: a commit in the cycle of the mispredict is missed.
SpecTagMissesCommit(mispred, mispredFlush, issue, commit) ==
  LET start == IF mispred THEN comTag ELSE Written(specTag, issue)
  IN  IF mispredFlush /\ ~mispred THEN Written(start, commit) ELSE start

\* The speculative table after a clock edge.  On a mispredict it falls back to
\* the committed one, this cycle's commits included; while the ROB replays, the
\* uops that survived the mispredict rebuild it.
NextSpecTag(mispred, mispredFlush, issue, commit) ==
  LET start == IF mispred THEN comTag ELSE Written(specTag, issue)
  IN  IF mispred = mispredFlush THEN start ELSE Written(start, commit)

(***************************************************************************)
(* One clock edge.  While the ROB replays (mispredFlush) the "commits" are *)
(* the uops that survived a mispredict, and leave the committed table be.  *)
(***************************************************************************)
RATClock(mispred, mispredFlush, issue, commit, wb) ==
  /\ tagAvail' =
       LET taken == IF mispred THEN {}
                    ELSE {issue[i].tag : i \in {j \in Port : issue[j].valid /\ issue[j].rd # 0}}
       IN  (tagAvail \cup wb) \ taken
  /\ comTag' = IF mispredFlush THEN comTag ELSE Written(comTag, commit)
  /\ specTag' = NextSpecTag(mispred, mispredFlush, issue, commit)

=============================================================================
