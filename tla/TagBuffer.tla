----------------------------- MODULE TagBuffer -----------------------------
(***************************************************************************)
(* The free list of physical registers (src/src/TagBuffer.sv).  free is    *)
(* the speculative free list, freeCom the one that holds if everything     *)
(* uncommitted is thrown away.  issueTag[i] is the register kept ready for *)
(* rename port i, or NoTag; a ready register has already left free.        *)
(***************************************************************************)
EXTENDS RenameTable, FiniteSets

VARIABLES free, freeCom, mispredWait, issueTag

tbVars == <<free, freeCom, mispredWait, issueTag>>

NoTag == NumTags + 2

TBTypeOK ==
  /\ free \subseteq RFTag
  /\ freeCom \subseteq RFTag
  /\ mispredWait \in BOOLEAN
  /\ issueTag \in [Port -> RFTag \cup {NoTag}]

TBInit ==
  /\ free = RFTag
  /\ freeCom = RFTag
  /\ mispredWait = FALSE
  /\ issueTag = [i \in Port |-> NoTag]

\* The priority encoder gives port i the free register that has exactly i
\* free registers below it.
Candidate(i, t) == t \in free /\ Cardinality({u \in free : u < t}) = i

\* Ports that take a new register: they hold none, or theirs is used now.
Refills(used, blocked) ==
  IF blocked THEN {}
  ELSE {i \in Port : /\ issueTag[i] = NoTag \/ i \in used
                     /\ \E t \in RFTag : Candidate(i, t)}

Refill(i) == CHOOSE t \in RFTag : Candidate(i, t)

(***************************************************************************)
(* What the commit on port i does to the free lists.  A commit that is the *)
(* newest writer of its register in this cycle frees the register it       *)
(* replaces and keeps its own; any other commit frees its own.  A replayed *)
(* uop only claims its register again.                                     *)
(***************************************************************************)
Frees(w, newest) ==
  IF ~w.valid THEN {}
  ELSE RFTag \cap (IF newest THEN {CommitPrevTag(w)} ELSE {w.tag})

Claims(w, newest) == IF w.valid /\ newest THEN RFTag \cap {w.tag} ELSE {}

\* Fault: a replayed uop does not claim its register again.
ReplayedClaimsNothing(w) == {}

Replayed(w) == IF w.valid THEN RFTag \cap {w.tag} ELSE {}

\* Faults: commits of one register in one cycle all count as the newest; a commit
\* to x0 counts.
NewestOfItsPort(i, commit) == commit[i].valid /\ commit[i].rd # 0
NewestAlsoX0(i, commit) ==
  /\ commit[i].valid
  /\ \A j \in Port : j > i => ~(commit[j].valid /\ commit[j].rd = commit[i].rd)

\* Rename.sv: the newest commit of its register in this cycle.  Commits to x0
\* (atomics without a destination) are never the newest.
NewestCommit(i, commit) ==
  /\ commit[i].valid /\ commit[i].rd # 0
  /\ \A j \in Port : j > i => ~(commit[j].valid /\ commit[j].rd = commit[i].rd)

\* A free list after this cycle's commits.  Port order matters when two ports
\* touch the same register: the last one decides.
Committed(list, commit) ==
  LET newest      == {i \in Port : NewestCommit(i, commit)}
      claims(i)   == Claims(commit[i], i \in newest)
      touching(t) == {i \in Port : t \in Frees(commit[i], i \in newest) \cup claims(i)}
  IN  {t \in RFTag :
         LET ports == touching(t)
         IN  IF ports = {} THEN t \in list
             ELSE \E i \in ports : (\A j \in ports : j <= i) /\ t \notin claims(i)}

\* One clock edge.  used: ports whose ready register is consumed by rename.
TBClock(mispr, mispredFlush, used, commit) ==
  LET refills == Refills(used, mispr \/ mispredWait \/ mispredFlush)
      kept    == IF mispr THEN free \cup freeCom
                 ELSE free \ {Refill(i) : i \in refills}
  IN  /\ mispredWait' = mispr
      /\ issueTag' = [i \in Port |->
                        IF i \in refills THEN Refill(i)
                        ELSE IF mispr \/ i \in used THEN NoTag ELSE issueTag[i]]
      /\ freeCom' = IF mispredFlush THEN freeCom ELSE Committed(freeCom, commit)
      /\ free' = IF mispredFlush
                 THEN IF mispr THEN kept
                      ELSE kept \ UNION {Replayed(commit[i]) : i \in Port}
                 ELSE Committed(kept, commit)

=============================================================================
