-------------------------- MODULE BaselineInvariant --------------------------
(***************************************************************************)
(* The inductive invariant behind the safety properties of                 *)
(* BaselineLifecycle, in named parts: what a builder owns at each step of  *)
(* build_current_baseline, what the active build is, what a reader holds,  *)
(* where trusted content comes from, and who still has to report that it   *)
(* is out of date.                                                         *)
(***************************************************************************)
EXTENDS BaselineLifecycle

Early == {"idle", "hook", "cli", "begin", "lock", "mkdir", "missing"}
Finished == {"complete", "damaged"}

\* A build being made belongs to one process, is not active yet, and has got
\* exactly as far as that process.
BuilderInv ==
    \A p \in Procs :
        LET b == build[p] IN
        /\ pc[p] \in Early => b = NoBuild
        /\ pc[p] \in {"resolve", "freshness"} => b = NoBuild \/ result[p] = "built"
        /\ pc[p] \in Making \ {"cleanup"} => b # NoBuild
        /\ pc[p] \in {"scan", "verify", "metadata", "recheck", "replace"} =>
              b \notin activated
        /\ pc[p] \in {"verify", "metadata", "recheck", "replace", "unmark"} =>
              packet[b] \in Sources
        /\ pc[p] = "verify" => stage[b] \in {"packet", "damaged"}
        /\ pc[p] = "metadata" => stage[b] \in {"packet", "damaged"}
        /\ pc[p] \in {"recheck", "replace", "unmark"} => stage[b] \in Finished
        /\ pc[p] = "unmark" => pointer = b
        /\ pc[p] = "cleanup" => b \in {NoBuild, pointer} \/ b \notin activated

\* Every build that was ever active is still there, the active one included.
ActiveInv ==
    /\ NoBuild \notin activated
    /\ pointer \in activated \cup {NoBuild}
    /\ \A b \in activated : stage[b] \in Finished /\ packet[b] \in Sources

\* What a reader resolved was active when it did; a review never gets into
\* build_current_baseline.
ReaderInv ==
    \A p \in Procs :
        /\ pc[p] \in {"freshness", "judge"} => base[p] \in activated \cup {NoBuild}
        /\ cmd[p] = "review" => pc[p] \in Reading \cup {"idle", "done"}

\* A packet made while the tree stood still holds what the tree holds, until
\* the second check finds that it is committed.
OriginInv ==
    /\ head.src \in committed
    /\ \A p \in Procs :
          LET b == build[p] IN
          /\ pc[p] \in {"verify", "metadata", "recheck"} /\ origin[b] = "clean"
             => packet[b] = work.src /\ ~force[p]
          /\ pc[p] = "replace" /\ origin[b] = "clean" => packet[b] \in committed
    /\ \A b \in activated : origin[b] = "clean" => packet[b] \in committed

\* A hook whose commit is not accounted for yet: it will mark the baseline
\* stale, build a new one, or be lost.
Pending(h) ==
    /\ cmd[h] = "hook"
    /\ \/ pc[h] \in {"hook", "cli", "begin", "lock", "mkdir", "cleanup", "scan",
                    "verify", "metadata", "recheck", "replace"}
       \/ pc[h] \in {"release", "done"} /\ result[h] \in {"failed", "locked"}

\* A packet that nothing moved under is behind HEAD only while that is
\* marked, lost, or some other hook's business.
Covered(b, others) ==
    origin[b] = "clean" =>
        \/ packet[b] = head.src
        \/ stale
        \/ lost
        \/ \E h \in others : Pending(h)

MarkInv ==
    /\ pointer # NoBuild => Covered(pointer, Procs)
    /\ \A p \in Procs : pc[p] = "replace" => Covered(build[p], Procs \ {p})

IndInv ==
    /\ TypeOK
    /\ OneBuilder
    /\ BuilderInv
    /\ ActiveInv
    /\ ReaderInv
    /\ OriginInv
    /\ MarkInv
=============================================================================
