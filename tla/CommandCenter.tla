---------------------------- MODULE CommandCenter ----------------------------
(***************************************************************************)
(* What the browser is shown of a repository: the diagnostic sections      *)
(* (_dashboard_payload) and the one snapshot of the command center         *)
(* (build_command_center_snapshot, command_center_payload).  A request     *)
(* reads one file after the other, and any of them may be rewritten        *)
(* between two reads, so that a read may return anything.  The snapshot is *)
(* built from what was read, checked against itself, made smaller when it  *)
(* is too long, checked again, and only then given out.                    *)
(***************************************************************************)
EXTENDS Naturals, Sequences

CONSTANTS
    LatestReports, \* the reports latest.json may hold
    Hooks,         \* which of "pre", "post" and "ignored" may be installed
    Display,       \* MAX_COLLECTION_ITEMS
    Nothing        \* no value

Lists  == {"findings", "blockers", "warnings", "evidence_items"}
Judged == {"PASS", "WARN", "FAIL"}

\* How a section, or the snapshot, is answered; for the overview, whose status is
\* always a success, the status of the report that it carries.
Answers == {"served", "refused", "success", "empty", "incomplete", "error", "unsupported"}

ASSUME CenterAssumption ==
    /\ Display \in Nat \ {0} /\ Nothing \notin Answers
    /\ Hooks \subseteq SUBSET {"pre", "post", "ignored"}
    /\ LatestReports \subseteq
         [kind : {"report"}, verdict : Judged \cup {"other"}, complete : BOOLEAN,
          count : [Lists -> Nat], replay : BOOLEAN, evidence : BOOLEAN, reasons : BOOLEAN]

Baselines == {"missing", "present", "stale", "corrupt"}
ArtifactErrors ==
    {"artifact_malformed", "artifact_version_unsupported", "artifact_limit_exceeded"}
Failures == [kind : ArtifactErrors]
NoArtifact == [kind |-> "none"]
Sections  == {"baseline", "policy", "report", "replay-evidence", "overrides", "overview"}

VARIABLES
    request,   \* which section, or the snapshot
    toRead,    \* what it has still to read
    saw,       \* what it has read
    snapshot,  \* the snapshot as it was last checked, None before
    excess,    \* the reductions it takes to fit it into its limit
    answer     \* how the request was answered, None before

centerVars == <<request, toRead, saw, snapshot, excess, answer>>

\* What each request reads, in this order.  A snapshot carries the overrides
\* section as its decisions, and derives nothing from it.
Reads(of) ==
    CASE of = "baseline" -> <<"baseline">>
      [] of = "policy" -> <<"policy">>
      [] of \in {"report", "replay-evidence"} -> <<"report">>
      [] of = "overrides" -> <<"ledger", "again">>
      [] of = "overview" -> <<"baseline", "policy", "report">>
      [] of = "snapshot" -> <<"baseline", "policy", "status", "report">>

\* read_canonical_report gives a report, nothing, or an error; never the
\* beginning of a file.
Canonical == LatestReports \cup {NoArtifact} \cup Failures

\* sourcepack_status_payload validates the baseline by itself; automatic mode
\* needs it, both hooks and an ignored .sourcepack.
Statuses == {s \in [auto : BOOLEAN, hooks : Hooks] :
               s.auto => s.hooks = {"pre", "post", "ignored"}}

\* _read_decision_ledger: incomplete is one that met a limit.
Ledgers == {"absent", "whole", "malformed", "incomplete"}

Found(what) ==
    CASE what = "baseline" -> Baselines
      [] what = "policy" -> {"PASS", "FAIL"}
      [] what = "status" -> Statuses
      [] what \in {"report", "again"} -> Canonical
      [] what = "ledger" -> Ledgers

CenterTypeOK ==
    /\ request \in Sections \cup {"snapshot"}
    /\ \A what \in DOMAIN saw : saw[what] \in Found(what)
    /\ excess \in 0..4
    /\ answer \in Answers \cup {Nothing}

CenterInit ==
    /\ request \in Sections \cup {"snapshot"}
    /\ toRead = Reads(request) /\ saw = <<>> /\ snapshot = Nothing /\ excess = 0 /\ answer = Nothing

-----------------------------------------------------------------------------
(* Reports as they are read *)

IsReport(r)  == r.kind = "report"
Supported(r) == IsReport(r) /\ r.verdict \in Judged
IsComplete(r)  == Supported(r) /\ r.complete

Good(baseline) == baseline \in {"present", "stale"}

BaselineStatus(baseline) ==
    CASE Good(baseline) -> "success" [] baseline = "missing" -> "empty" [] OTHER -> "error"

\* The report's state in the snapshot.
ReportState(r) ==
    CASE Supported(r) -> IF r.complete THEN "available" ELSE "incomplete"
      [] IsReport(r) /\ ~Supported(r) -> "unsupported"
      [] r.kind = "artifact_version_unsupported" -> "unsupported"
      [] r.kind = "artifact_malformed" -> "malformed"
      [] r.kind \in {"none", "artifact_limit_exceeded"} -> "unavailable"

\* The status of a section that shows a report, or the error of reading it.
ReportStatus(r) ==
    CASE IsReport(r) -> IF r.complete THEN "success" ELSE "incomplete"
      [] r = NoArtifact -> "empty"
      [] r.kind = "artifact_malformed" -> "error"
      [] r.kind = "artifact_version_unsupported" -> "unsupported"
      [] r.kind = "artifact_limit_exceeded" -> "incomplete"

-----------------------------------------------------------------------------
(* What a snapshot says is derived from artifacts: by the builder from what *)
(* it read, by the checks from what the snapshot still carries of that.     *)

\* _capabilities, those that depend on the repository.
Capabilities(a) ==
    LET shown(live, part, none) == CASE IsComplete(a.report) -> live
                                     [] Supported(a.report) /\ ~a.report.complete -> part
                                     [] OTHER -> none
    IN [review   |-> shown("LIVE", "PARTIAL", "READY"),
        evidence |-> shown("LIVE", "PARTIAL", "READY"),
        replay   |-> IF IsComplete(a.report) /\ a.report.replay THEN "LIVE" ELSE "PARTIAL",
        baseline |-> IF Good(a.baseline) THEN "LIVE" ELSE "NEEDS_SETUP",
        policy   |-> IF a.policy = "PASS" THEN "LIVE" ELSE "DEGRADED",
        hook     |-> CASE a.status.auto -> "LIVE"
                       [] ~a.status.auto /\ "pre" \in a.status.hooks -> "PARTIAL"
                       [] OTHER -> "READY_TO_BUILD"]

\* _priority_actions: what is urgent, then what a capability asks for.
Actions(a) ==
    [P0 |-> (IF a.baseline = "missing" THEN {"create_baseline"} ELSE {})
            \cup (IF a.baseline = "stale" THEN {"refresh_baseline"} ELSE {})
            \cup (IF a.policy # "PASS" THEN {"repair_policy"} ELSE {}),
     P1 |-> CASE ~Supported(a.report) -> {"run_review"}
              [] Supported(a.report) /\ a.report.verdict # "PASS" -> {"resolve_findings"}
              [] OTHER -> {},
     P2 |-> (IF Capabilities(a).review = "PARTIAL" THEN {"run_review"} ELSE {})
            \cup (IF a.status.auto THEN {} ELSE {"install_hooks"})]

Points(earned, points) == IF earned THEN points ELSE 0

\* _score; product_breadth counts the capabilities and says nothing more.
Score(a) ==
    LET r == a.report
    IN [trust      |-> Points(a.baseline = "present", 45) + Points(a.baseline = "stale", 25)
                       + Points(a.policy = "PASS", 35) + Points(IsComplete(r), 20),
        automation |-> 10 + Points("pre" \in a.status.hooks, 25)
                       + Points("post" \in a.status.hooks, 20) + Points(a.status.auto, 35)
                       + Points(Supported(r), 10),
        depth      |-> IF ~Supported(r) THEN 0
                       ELSE 50 + Points(r.shown["evidence_items"] > 0 \/ r.evidence, 20)
                            + Points(r.replay, 20) + Points(r.reasons, 10)]

\* The counts are those of the whole report, however little of it is shown.
Posture(a, total) ==
    [baseline |-> a.baseline, policy |-> a.policy, auto |-> a.status.auto,
     verdict  |-> IF Supported(a.report) THEN a.report.verdict ELSE Nothing,
     count    |-> [l \in Lists \ {"evidence_items"} |->
                     IF Supported(a.report) THEN total[l] ELSE 0]]

\* The last line of the activity before an error: as the builder writes it ...
Message(r) ==
    CASE Supported(r) -> IF r.complete THEN "verdict" ELSE "verdict (incomplete)"
      [] ~Supported(r) /\ ReportState(r) = "unsupported" -> "report state: unsupported"
      [] OTHER -> "verdict: unavailable"

\* ... and as _canonical_activity expects it.
Expected(r) ==
    CASE Supported(r) -> "verdict"
      [] IsReport(r) /\ ~Supported(r) -> "report state: unsupported"
      [] OTHER -> "verdict: unavailable"

-----------------------------------------------------------------------------
(* The snapshot *)

Lesser(n, m) == IF n < m THEN n ELSE m

\* A report with so much of its lists as is shown of them.
Showing(r, limit) == [x \in DOMAIN r \cup {"shown"} |->
                        IF x = "shown" THEN [l \in Lists |-> Lesser(r.count[l], limit[l])] ELSE r[x]]
BoundedReport(r) == IF IsReport(r) THEN Showing(r, [l \in Lists |-> Display]) ELSE r

Counts(r) == IF IsReport(r) THEN r.count ELSE [l \in Lists |-> 0]
Displayed(r) == IF IsReport(r) THEN r.shown ELSE [l \in Lists |-> 0]

Build(s) ==
    LET a == [baseline |-> s.baseline, policy |-> s.policy, status |-> s.status,
              report |-> BoundedReport(s.report)]
        full == [a EXCEPT !.report = IF IsReport(s.report) THEN Showing(s.report, s.report.count)
                                     ELSE s.report]
    IN [state        |-> [report |-> ReportState(s.report), baseline |-> Good(s.baseline),
                          policy |-> s.policy = "PASS",
                          replay |-> IsComplete(s.report) /\ s.report.replay],
        posture      |-> Posture(full, Counts(s.report)),
        capabilities |-> Capabilities(full),
        scores       |-> Score(full),
        actions      |-> Actions(full),
        message      |-> Message(s.report),
        failed       |-> s.report \in Failures,
        total        |-> Counts(s.report),
        displayed    |-> Displayed(a.report),
        artifacts    |-> a]

\* The six checks of command_center_payload.
Consistent(s) ==
    LET a == s.artifacts
    IN /\ s.posture = Posture(a, s.total)
       /\ Supported(a.report) => s.displayed = a.report.shown
       /\ s.failed = (a.report \in Failures)
       /\ s.message = Expected(a.report)
       /\ s.capabilities = Capabilities(a)
       /\ s.actions = Actions(a)
       /\ s.scores = Score(a)

\* Mutant: the hook after a commit is left out of the reduced status.
Reduced_NoPost(s) == [s EXCEPT !.artifacts.status.hooks = @ \cap {"pre"}]

\* _reduce_authority_diagnostics keeps what the derivations need.
Reduced(s) == [s EXCEPT !.artifacts.status.hooks = @ \cap {"pre", "post"}]

\* _reduce_report_diagnostics keeps no item but one of evidence, and not the
\* authority: without it a report counts as complete.
ReducedReport(s) ==
    IF ~IsReport(s.artifacts.report) THEN s
    ELSE LET few == [l \in Lists |-> IF l = "evidence_items"
                                     THEN Lesser(s.displayed[l], 1) ELSE 0]
         IN [s EXCEPT !.artifacts.report.shown = few, !.artifacts.report.complete = TRUE,
                      !.displayed = few]

\* The snapshot after n of the three reductions.  The first one takes away the
\* decisions; 4 stands for one that is too long even then.
Smaller(s, n) == CASE n <= 1 -> s [] n = 2 -> Reduced(s) [] OTHER -> ReducedReport(Reduced(s))

-----------------------------------------------------------------------------
ReadArtifact ==
    /\ answer = Nothing /\ toRead # <<>>
    /\ \E value \in Found(Head(toRead)) :
         saw' = [what \in DOMAIN saw \cup {Head(toRead)} |->
                   IF what = Head(toRead) THEN value ELSE saw[what]]
    /\ toRead' = Tail(toRead)
    /\ UNCHANGED <<request, snapshot, excess, answer>>

\* A reader raises: a section answers internal_error, the snapshot is refused.
Raise ==
    /\ answer = Nothing /\ toRead # <<>>
    /\ answer' = IF request = "snapshot" THEN "refused" ELSE "error"
    /\ UNCHANGED <<request, toRead, saw, snapshot, excess>>

\* The sections; a malformed or endless ledger answers before the report is read.
Section ==
    /\ request # "snapshot" /\ answer = Nothing
    /\ \/ /\ toRead = <<>>
          /\ \/ /\ request = "baseline"
                /\ answer' = BaselineStatus(saw.baseline)
             \/ /\ request = "policy"
                /\ answer' = IF saw.policy = "PASS" THEN "success" ELSE "error"
             \/ /\ request \in {"report", "replay-evidence", "overview"}
                /\ answer' = ReportStatus(saw.report)
             \/ /\ request = "overrides"
                /\ answer' \in IF saw.again = NoArtifact \/ ReportStatus(saw.again) = "success"
                              THEN {"success", "empty"} ELSE {ReportStatus(saw.again)}
       \/ /\ toRead = <<"again">> /\ saw.ledger \in {"malformed", "incomplete"}
          /\ answer' = IF saw.ledger = "malformed" THEN "error" ELSE "incomplete"
    /\ UNCHANGED <<request, toRead, saw, snapshot, excess>>

\* command_center_payload, once everything is read: built, checked, reduced and
\* checked again.
Compose ==
    /\ request = "snapshot" /\ toRead = <<>> /\ answer = Nothing
    /\ excess' \in 0..4
    /\ LET built == Build(saw)
           last  == Smaller(built, excess')
       IN /\ snapshot' = last
          /\ answer' = IF Consistent(built) /\ Consistent(last) /\ excess' < 4
                       THEN "served" ELSE "refused"
    /\ UNCHANGED <<request, toRead, saw>>

CenterNext == ReadArtifact \/ Raise \/ Section \/ Compose

CenterSpec == CenterInit /\ [][CenterNext]_centerVars

-----------------------------------------------------------------------------
(* Properties *)

\* What is shown as done rests on a report that was read whole and says of
\* itself that it is complete, and the counts are the whole report's although
\* its items are cut and its artifacts reduced.  A snapshot that fails the checks
\* of one part of it against another (those of its schema are not modelled) is too
\* long, or shows one of the two reports whose message the builder and the check
\* word differently: no check misses what a reduction has taken away.
CenterIsTrue ==
    /\ CenterTypeOK
    /\ answer = "served" =>
         /\ \A c \in {"review", "evidence", "replay"} :
              snapshot.capabilities[c] = "LIVE" => IsComplete(saw.report)
         /\ snapshot.state.report = ReportState(saw.report)
         /\ Supported(saw.report) =>
              \A l \in Lists \ {"evidence_items"} :
                snapshot.posture.count[l] = saw.report.count[l]
    /\ answer = "success" /\ "report" \in DOMAIN saw => saw.report.complete
    /\ answer = "success" /\ "again" \in DOMAIN saw => saw.again = NoArtifact \/ saw.again.complete
    /\ answer = "refused" /\ snapshot # Nothing =>
         \/ excess = 4
         \/ saw.report.kind = "artifact_version_unsupported"
         \/ Supported(saw.report) /\ ~saw.report.complete

\* docs/command-center-api.md:98: the snapshot's state distinguishes available,
\* incomplete, unavailable, malformed and unsupported reports
\* (docs/architecture.md:159: "Command Center reports state.report=incomplete").
\* The code refuses the snapshots of two of these.
EveryReportIsShown ==
    answer = "refused" /\ snapshot # Nothing => excess = 4
=============================================================================
