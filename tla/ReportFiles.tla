---------------------------- MODULE ReportFiles -----------------------------
(***************************************************************************)
(* reports/json.py: a report is constructed with a bounded number of       *)
(* findings, rebuilt by every later stage of a review, and written as      *)
(* latest.json and the files beside it, by reviews that may overlap and    *)
(* may die.                                                                *)
(***************************************************************************)
EXTENDS Naturals, Sequences, FiniteSets

CONSTANTS
    Reviews,        \* the reviews
    FindingLimit,   \* REPORT_FINDING_LIMIT
    ReportOrder,    \* latest.json and then the files written after it, in their order
    MaxRebuilds     \* how often one review rebuilds its report

Outcomes == {"idle", "judging", "raised", "failed", "done", "dead"}
FileNames == {ReportOrder[i] : i \in DOMAIN ReportOrder}

\* The files have names of their own.
ASSUME ReportAssumption ==
    /\ FindingLimit \in Nat \ {0} /\ MaxRebuilds \in Nat
    /\ ReportOrder \in Seq(STRING) /\ Len(ReportOrder) > 1 /\ ReportOrder[1] = "latest.json"
    /\ \A i, j \in DOMAIN ReportOrder : ReportOrder[i] = ReportOrder[j] => i = j
    /\ FileNames \cap Outcomes = {}

VARIABLES
    stage,      \* where each review is
    report,     \* what it has constructed
    rebuilds,   \* how often it was rebuilt
    written,    \* latest.json and the files beside it
    overlap     \* two reviews were writing at once, or one did not end

reportVars == <<stage, report, rebuilds, written, overlap>>

\* A finding is its severity; a warning is "late" when its id comes after that
\* of the warning report_construction_limit.
Severities == {"error", "warn", "late", "info"}
Limit == "limit"                \* report_construction_limit
NoReport == [verdict |-> "none"]

Count(s, severity) == Cardinality({i \in DOMAIN s : s[i] = severity})

VerdictOf(findings) == IF Count(findings, "error") > 0 THEN "FAIL"
                       ELSE IF Count(findings, "warn") + Count(findings, Limit) + Count(findings, "late") > 0
                       THEN "WARN" ELSE "PASS"

\* SEVERITY_ORDER, and by id within one severity: how many there are of each
\* says which comes where.
Sorted(s) ==
    LET errors == Count(s, "error")
        warnings == errors + Count(s, "warn")
        bounded == warnings + Count(s, Limit)
        late == bounded + Count(s, "late")
    IN [i \in DOMAIN s |-> IF i <= errors THEN "error" ELSE IF i <= warnings THEN "warn"
                           ELSE IF i <= bounded THEN Limit ELSE IF i <= late THEN "late"
                           ELSE "info"]

-----------------------------------------------------------------------------
(* traffic_report *)

\* Mutant: a report that met the limit keeps the verdict it was given.
Constructed_AsGiven(verdict, found) ==
    LET limited == Len(found) > FindingLimit
        kept == IF limited THEN SubSeq(found, 1, FindingLimit) \o <<Limit>> ELSE found
    IN [verdict |-> verdict, findings |-> Sorted(kept), limited |-> limited,
        complete |-> ~limited]

\* The first findings are kept in the order they come; meeting the limit is
\* itself a warning, and no PASS.
Constructed(verdict, found) ==
    LET limited == Len(found) > FindingLimit
        kept == IF limited THEN SubSeq(found, 1, FindingLimit) \o <<Limit>> ELSE found
    IN [verdict |-> IF limited /\ verdict = "PASS" THEN "WARN" ELSE verdict,
        findings |-> Sorted(kept), limited |-> limited, complete |-> ~limited]

\* validate_report_construction_metadata, for the limit of findings.
Coherent(r) ==
    IF r.limited
    THEN /\ ~r.complete /\ Count(r.findings, Limit) = 1
         /\ Count(r.findings, "error") > 0 => r.verdict = "FAIL"
         /\ r.verdict # "PASS"
    ELSE r.complete

\* _rebuild_from_findings: constructed anew; what was incomplete stays so.
Rebuilt(r, findings) ==
    LET new == Constructed(VerdictOf(findings), findings)
    IN [new EXCEPT !.complete = new.complete /\ r.complete]

\* The validation within traffic_report looks at the report before the
\* incompleteness of the former one is put back.
Raises(findings) == ~Coherent(Constructed(VerdictOf(findings), findings))

-----------------------------------------------------------------------------
(* A review *)

ReportInit ==
    /\ stage = [v \in Reviews |-> "idle"] /\ report = [v \in Reviews |-> NoReport]
    /\ rebuilds = [v \in Reviews |-> 0] /\ written = [f \in FileNames |-> NoReport]
    /\ overlap = FALSE

FindingLists(n) == UNION {[1..k -> Severities] : k \in 0..n}

Construct(v, found) ==
    /\ stage[v] = "idle" /\ stage' = [stage EXCEPT ![v] = "judging"]
    /\ report' = [report EXCEPT ![v] = Constructed(VerdictOf(found), found)]
    /\ rebuilds' = [rebuilds EXCEPT ![v] = 0] /\ UNCHANGED <<written, overlap>>

Rebuild(v, findings) ==
    /\ stage[v] = "judging" /\ rebuilds[v] < MaxRebuilds
    /\ rebuilds' = [rebuilds EXCEPT ![v] = @ + 1]
    /\ IF Raises(findings)
       THEN stage' = [stage EXCEPT ![v] = "raised"] /\ report' = [report EXCEPT ![v] = NoReport]
       ELSE stage' = stage /\ report' = [report EXCEPT ![v] = Rebuilt(@, findings)]
    /\ UNCHANGED <<written, overlap>>

\* A later stage adds a finding, or takes out one that may be suppressed:
\* the warning about the limit has no path and no permission is for it.
Add(v, f) == Rebuild(v, Append(report[v].findings, f))
Suppress(v, i) ==
    /\ stage[v] = "judging" /\ i \in DOMAIN report[v].findings /\ report[v].findings[i] # Limit
    /\ LET old == report[v].findings
       IN Rebuild(v, SubSeq(old, 1, i - 1) \o SubSeq(old, i + 1, Len(old)))

Step(v) == CHOOSE i \in 1..Len(ReportOrder) : stage[v] = ReportOrder[i]
Writing(v) == stage[v] \in FileNames

\* write_user_report: nothing is written of a report that is not coherent;
\* finalize_user_report records it or passes the exception on.
Write(v) ==
    /\ stage[v] = "judging"
    /\ stage' = [stage EXCEPT ![v] = IF Coherent(report[v]) THEN "latest.json" ELSE "failed"]
    /\ overlap' = (overlap \/ (Coherent(report[v]) /\ \E w \in Reviews : Writing(w)))
    /\ report' = IF Coherent(report[v]) THEN report ELSE [report EXCEPT ![v] = NoReport]
    /\ UNCHANGED <<rebuilds, written>>

\* latest.json is replaced as a whole; the others are written over, one by
\* one, and one that cannot be written is only warned about.
WriteFile(v) ==
    /\ Writing(v)
    /\ LET i == Step(v)
           last == i = Len(ReportOrder)
       IN /\ \/ written' = [written EXCEPT ![ReportOrder[i]] = report[v]] /\ overlap' = overlap
             \/ i > 1 /\ written' = written /\ overlap' = TRUE
          /\ stage' = [stage EXCEPT ![v] = IF last THEN "done" ELSE ReportOrder[i + 1]]
          /\ report' = IF last THEN [report EXCEPT ![v] = NoReport] ELSE report
    /\ UNCHANGED rebuilds

\* latest.json could not be written: nothing else is.
WriteFails(v) ==
    /\ stage[v] = "latest.json" /\ stage' = [stage EXCEPT ![v] = "failed"]
    /\ report' = [report EXCEPT ![v] = NoReport] /\ UNCHANGED <<rebuilds, written, overlap>>

ReviewDies(v) ==
    /\ Writing(v) /\ stage' = [stage EXCEPT ![v] = "dead"] /\ overlap' = TRUE
    /\ report' = [report EXCEPT ![v] = NoReport] /\ UNCHANGED <<rebuilds, written>>

ReportNext ==
    \E v \in Reviews :
        \/ \E found \in FindingLists(FindingLimit + 1) : Construct(v, found)
        \/ \E f \in Severities : Add(v, f)
        \/ \E i \in 1..FindingLimit + 1 : Suppress(v, i)
        \/ Write(v) \/ WriteFile(v) \/ WriteFails(v) \/ ReviewDies(v)

ReportSpec == ReportInit /\ [][ReportNext]_reportVars

-----------------------------------------------------------------------------
(* Properties *)

ReportTypeOK ==
    /\ \A v \in Reviews : stage[v] \in Outcomes \cup FileNames /\ rebuilds[v] \in 0..MaxRebuilds
    /\ \A v \in Reviews : report[v] # NoReport => Len(report[v].findings) <= FindingLimit + 1

\* Whatever was added, suppressed and rebuilt, a report that did not hold
\* all findings never says PASS, neither in a review's hands nor in a file;
\* and whatever is in a file is coherent.
IncompleteNeverPasses ==
    /\ \A v \in Reviews : report[v] # NoReport /\ ~report[v].complete => report[v].verdict # "PASS"
    /\ \A f \in FileNames : written[f] # NoReport =>
           Coherent(written[f]) /\ (~written[f].complete => written[f].verdict # "PASS")

\* While reviews wrote one after the other and no file failed, the files
\* beside latest.json tell what it tells as soon as the review is done.
SiblingsAgree ==
    ~overlap /\ (\A v \in Reviews : ~Writing(v)) =>
        \A f \in FileNames : written[f] = written["latest.json"]

\* No file of a review claims more than the review could hold, and its files
\* agree.
ReportsAreHonest == ReportTypeOK /\ IncompleteNeverPasses /\ SiblingsAgree
=============================================================================
