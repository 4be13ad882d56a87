--------------------------- MODULE EvidenceBundle ---------------------------
(***************************************************************************)
(* evidence_bundle.py: what the decision ledger says of one report is      *)
(* bundled, and verified against the files later.  The report file is one  *)
(* path that every review overwrites; recorders append to the ledger event *)
(* by event and hash the report each time; bundling reads the ledger and   *)
(* hashes it afterwards; verifying reads file after file.                  *)
(***************************************************************************)
EXTENDS Naturals, Sequences, FiniteSets

CONSTANTS
    ReportContents, \* the contents the report file has, one after the other
    ReportErrors,   \* the errors of each: sequences of finding ids
    MaxEvents,      \* events in the ledger (a bound)
    MaxTampers      \* times a bundle is edited (a bound)

ASSUME BundleAssumption ==
    DOMAIN ReportErrors = ReportContents /\ MaxEvents \in Nat /\ MaxTampers \in Nat

VARIABLES
    latest,     \* what the report file holds
    gone,       \* what it held before: no content comes back
    manifest,   \* the scanner manifest of the active baseline
    ledger,     \* the events; an event's id is its place
    damaged,    \* a line of the ledger does not parse
    recording,  \* per report, the events of it that were appended
    draft,      \* the bundle while it is made, after the ledger was read
    bundle,     \* the bundle on disk
    tampered,
    verifier,   \* a verification: how far it is and what it found
    verdict,    \* what the last verification said
    known       \* history: the length of the ledger when it began

onDisk == <<latest, gone, manifest>>
bundleVars == <<onDisk, ledger, damaged, recording, draft, bundle, tampered, verifier, verdict, known>>

NoValue == "none"
Event(type, of, parent, finding) ==
    [type |-> type, artifact |-> latest, of |-> of, parent |-> parent, finding |-> finding]
Empty == [target |-> NoValue]

BundleInit ==
    /\ latest \in ReportContents /\ gone = {} /\ manifest \in {NoValue, "old"}
    /\ ledger = <<>> /\ damaged = FALSE /\ recording = [r \in ReportContents |-> <<>>]
    /\ draft = Empty /\ bundle = Empty /\ tampered = 0
    /\ verifier = "idle" /\ verdict = NoValue /\ known = 0

-----------------------------------------------------------------------------
(* Reviews, recorders and people *)

NewReport(r) ==
    /\ r \notin gone \cup {latest} /\ latest' = r /\ gone' = gone \cup {latest}
    /\ UNCHANGED <<manifest, ledger, damaged, recording, draft, bundle, tampered, verifier, verdict, known>>

NewBaseline ==
    /\ manifest # "new" /\ manifest' = "new"
    /\ UNCHANGED <<latest, gone, ledger, damaged, recording, draft, bundle, tampered, verifier, verdict, known>>

\* append_report_events: the next event about r, whatever the file holds now.
Record(r) ==
    LET done == recording[r]
        event == IF done = <<>> THEN Event("report_created", r, 0, NoValue)
                 ELSE Event("fail_detected", r, done[1], ReportErrors[r][Len(done)]) IN
    /\ r \in gone \cup {latest} /\ Len(done) <= Len(ReportErrors[r]) /\ Len(ledger) < MaxEvents
    /\ ledger' = Append(ledger, event)
    /\ recording' = [recording EXCEPT ![r] = Append(@, Len(ledger) + 1)]
    /\ UNCHANGED <<onDisk, damaged, draft, bundle, tampered, verifier, verdict, known>>

\* create_override: the ledger only grows, so what was looked up is still there.
Override(i) ==
    /\ ledger[i].type = "fail_detected" /\ Len(ledger) < MaxEvents
    /\ ledger' = Append(ledger, Event("override_recorded", ledger[i].of, i, ledger[i].finding))
    /\ UNCHANGED <<onDisk, damaged, recording, draft, bundle, tampered, verifier, verdict, known>>

\* A writer died within a line.
Damage ==
    /\ ~damaged /\ ledger # <<>> /\ damaged' = TRUE
    /\ UNCHANGED <<onDisk, ledger, recording, draft, bundle, tampered, verifier, verdict, known>>

-----------------------------------------------------------------------------
(* What the ledger says of a report *)

About(l, type, r) == {i \in DOMAIN l : l[i].type = type /\ l[i].artifact = r}
Overrides(l, fails) ==
    {i \in DOMAIN l : /\ l[i].type = "override_recorded" /\ l[i].parent \in fails
                      /\ l[i].finding \in {l[f].finding : f \in fails}}
\* An override recorded with the report at hand, but of another's error.
Unresolved(l, r, fails) ==
    {i \in DOMAIN l : l[i].type = "override_recorded"
                      /\ (l[i].artifact = r \/ l[i].parent \in fails)} \ Overrides(l, fails)

\* create_bundle reads the report, then the ledger, ...
Collect ==
    LET reports == About(ledger, "report_created", latest)
        fails == About(ledger, "fail_detected", latest) IN
    /\ draft = Empty /\ bundle = Empty /\ ~damaged
    /\ Cardinality(reports) = 1 /\ Unresolved(ledger, latest, fails) = {}
    /\ draft' = [target |-> latest, reports |-> reports, fails |-> fails,
                 overrides |-> Overrides(ledger, fails), manifest |-> manifest]
    /\ UNCHANGED <<onDisk, ledger, damaged, recording, bundle, tampered, verifier, verdict, known>>

\* ... and hashes the ledger as it is by then.
Finish ==
    /\ draft # Empty /\ draft' = Empty
    /\ bundle' = [target |-> draft.target, reports |-> draft.reports, fails |-> draft.fails,
                  overrides |-> draft.overrides, manifest |-> draft.manifest,
                  ledger |-> <<ledger, damaged>>,
                  artifacts |-> {ledger[i].artifact : i \in draft.reports \cup draft.fails
                                                            \cup draft.overrides}]
    /\ UNCHANGED <<onDisk, ledger, damaged, recording, tampered, verifier, verdict, known>>

\* Somebody edits the bundle, and its id to fit (0: an event of no ledger).  A
\* verification reads the bundle once: its verdict is about what it read.
EditBundle(part, ids) ==
    /\ bundle # Empty /\ tampered < MaxTampers /\ ids # bundle[part] /\ verifier = "idle"
    /\ bundle' = [bundle EXCEPT ![part] = ids] /\ tampered' = tampered + 1 /\ verdict' = NoValue
    /\ UNCHANGED <<onDisk, ledger, damaged, recording, draft, verifier, known>>

-----------------------------------------------------------------------------
(* verify_bundle_dict *)

\* The first reason ends the model's verification; the code collects them all.
Fails == verifier' = "idle" /\ verdict' = "FAIL"
Goes(next) == verifier' = next /\ UNCHANGED verdict
Verifying == UNCHANGED <<onDisk, ledger, damaged, recording, draft, bundle, tampered>>

CheckReport ==
    /\ verifier = "idle" /\ bundle # Empty /\ known' = Len(ledger) /\ Verifying
    /\ IF latest # bundle.target THEN Fails ELSE Goes("ledger")

CheckLedger ==
    /\ verifier = "ledger" /\ Verifying /\ UNCHANGED known
    /\ IF bundle.ledger # <<ledger, damaged>> THEN Fails ELSE Goes("events")

Embedded == bundle.reports \cup bundle.fails \cup bundle.overrides

\* The events in the bundle hold together ...
HoldTogether ==
    /\ Cardinality(bundle.reports) = 1 /\ Embedded \subseteq DOMAIN ledger
    /\ bundle.reports \subseteq About(ledger, "report_created", bundle.target)
    /\ bundle.fails \subseteq About(ledger, "fail_detected", bundle.target)
    /\ \A i \in Embedded : ledger[i].parent \in Embedded \cup {0}
    /\ bundle.overrides \subseteq Overrides(ledger, bundle.fails)

\* Mutant: what is in the bundle is in the ledger; no more is compared.
SayTheSame_Embedded ==
    About(ledger, "report_created", bundle.target) = bundle.reports

\* ... and are what the ledger says of the report.
SayTheSame ==
    LET fails == About(ledger, "fail_detected", bundle.target) IN
    /\ About(ledger, "report_created", bundle.target) = bundle.reports
    /\ bundle.fails = fails /\ bundle.overrides = Overrides(ledger, fails)
    /\ Unresolved(ledger, bundle.target, fails) = {}
    /\ bundle.artifacts = {ledger[i].artifact : i \in Embedded}

CheckEvents ==
    /\ verifier = "events" /\ Verifying /\ UNCHANGED known
    /\ IF damaged \/ ~HoldTogether \/ ~SayTheSame THEN Fails ELSE Goes("artifacts")

\* The manifest and every report an event names have the content they had.
CheckArtifacts ==
    /\ verifier = "artifacts" /\ Verifying /\ UNCHANGED known
    /\ IF bundle.manifest \notin {NoValue, manifest} \/ ~(bundle.artifacts \subseteq {latest})
       THEN Fails ELSE (verifier' = "idle" /\ verdict' = "PASS")

BundleNext ==
    \/ \E r \in ReportContents : NewReport(r) \/ Record(r)
    \/ NewBaseline \/ Damage \/ \E i \in DOMAIN ledger : Override(i)
    \/ Collect \/ Finish
    \/ \E part \in {"fails", "overrides"}, ids \in SUBSET (0..Len(ledger)) :
          Cardinality(ids) <= 1 /\ EditBundle(part, ids)
    \/ CheckReport \/ CheckLedger \/ CheckEvents \/ CheckArtifacts

BundleSpec == BundleInit /\ [][BundleNext]_bundleVars

-----------------------------------------------------------------------------
(* Properties *)

\* What is recorded follows what it is about; a bundle is made of one ledger.
BundleTypeOK ==
    /\ latest \notin gone /\ Len(ledger) <= MaxEvents
    /\ \A i \in DOMAIN ledger : ledger[i].parent < i
    /\ verifier \in {"idle", "ledger", "events", "artifacts"}
    /\ verdict \in {NoValue, "PASS", "FAIL"} /\ known <= Len(ledger)

\* A bundle that was verified holds every error of its report that had been
\* recorded when the verification began, and every override of those,
\* although the ledger was read and hashed at different moments, reports are
\* overwritten while their errors are recorded, and bundles are edited.
VerifiedIsWhole ==
    /\ BundleTypeOK
    /\ (verdict = "PASS" /\ verifier = "idle") =>
         \A i \in 1..known :
            /\ (ledger[i].type = "fail_detected" /\ ledger[i].of = bundle.target)
                   => i \in bundle.fails
            /\ (ledger[i].type = "override_recorded" /\ ledger[i].parent \in bundle.fails)
                   => i \in bundle.overrides
=============================================================================
