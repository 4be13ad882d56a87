------------------------------- MODULE MCFiles ------------------------------
(***************************************************************************)
(* The programs that read and write files others may be changing: reports, *)
(* packets, the policy file, evidence bundles, the summaries of a fleet    *)
(* and the inspection of directories that are to become links.  They share *)
(* no state, so that one run may explore each in turn: `part` says which.  *)
(***************************************************************************)
EXTENDS MCFleet, ReportFiles, PacketFiles, SymlinkInspection, PolicyFile,
        EvidenceBundle, CommandCenter, TLC

VARIABLE part

\* latest.json, one file beside it and the archived report.
MCReportOrder == <<"latest.json", "sarif", "archive">>

\* Two files in a directory and one beside it.
FolderOfSource == [s \in {"src", "test", "doc"} |-> IF s = "doc" THEN "." ELSE "app"]

\* Two paths become links: one with a directory in it, one with a file.
Tree == {"t", "ta", "tac", "u", "ua"}
TreeUp == [n \in Tree |-> CASE n \in {"t", "u"} -> "top" [] n = "ta" -> "t"
                            [] n = "tac" -> "ta" [] OTHER -> "u"]
Becoming == <<"t", "u">>

\* Two policies of one size, and one that is too long.
Policies == {"p", "q", "long"}
PolicySize == [v \in Policies |-> IF v = "long" THEN 3 ELSE 2]

\* A report with two errors and one with an error of those.
BundleErrors == [r \in {"r1", "r2"} |-> IF r = "r1" THEN <<"f", "g">> ELSE <<"f">>]

\* latest.json: nothing found, more than is shown, a report that met its limit,
\* one without evidence or replay, and one with a verdict of another release.
Latest(light, done, n, whole) ==
    [kind |-> "report", verdict |-> light, complete |-> done, replay |-> whole,
     evidence |-> whole, reasons |-> whole,
     count |-> [findings |-> n, blockers |-> IF light = "FAIL" THEN n ELSE 0,
                warnings |-> IF light = "FAIL" THEN 0 ELSE n, evidence_items |-> n]]
MCLatestReports ==
    {Latest("PASS", TRUE, 0, TRUE), Latest("PASS", TRUE, 0, FALSE), Latest("WARN", TRUE, 1, TRUE),
     Latest("FAIL", TRUE, 3, FALSE), Latest("FAIL", FALSE, 3, TRUE), Latest("WARN", FALSE, 1, FALSE),
     Latest("other", TRUE, 2, TRUE)}
MCHooks == {{}, {"pre"}, {"post"}, {"pre", "post", "ignored"}}

-----------------------------------------------------------------------------
(* One part moves, the others wait at their beginning. *)

FleetWaits ==
    /\ mode = "reports" /\ limits \in {l \in MCLimits : l.entries = 4 /\ l.file = 2 /\ l.depth = 1
                                                       /\ l.records = 3 /\ l.read = 6 /\ l.events = 6}
    /\ disk = [f \in Files |-> Gone]
PacketsStart == source \in {[s \in Sources |-> IF s = "test" THEN n ELSE 1] : n \in {0, 1}}
PacketsWait == source = [s \in Sources |-> 0]
LinksWait == kind = [n \in Tree |-> "absent"] /\ tracked = {}
PolicyWaits == /\ directory = NoEntry /\ entry = [d \in 1..MaxDirs |-> NoEntry] /\ confined = TRUE
               /\ content = [i \in 1..MaxFiles |-> IF i = 1 THEN Written("p") ELSE <<>>]
BundlesWait == latest = "r1" /\ manifest = NoValue
CenterWaits == request = "baseline"

FilesInit ==
    /\ part \in {"fleet", "reports", "packets", "links", "policy", "bundles", "center"}
    /\ part = "fleet" \/ (part # "fleet" /\ FleetWaits)
    /\ (part = "packets" /\ PacketsStart) \/ (part # "packets" /\ PacketsWait)
    /\ part = "links" \/ (part # "links" /\ LinksWait)
    /\ part = "policy" \/ (part # "policy" /\ PolicyWaits)
    /\ part = "bundles" \/ (part # "bundles" /\ BundlesWait)
    /\ part = "center" \/ (part # "center" /\ CenterWaits)
    /\ FleetInit /\ ReportInit /\ PacketInit /\ InspectInit /\ ReadInit /\ BundleInit /\ CenterInit

FilesNext ==
    /\ UNCHANGED part
    /\ \/ part = "fleet" /\ FleetNext
             /\ UNCHANGED <<reportVars, packetVars, inspectVars, readVars, bundleVars, centerVars>>
       \/ part = "reports" /\ ReportNext
             /\ UNCHANGED <<fleetVars, packetVars, inspectVars, readVars, bundleVars, centerVars>>
       \/ part = "packets" /\ PacketNext
             /\ UNCHANGED <<fleetVars, reportVars, inspectVars, readVars, bundleVars, centerVars>>
       \/ part = "links" /\ InspectNext
             /\ UNCHANGED <<fleetVars, reportVars, packetVars, readVars, bundleVars, centerVars>>
       \/ part = "policy" /\ ReadNext
             /\ UNCHANGED <<fleetVars, reportVars, packetVars, inspectVars, bundleVars, centerVars>>
       \/ part = "bundles" /\ BundleNext
             /\ UNCHANGED <<fleetVars, reportVars, packetVars, inspectVars, readVars, centerVars>>
       \/ part = "center" /\ CenterNext
             /\ UNCHANGED <<fleetVars, reportVars, packetVars, inspectVars, readVars, bundleVars>>

everything == <<part, fleetVars, reportVars, packetVars, inspectVars, readVars, bundleVars, centerVars>>
FilesSpec == FilesInit /\ [][FilesNext]_everything
=============================================================================
