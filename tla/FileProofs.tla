----------------------------- MODULE FileProofs -----------------------------
(***************************************************************************)
(* Theorems about the programs that read and write files others may be     *)
(* changing.                                                               *)
(***************************************************************************)
EXTENDS EvidenceBundle, PolicyFile, CommandCenter, PacketFiles, ReportFiles, Fleet,
        FiniteSetTheorems, WellFoundedInduction, TLAPS

-----------------------------------------------------------------------------
(* EvidenceBundle *)

FindingIds == {NoValue} \cup {ReportErrors[r][k] : r \in ReportContents, k \in Nat}
Events == [type : {"report_created", "fail_detected", "override_recorded"},
           artifact : ReportContents, of : ReportContents, parent : Nat, finding : FindingIds]

LedgerTyped ==
    /\ latest \in ReportContents /\ gone \subseteq ReportContents
    /\ ledger \in Seq(Events) /\ known \in Nat
    /\ recording \in [ReportContents -> Seq(Nat)]
    /\ \A r \in ReportContents : \A k \in 1..Len(recording[r]) : recording[r][k] <= Len(ledger)

\* An event is about a report there was, and what it hashed is that report
\* unless the report has been overwritten.
Traced ==
    \A i \in DOMAIN ledger :
        /\ ledger[i].of \in gone \cup {latest}
        /\ ledger[i].artifact = ledger[i].of \/ ledger[i].of \in gone

OneBundle ==
    /\ draft # Empty => bundle = Empty
    /\ bundle = Empty => verdict = NoValue /\ verifier = "idle"

\* What was recorded of the bundle's report before its verification began
\* hashed that very report.
AsItWas ==
    verifier # "idle" =>
        \A i \in 1..known : ledger[i].of = bundle.target => ledger[i].artifact = bundle.target

Whole ==
    \A i \in 1..known :
        /\ (ledger[i].type = "fail_detected" /\ ledger[i].of = bundle.target)
               => i \in bundle.fails
        /\ (ledger[i].type = "override_recorded" /\ ledger[i].parent \in bundle.fails)
               => i \in bundle.overrides

Compared == verifier = "artifacts" \/ (verifier = "idle" /\ verdict = "PASS") => Whole

BundleInv == BundleTypeOK /\ LedgerTyped /\ Traced /\ OneBundle /\ AsItWas /\ Compared

\* The ledger gained an event, and nobody verified or edited meanwhile.
Grown(e) ==
    /\ e \in Events /\ e.parent <= Len(ledger) /\ Len(ledger) < MaxEvents
    /\ ledger' = Append(ledger, e)
    /\ e.of \in gone \cup {latest} /\ (e.artifact = e.of \/ e.of \in gone)
    /\ UNCHANGED <<latest, gone, draft, bundle, verifier, verdict, known>>

\* An event more disturbs nothing that was established about the others.
LEMMA GrownKeeps ==
  ASSUME BundleInv, NEW e, Grown(e)
  PROVE  /\ BundleTypeOK' /\ Traced' /\ OneBundle' /\ AsItWas' /\ Compared'
         /\ ledger' \in Seq(Events) /\ Len(ledger') = Len(ledger) + 1
<1>1. /\ ledger \in Seq(Events) /\ Len(ledger) \in Nat /\ known \in Nat
      /\ ledger' = Append(ledger, e) /\ known <= Len(ledger)
  BY DEF BundleInv, LedgerTyped, BundleTypeOK, Grown
<1>2. /\ ledger' \in Seq(Events) /\ Len(ledger') = Len(ledger) + 1
      /\ \A i \in 1..Len(ledger) : ledger'[i] = ledger[i]
      /\ ledger'[Len(ledger) + 1] = e
  BY <1>1 DEF Grown
<1>3. known' = known /\ \A i \in 1..known : ledger'[i] = ledger[i] /\ i \in DOMAIN ledger
  BY <1>1, <1>2 DEF Grown
<1>4. BundleTypeOK'
  <2>1. \A i \in DOMAIN ledger' : ledger'[i].parent < i
    <3>1. TAKE i \in DOMAIN ledger'
    <3>2. CASE i \in 1..Len(ledger)
      BY <1>1, <1>2, <3>2 DEF BundleInv, BundleTypeOK
    <3>3. CASE i = Len(ledger) + 1
      BY <1>1, <1>2, <3>3 DEF Grown, Events
    <3> QED
      BY <1>1, <1>2, <3>2, <3>3
  <2>2. latest' \notin gone' /\ Len(ledger') <= MaxEvents /\ known' <= Len(ledger')
    BY <1>1, <1>2, BundleAssumption DEF BundleInv, BundleTypeOK, Grown
  <2>3. /\ verifier' \in {"idle", "ledger", "events", "artifacts"}
        /\ verdict' \in {NoValue, "PASS", "FAIL"}
    BY DEF BundleInv, BundleTypeOK, Grown
  <2> QED
    BY <2>1, <2>2, <2>3 DEF BundleTypeOK
<1>5. Traced'
  <2>1. SUFFICES ASSUME NEW i \in DOMAIN ledger'
                 PROVE  /\ ledger'[i].of \in gone \cup {latest}
                        /\ ledger'[i].artifact = ledger'[i].of \/ ledger'[i].of \in gone
    BY DEF Traced, Grown
  <2>2. CASE i \in 1..Len(ledger)
    BY <1>1, <1>2, <2>2 DEF BundleInv, Traced
  <2>3. CASE i = Len(ledger) + 1
    BY <1>1, <1>2, <2>3 DEF Grown
  <2> QED
    BY <1>1, <1>2, <2>2, <2>3
<1>6. OneBundle'
  BY DEF BundleInv, OneBundle, Grown
<1>7. AsItWas'
  BY <1>3 DEF BundleInv, AsItWas, Grown
<1>8. Compared'
  BY <1>3 DEF BundleInv, Compared, Whole, Grown
<1> QED
  BY <1>2, <1>4, <1>5, <1>6, <1>7, <1>8

LEMMA BundleBegins == ASSUME BundleInit PROVE BundleInv
<1>1. latest \in ReportContents /\ gone = {} /\ ledger = <<>> /\ known = 0
  BY DEF BundleInit
<1>2. ledger \in Seq(Events) /\ Len(ledger) = 0 /\ DOMAIN ledger = {}
  BY <1>1
<1>3. BundleTypeOK
  BY <1>1, <1>2, BundleAssumption DEF BundleInit, BundleTypeOK, NoValue
<1>4. LedgerTyped
  <2>1. recording = [r \in ReportContents |-> <<>>] /\ <<>> \in Seq(Nat)
    BY DEF BundleInit
  <2> QED
    BY <1>1, <1>2, <2>1 DEF LedgerTyped
<1>5. Traced
  BY <1>2 DEF Traced
<1>6. OneBundle /\ AsItWas /\ Compared
  BY DEF BundleInit, OneBundle, AsItWas, Compared, NoValue
<1> QED
  BY <1>3, <1>4, <1>5, <1>6 DEF BundleInv

LEMMA NewReportInv == ASSUME BundleInv, NEW r \in ReportContents, NewReport(r) PROVE BundleInv'
<1>1. /\ r \notin gone \cup {latest} /\ latest' = r /\ gone' = gone \cup {latest}
      /\ UNCHANGED <<ledger, recording, draft, bundle, verifier, verdict, known>>
  BY DEF NewReport
<1>2. BundleTypeOK'
  BY <1>1 DEF BundleInv, BundleTypeOK
<1>3. LedgerTyped'
  BY <1>1 DEF BundleInv, LedgerTyped
<1>4. Traced'
  BY <1>1 DEF BundleInv, Traced
<1>5. OneBundle' /\ AsItWas' /\ Compared'
  BY <1>1 DEF BundleInv, OneBundle, AsItWas, Compared, Whole
<1> QED
  BY <1>2, <1>3, <1>4, <1>5 DEF BundleInv

LEMMA RecordInv == ASSUME BundleInv, NEW r \in ReportContents, Record(r) PROVE BundleInv'
<1> DEFINE e == IF recording[r] = <<>> THEN Event("report_created", r, 0, NoValue)
                ELSE Event("fail_detected", r, recording[r][1], ReportErrors[r][Len(recording[r])])
<1>1. /\ r \in gone \cup {latest} /\ Len(ledger) < MaxEvents /\ ledger' = Append(ledger, e)
      /\ recording' = [recording EXCEPT ![r] = Append(@, Len(ledger) + 1)]
      /\ UNCHANGED <<latest, gone, draft, bundle, verifier, verdict, known>>
  BY DEF Record, onDisk
<1>2. /\ Len(ledger) \in Nat /\ recording[r] \in Seq(Nat)
      /\ \A k \in 1..Len(recording[r]) : recording[r][k] <= Len(ledger)
  BY DEF BundleInv, LedgerTyped
<1>3. recording[r] # <<>> => recording[r][1] \in Nat /\ recording[r][1] <= Len(ledger)
  BY <1>2
<1>4. e \in Events /\ e.parent <= Len(ledger) /\ e.of = r /\ e.artifact = latest
  <2>1. CASE recording[r] = <<>>
    BY <1>2, <2>1 DEF Event, Events, FindingIds, BundleInv, LedgerTyped
  <2>2. CASE recording[r] # <<>>
    <3>1. Len(recording[r]) \in Nat
      BY <1>2
    <3>2. ReportErrors[r][Len(recording[r])] \in FindingIds
      BY <3>1 DEF FindingIds
    <3> QED
      BY <1>2, <1>3, <2>2, <3>2 DEF Event, Events, BundleInv, LedgerTyped
  <2> QED
    BY <2>1, <2>2
<1>5. Grown(e)
  BY <1>1, <1>4 DEF Grown
<1> HIDE DEF e
<1>6. LedgerTyped'
  <2>1. ledger' \in Seq(Events) /\ Len(ledger') = Len(ledger) + 1
    BY <1>5, GrownKeeps
  <2>2. recording' \in [ReportContents -> Seq(Nat)]
    BY <1>1, <1>2 DEF BundleInv, LedgerTyped
  <2>3. ASSUME NEW s \in ReportContents, NEW k \in 1..Len(recording'[s])
        PROVE  recording'[s][k] <= Len(ledger')
    <3>1. CASE s = r
      <4>1. recording'[s] = Append(recording[r], Len(ledger) + 1)
        BY <1>1, <3>1 DEF BundleInv, LedgerTyped
      <4> QED
        BY <1>2, <2>1, <4>1
    <3>2. CASE s # r
      <4>1. recording'[s] = recording[s] /\ recording[s] \in Seq(Nat)
        BY <1>1, <3>2 DEF BundleInv, LedgerTyped
      <4>2. recording[s][k] \in Nat /\ recording[s][k] <= Len(ledger)
        BY <4>1 DEF BundleInv, LedgerTyped
      <4> QED
        BY <1>2, <2>1, <4>1, <4>2
    <3> QED
      BY <3>1, <3>2
  <2> QED
    BY <1>1, <2>1, <2>2, <2>3 DEF BundleInv, LedgerTyped
<1> QED
  BY <1>5, <1>6, GrownKeeps DEF BundleInv

LEMMA OverrideInv == ASSUME BundleInv, NEW i \in DOMAIN ledger, Override(i) PROVE BundleInv'
<1> DEFINE e == Event("override_recorded", ledger[i].of, i, ledger[i].finding)
<1>1. /\ Len(ledger) < MaxEvents /\ ledger' = Append(ledger, e)
      /\ UNCHANGED <<latest, gone, recording, draft, bundle, verifier, verdict, known>>
  BY DEF Override, onDisk
<1>2. /\ ledger \in Seq(Events) /\ Len(ledger) \in Nat /\ i \in 1..Len(ledger) /\ ledger[i] \in Events
      /\ ledger[i].of \in gone \cup {latest}
  BY DEF BundleInv, LedgerTyped, Traced
<1>3. e \in Events /\ e.parent = i /\ e.of = ledger[i].of /\ e.artifact = latest
  BY <1>2 DEF Event, Events, BundleInv, LedgerTyped
<1>4. Grown(e)
  BY <1>1, <1>2, <1>3 DEF Grown
<1> HIDE DEF e
<1>5. LedgerTyped'
  <2>1. ledger' \in Seq(Events) /\ Len(ledger') = Len(ledger) + 1
    BY <1>4, GrownKeeps
  <2> QED
    <3>1. ASSUME NEW r \in ReportContents, NEW k \in 1..Len(recording[r])
          PROVE  recording[r][k] <= Len(ledger) + 1
      <4>1. recording[r][k] \in Nat /\ recording[r][k] <= Len(ledger)
        BY DEF BundleInv, LedgerTyped
      <4> QED
        BY <1>2, <4>1
    <3> QED
      BY <1>1, <2>1, <3>1 DEF BundleInv, LedgerTyped
<1> QED
  BY <1>4, <1>5, GrownKeeps DEF BundleInv

\* What neither the ledger nor a verification depends on.
LEMMA ElsewhereInv ==
  ASSUME BundleInv,
         UNCHANGED <<latest, gone, ledger, recording, bundle, verifier, verdict, known>>,
         draft' # Empty => bundle = Empty
  PROVE  BundleInv'
<1>1. BundleTypeOK' /\ LedgerTyped' /\ Traced'
  BY DEF BundleInv, BundleTypeOK, LedgerTyped, Traced
<1>2. OneBundle' /\ AsItWas' /\ Compared'
  BY DEF BundleInv, OneBundle, AsItWas, Compared, Whole
<1> QED
  BY <1>1, <1>2 DEF BundleInv

LEMMA BundlingInv == ASSUME BundleInv, NewBaseline \/ Damage \/ Collect PROVE BundleInv'
<1>1. UNCHANGED <<latest, gone, ledger, recording, bundle, verifier, verdict, known>>
  BY DEF NewBaseline, Damage, Collect, onDisk
<1>2. draft' = draft \/ bundle = Empty
  BY DEF NewBaseline, Damage, Collect
<1>3. draft' # Empty => bundle = Empty
  BY <1>2 DEF BundleInv, OneBundle
<1> QED
  BY <1>1, <1>3, ElsewhereInv

\* Nothing has been said yet of a bundle that is new or was edited.
LEMMA UnverifiedInv ==
  ASSUME BundleInv, Finish \/ \E part, ids : EditBundle(part, ids)
  PROVE  BundleInv'
<1>1. /\ UNCHANGED <<latest, gone, ledger, recording, known>>
      /\ verifier = "idle" /\ verifier' = "idle" /\ verdict' = NoValue
      /\ draft' = Empty
  <2>1. CASE Finish
    BY <2>1 DEF Finish, onDisk, BundleInv, OneBundle
  <2>2. CASE \E part, ids : EditBundle(part, ids)
    BY <2>2 DEF EditBundle, onDisk, BundleInv, OneBundle
  <2> QED
    BY <2>1, <2>2
<1>2. BundleTypeOK' /\ LedgerTyped' /\ Traced'
  BY <1>1 DEF BundleInv, BundleTypeOK, LedgerTyped, Traced
<1>3. OneBundle' /\ AsItWas' /\ Compared'
  BY <1>1 DEF OneBundle, AsItWas, Compared, NoValue
<1> QED
  BY <1>2, <1>3 DEF BundleInv

-----------------------------------------------------------------------------
(* EvidenceBundle: a verification *)

\* The first step finds the report itself, so it has not been overwritten and
\* nothing recorded of it hashed another.
LEMMA CheckReportInv == ASSUME BundleInv, CheckReport PROVE BundleInv'
<1>1. /\ verifier = "idle" /\ bundle # Empty /\ known' = Len(ledger)
      /\ UNCHANGED <<latest, gone, ledger, recording, draft, bundle>>
  BY DEF CheckReport, Verifying, onDisk
<1>2. \/ verifier' = "idle" /\ verdict' = "FAIL"
      \/ latest = bundle.target /\ verifier' = "ledger" /\ verdict' = verdict
  BY DEF CheckReport, Fails, Goes
<1>3. Len(ledger) \in Nat /\ DOMAIN ledger = 1..Len(ledger)
  BY DEF BundleInv, LedgerTyped
<1>4. BundleTypeOK' /\ LedgerTyped' /\ Traced'
  BY <1>1, <1>2, <1>3 DEF BundleInv, BundleTypeOK, LedgerTyped, Traced
<1>5. OneBundle'
  BY <1>1 DEF BundleInv, OneBundle
<1>6. AsItWas'
  BY <1>1, <1>2, <1>3 DEF BundleInv, BundleTypeOK, Traced, AsItWas
<1>7. Compared'
  BY <1>1, <1>2 DEF Compared
<1> QED
  BY <1>4, <1>5, <1>6, <1>7 DEF BundleInv

\* A later step: it fails, or goes on, or says that the bundle passes.
LEMMA CheckedInv ==
  ASSUME BundleInv, UNCHANGED <<latest, gone, ledger, recording, draft, bundle, known>>,
         bundle # Empty, verifier # "idle",
         \/ verifier' = "idle" /\ verdict' = "FAIL"
         \/ verifier' = "events" /\ verdict' = verdict
         \/ verifier' = "artifacts" /\ verdict' = verdict /\ Whole
         \/ verifier' = "idle" /\ verdict' = "PASS" /\ Whole
  PROVE  BundleInv'
<1>1. BundleTypeOK' /\ LedgerTyped' /\ Traced'
  BY DEF BundleInv, BundleTypeOK, LedgerTyped, Traced
<1>2. OneBundle' /\ AsItWas'
  BY DEF BundleInv, OneBundle, AsItWas
<1>3. Compared'
  BY DEF Compared, Whole
<1> QED
  BY <1>1, <1>2, <1>3 DEF BundleInv

LEMMA CheckLedgerInv == ASSUME BundleInv, CheckLedger PROVE BundleInv'
<1>1. /\ UNCHANGED <<latest, gone, ledger, recording, draft, bundle, known>> /\ verifier # "idle"
      /\ (verifier' = "idle" /\ verdict' = "FAIL") \/ (verifier' = "events" /\ verdict' = verdict)
  BY DEF CheckLedger, Verifying, onDisk, Fails, Goes
<1>2. bundle # Empty
  BY <1>1 DEF BundleInv, OneBundle
<1> QED
  BY <1>1, <1>2, CheckedInv

\* What the ledger says of the report now is all it said when the
\* verification began, and the bundle says the same.
LEMMA CheckEventsInv == ASSUME BundleInv, CheckEvents PROVE BundleInv'
<1>1. /\ UNCHANGED <<latest, gone, ledger, recording, draft, bundle, known>> /\ verifier # "idle"
      /\ \/ verifier' = "idle" /\ verdict' = "FAIL"
         \/ SayTheSame /\ verifier' = "artifacts" /\ verdict' = verdict
  BY DEF CheckEvents, Verifying, onDisk, Fails, Goes
<1>2. bundle # Empty
  BY <1>1 DEF BundleInv, OneBundle
<1>3. 1..known \subseteq DOMAIN ledger
  BY DEF BundleInv, LedgerTyped, BundleTypeOK
<1>4. ASSUME SayTheSame PROVE Whole
  <2>1. /\ bundle.fails = About(ledger, "fail_detected", bundle.target)
        /\ bundle.overrides = Overrides(ledger, bundle.fails)
        /\ Unresolved(ledger, bundle.target, bundle.fails) = {}
    BY <1>4 DEF SayTheSame
  <2>2. ASSUME NEW i \in 1..known, ledger[i].type = "fail_detected", ledger[i].of = bundle.target
        PROVE  i \in bundle.fails
    <3>1. ledger[i].artifact = bundle.target
      BY <1>1, <2>2 DEF BundleInv, AsItWas
    <3> QED
      BY <1>3, <2>1, <2>2, <3>1 DEF About
  <2>3. ASSUME NEW i \in 1..known, ledger[i].type = "override_recorded",
               ledger[i].parent \in bundle.fails
        PROVE  i \in bundle.overrides
    BY <1>3, <2>1, <2>3 DEF Unresolved
  <2> QED
    BY <2>2, <2>3 DEF Whole
<1> QED
  BY <1>1, <1>2, <1>4, CheckedInv

LEMMA CheckArtifactsInv == ASSUME BundleInv, CheckArtifacts PROVE BundleInv'
<1>1. /\ UNCHANGED <<latest, gone, ledger, recording, draft, bundle, known>> /\ verifier = "artifacts"
      /\ (verifier' = "idle" /\ verdict' = "FAIL") \/ (verifier' = "idle" /\ verdict' = "PASS")
  BY DEF CheckArtifacts, Verifying, onDisk, Fails
<1>2. bundle # Empty /\ Whole
  BY <1>1 DEF BundleInv, OneBundle, Compared
<1> QED
  BY <1>1, <1>2, CheckedInv

LEMMA BundleStep == ASSUME BundleInv, [BundleNext]_bundleVars PROVE BundleInv'
<1>1. CASE UNCHANGED bundleVars
  <2>1. /\ UNCHANGED <<latest, gone, ledger, recording, bundle, verifier, verdict, known>>
        /\ draft' = draft
    BY <1>1 DEF bundleVars, onDisk
  <2> QED
    BY <2>1, ElsewhereInv DEF BundleInv, OneBundle
<1>2. CASE BundleNext
  <2>1. \/ \E r \in ReportContents : NewReport(r) \/ Record(r)
        \/ NewBaseline \/ Damage \/ Collect
        \/ \E i \in DOMAIN ledger : Override(i)
        \/ Finish \/ \E part, ids : EditBundle(part, ids)
        \/ CheckReport \/ CheckLedger \/ CheckEvents \/ CheckArtifacts
    BY <1>2 DEF BundleNext
  <2> QED
    BY <2>1, NewReportInv, RecordInv, OverrideInv, BundlingInv, UnverifiedInv,
       CheckReportInv, CheckLedgerInv, CheckEventsInv, CheckArtifactsInv
<1> QED
  BY <1>1, <1>2

\* A bundle that verifies holds every error of its report recorded before the
\* verification, and every override of those: for any reports, ledger and
\* edits, although nothing is read at the same moment as anything else.
THEOREM BundleIsWhole == BundleSpec => []VerifiedIsWhole
<1>1. BundleInit => BundleInv
  BY BundleBegins
<1>2. BundleInv /\ [BundleNext]_bundleVars => BundleInv'
  BY BundleStep
<1>3. BundleInv => VerifiedIsWhole
  BY DEF BundleInv, Compared, Whole, VerifiedIsWhole
<1> QED
  BY <1>1, <1>2, <1>3, PTL DEF BundleSpec

-----------------------------------------------------------------------------
(* PolicyFile: the file system *)

\* A file holds one policy, or the beginning of one, or nothing.
Uniform(c) == \E v \in Versions : \A k \in 1..Len(c) : c[k] = v

\* No directory and no file comes back once it was left or replaced, and a file
\* is in one directory only.
FileSystem ==
    /\ directory \in Dirs \cup {NoEntry, Link} /\ entry \in [Dirs -> Inodes \cup {NoEntry, Link}]
    /\ content \in [Inodes -> Seq(Versions)] /\ stamp \in [Inodes -> Nat]
    /\ inodes \in Inodes /\ dirs \in Dirs /\ (directory \in Dirs => directory <= dirs)
    /\ \A d \in Dirs : entry[d] \in Inodes => entry[d] <= inodes
    /\ \A d, g \in Dirs : entry[d] \in Inodes /\ entry[d] = entry[g] => d = g
    /\ \A i \in Inodes : Uniform(content[i])
    /\ writing # Idle =>
          /\ writing.file \in Inodes /\ writing.file <= inodes /\ writing.version \in Versions
          /\ \A k \in 1..Len(content[writing.file]) : content[writing.file][k] = writing.version

\* What every change of the file system does to those that are there already.
Older ==
    /\ directory' = directory \/ directory' \notin Dirs \/ directory' > dirs
    /\ \A d \in Dirs : entry'[d] = entry[d] \/ entry'[d] \notin Inodes \/ entry'[d] > inodes
    /\ \A i \in Inodes : i <= inodes =>
          (content'[i] = content[i] /\ stamp'[i] = stamp[i]) \/ stamp'[i] > stamp[i]
    /\ inodes' >= inodes /\ dirs' >= dirs

LEMMA Places ==
  /\ NoEntry \notin Inodes /\ NoEntry \notin Dirs /\ Link \notin Inodes /\ Link \notin Dirs
  /\ Outside \notin Inodes /\ Outside # NoEntry /\ Outside # Link /\ Link # NoEntry
  /\ Inodes \subseteq Nat /\ Dirs \subseteq Nat /\ 1 \in Inodes /\ 1 \in Dirs
BY ReadAssumption DEF NoEntry, Inodes, Dirs, Link, Outside

\* A whole policy is told by its first chunk.
LEMMA WrittenOnce ==
  ASSUME NEW v \in Versions
  PROVE  /\ Written(v) \in Seq(Versions) /\ Len(Written(v)) = Size[v] /\ Size[v] \in Nat \ {0}
         /\ Written(v)[1] = v /\ Uniform(Written(v))
         /\ \A w \in Versions : Written(w) = Written(v) => w = v
<1>1. Size[v] \in Nat \ {0} /\ \A w \in Versions : Size[w] \in Nat \ {0}
  BY ReadAssumption
<1>2. Written(v) \in Seq(Versions) /\ Len(Written(v)) = Size[v]
  BY <1>1 DEF Written
<1>3. \A w \in Versions : Written(w)[1] = w
  BY <1>1 DEF Written
<1>4. Uniform(Written(v))
  BY <1>1, <1>2 DEF Written, Uniform
<1> QED
  BY <1>1, <1>2, <1>3, <1>4

\* The file that is named is in the directory, and was there before any other.
LEMMA NamedFile ==
  ASSUME FileSystem, Named(directory, entry) \in Inodes
  PROVE  /\ directory \in Dirs /\ Named(directory, entry) = entry[directory]
         /\ entry[directory] <= inodes
BY Places DEF FileSystem, Named

\* The policy is what the named file holds, if that is a policy.
LEMMA PolicyIs ==
  ASSUME NEW v \in Versions, FileSystem, Named(directory, entry) \in Inodes,
         content[Named(directory, entry)] = Written(v)
  PROVE  Policy(directory, entry, content) = v
<1>1. \A w \in Versions : content[Named(directory, entry)] = Written(w) => w = v
  BY WrittenOnce
<1>2. Named(directory, entry) # NoEntry
  BY Places
<1> QED
  BY <1>1, <1>2 DEF Policy

LEMMA BeginRewriteFiles ==
  ASSUME FileSystem, NEW v \in Versions, BeginRewrite(v) PROVE FileSystem' /\ Older
<1> DEFINE i == Named(directory, entry)
<1>1. /\ i \in Inodes /\ writing' = [file |-> i, version |-> v]
      /\ content' = [content EXCEPT ![i] = <<>>] /\ stamp' = [stamp EXCEPT ![i] = @ + 1]
      /\ UNCHANGED <<directory, entry, inodes, dirs>>
  BY DEF BeginRewrite
<1>2. i <= inodes
  BY <1>1, NamedFile
<1> HIDE DEF i
<1>3. /\ content' \in [Inodes -> Seq(Versions)] /\ stamp' \in [Inodes -> Nat]
      /\ content'[i] = <<>> /\ stamp'[i] = stamp[i] + 1
      /\ \A k \in Inodes : k # i => content'[k] = content[k] /\ stamp'[k] = stamp[k]
  BY <1>1 DEF FileSystem
<1>4. \A k \in Inodes : Uniform(content'[k])
  BY <1>1, <1>3 DEF FileSystem, Uniform
<1>5. Older
  BY <1>1, <1>3, Places DEF Older, FileSystem
<1>6. FileSystem'
  BY <1>1, <1>2, <1>3, <1>4 DEF FileSystem
<1> QED
  BY <1>5, <1>6

LEMMA RewriteFiles == ASSUME FileSystem, Rewrite PROVE FileSystem' /\ Older
<1> DEFINE i == writing.file
           v == writing.version
<1>1. /\ writing # Idle /\ content' = [content EXCEPT ![i] = Append(content[i], v)]
      /\ stamp' = [stamp EXCEPT ![i] = @ + 1] /\ writing' \in {Idle, writing}
      /\ UNCHANGED <<directory, entry, inodes, dirs>>
  BY DEF Rewrite
<1>2. /\ i \in Inodes /\ i <= inodes /\ v \in Versions /\ content[i] \in Seq(Versions)
      /\ \A k \in 1..Len(content[i]) : content[i][k] = v
  BY <1>1 DEF FileSystem
<1> HIDE DEF i, v
<1>3. /\ content' \in [Inodes -> Seq(Versions)] /\ stamp' \in [Inodes -> Nat]
      /\ content'[i] = Append(content[i], v) /\ stamp'[i] = stamp[i] + 1
      /\ \A k \in Inodes : k # i => content'[k] = content[k] /\ stamp'[k] = stamp[k]
  BY <1>1, <1>2 DEF FileSystem
<1>4. \A k \in 1..Len(content'[i]) : content'[i][k] = v
  BY <1>2, <1>3
<1>5. \A k \in Inodes : Uniform(content'[k])
  <2>1. Uniform(content'[i])
    BY <1>2, <1>4 DEF Uniform
  <2>2. \A k \in Inodes : Uniform(content[k])
    BY DEF FileSystem
  <2> QED
    BY <1>3, <2>1, <2>2
<1>6. Older
  BY <1>1, <1>3, Places DEF Older, FileSystem
<1>7. writing' # Idle => writing' = writing
  BY <1>1
<1>8. FileSystem'
  BY <1>1, <1>2, <1>3, <1>4, <1>5, <1>7 DEF FileSystem, i, v
<1> QED
  BY <1>6, <1>8

\* A new file, in the directory or in another.
LEMMA NewFile ==
  ASSUME FileSystem, NEW d \in Dirs, NEW v \in Versions, inodes < MaxFiles,
         inodes' = inodes + 1, entry' = [entry EXCEPT ![d] = inodes + 1],
         content' = [content EXCEPT ![inodes + 1] = Written(v)],
         UNCHANGED <<directory, stamp, writing, dirs>>
  PROVE  FileSystem' /\ Older
<1>1. inodes \in Nat /\ inodes' \in Inodes /\ inodes' > inodes
  BY ReadAssumption DEF FileSystem, Inodes
<1>2. /\ entry' \in [Dirs -> Inodes \cup {NoEntry, Link}] /\ entry'[d] = inodes'
      /\ \A g \in Dirs : g # d => entry'[g] = entry[g]
  BY <1>1 DEF FileSystem
<1>3. Written(v) \in Seq(Versions) /\ Uniform(Written(v))
  BY WrittenOnce
<1>4. /\ content' \in [Inodes -> Seq(Versions)] /\ content'[inodes'] = Written(v)
      /\ \A k \in Inodes : k # inodes' => content'[k] = content[k]
  BY <1>1, <1>3 DEF FileSystem
<1>5. \A k \in Inodes : Uniform(content'[k])
  <2>1. \A k \in Inodes : Uniform(content[k])
    BY DEF FileSystem
  <2>2. \A k \in Inodes : content'[k] = content[k] \/ content'[k] = Written(v)
    BY <1>4
  <2> QED
    BY <1>3, <2>1, <2>2
<1>6. /\ \A k \in Inodes : k \in Nat
      /\ \A g \in Dirs : entry[g] \in Inodes => entry[g] \in Nat /\ entry[g] <= inodes
  BY Places DEF FileSystem
<1>7. \A g \in Dirs : entry'[g] \in Inodes => entry'[g] <= inodes'
  <2>1. inodes' <= inodes'
    BY <1>1, <1>6
  <2>2. \A g \in Dirs : entry[g] \in Inodes => entry[g] <= inodes'
    BY <1>1, <1>6
  <2> QED
    BY <1>2, <2>1, <2>2
<1>8. \A g, h \in Dirs : entry'[g] \in Inodes /\ entry'[g] = entry'[h] => g = h
  <2>1. \A g \in Dirs : g # d => entry'[g] # inodes'
    BY <1>1, <1>2, <1>6
  <2>2. \A g, h \in Dirs : entry[g] \in Inodes /\ entry[g] = entry[h] => g = h
    BY DEF FileSystem
  <2> QED
    BY <1>2, <2>1, <2>2
<1>9. writing # Idle => writing.file \in Inodes /\ writing.file # inodes'
                        /\ writing.file <= inodes'
  <2>1. writing # Idle => writing.file \in Inodes /\ writing.file <= inodes
    BY DEF FileSystem
  <2>2. \A k \in Inodes : k <= inodes => k # inodes' /\ k <= inodes'
    BY <1>1, <1>6
  <2> QED
    BY <2>1, <2>2
<1>10. Older
  <2>1. \A g \in Dirs : entry'[g] = entry[g] \/ entry'[g] > inodes
    BY <1>1, <1>2
  <2>2. \A k \in Inodes : k <= inodes => content'[k] = content[k] /\ stamp'[k] = stamp[k]
    BY <1>1, <1>4, <1>6
  <2> QED
    BY <1>1, <2>1, <2>2, Places DEF Older, FileSystem
<1>11. FileSystem'
  BY <1>1, <1>2, <1>4, <1>5, <1>7, <1>8, <1>9 DEF FileSystem
<1> QED
  BY <1>10, <1>11

LEMMA PutInsteadFiles ==
  ASSUME FileSystem, NEW e \in {NoEntry, Link}, PutInstead(e) PROVE FileSystem' /\ Older
<1>1. /\ directory \in Dirs /\ entry' = [entry EXCEPT ![directory] = e]
      /\ UNCHANGED <<directory, content, stamp, writing, inodes, dirs>>
  BY DEF PutInstead
<1>2. /\ entry' \in [Dirs -> Inodes \cup {NoEntry, Link}] /\ entry'[directory] \notin Inodes
      /\ \A g \in Dirs : g # directory => entry'[g] = entry[g]
  BY <1>1, Places DEF FileSystem
<1>3. Older
  BY <1>1, <1>2, Places DEF Older, FileSystem
<1>4. FileSystem'
  BY <1>1, <1>2 DEF FileSystem
<1> QED
  BY <1>3, <1>4

LEMMA ReplaceDirectoryFiles ==
  ASSUME FileSystem, NEW d \in Dirs \cup {NoEntry, Link}, ReplaceDirectory(d)
  PROVE  FileSystem' /\ Older
<1>1. /\ directory' = d /\ UNCHANGED <<entry, content, stamp, writing, inodes>>
      /\ (d \notin Dirs /\ dirs' = dirs) \/ (d = dirs + 1 /\ d \in Dirs /\ dirs' = d)
  BY Places DEF ReplaceDirectory
<1>2. dirs \in Nat /\ inodes \in Nat
  BY Places DEF FileSystem
<1>3. Older
  BY <1>1, <1>2 DEF Older
<1>4. FileSystem'
  BY <1>1, <1>2 DEF FileSystem
<1> QED
  BY <1>3, <1>4

LEMMA EnvironmentFiles ==
  ASSUME FileSystem, Environment PROVE FileSystem' /\ Older /\ Changed
<1>1. CASE \E v \in Versions : BeginRewrite(v)
  BY <1>1, BeginRewriteFiles DEF BeginRewrite
<1>2. CASE \E v \in Versions : ReplaceFile(v)
  BY <1>2, NewFile DEF ReplaceFile
<1>3. CASE Rewrite
  BY <1>3, RewriteFiles DEF Rewrite
<1>4. CASE \E e \in {NoEntry, Link} : PutInstead(e)
  BY <1>4, PutInsteadFiles DEF PutInstead
<1>5. CASE \E d \in Dirs \cup {NoEntry, Link} : ReplaceDirectory(d)
  BY <1>5, ReplaceDirectoryFiles DEF ReplaceDirectory
<1>6. CASE \E d \in Dirs, v \in Versions : FillElsewhere(d, v)
  BY <1>6, NewFile DEF FillElsewhere
<1> QED
  BY <1>1, <1>2, <1>3, <1>4, <1>5, <1>6 DEF Environment

-----------------------------------------------------------------------------
(* PolicyFile: the call *)

CallTyped ==
    /\ confined \in BOOLEAN
    /\ progress \in {"look", "directory", "entry", "open", "read", "stat", "recheck", "done"}
    /\ result \in Versions \cup ReadErrors \cup {"none", "absent"}
    /\ progress = "done" <=> result # "none"
    /\ looked \in [dir : Dirs \cup {NoEntry, Link}, file : Inodes \cup {NoEntry, Link}]
    /\ opened \in Inodes \cup {NoEntry, Outside} /\ before \in [size : Nat, stamp : Nat]
    /\ data \in Seq(Versions) /\ Len(data) <= ChunkLimit + 1
    /\ progress \in {"look", "directory", "entry", "open"} => data = <<>>

\* Once the call has seen a directory, that directory had its place already: one
\* that has another by now does not come back to it.
DirectorySeen ==
    progress \notin {"look", "done"} => looked.dir \in Dirs /\ looked.dir <= dirs

\* A confined call opened a file that no other directory ever has.
OneFile ==
    progress \in {"read", "stat", "recheck"} /\ confined /\ opened \in Inodes =>
        \A d \in Dirs : entry[d] = opened => d = looked.dir

\* The directory that a confined call goes by is the policy's.
Still == confined => directory = looked.dir

\* While the file has the time it had when it was opened, it holds what it held,
\* and if that is a policy, it was the repository's.
FileRead ==
    progress \in {"read", "stat"} =>
        /\ opened \in Inodes /\ opened <= inodes /\ before.stamp <= stamp[opened]
        /\ stamp[opened] = before.stamp =>
              /\ Len(content[opened]) = before.size /\ Len(data) <= Len(content[opened])
              /\ \A k \in 1..Len(data) : data[k] = content[opened][k]
              /\ Still => \A v \in Versions : content[opened] = Written(v) => v \in meant

\* What was found to be unchanged is one policy's, or the absence of one.
FileHeld ==
    progress = "recheck" =>
        /\ opened \in Inodes => /\ opened <= inodes /\ Uniform(data)
                                /\ Still => \A v \in Versions : data = Written(v) => v \in meant
        /\ opened \notin Inodes => /\ opened = NoEntry /\ confined
                                   /\ directory = looked.dir => "absent" \in meant

Answered ==
    result \in Versions \cup {"absent", "mixed"} =>
        result \in meant \/ (result = "absent" /\ LookedThroughLink)

ReadInv ==
    /\ FileSystem /\ CallTyped /\ Policy(directory, entry, content) \in meant
    /\ DirectorySeen /\ OneFile /\ FileRead /\ FileHeld /\ Answered

LEMMA Words ==
  /\ "none" \notin Versions /\ "absent" \notin Versions /\ "unclear" \notin Versions
  /\ Versions \cap ReadErrors = {}
BY ReadAssumption

LEMMA PolicyAbsent ==
  ASSUME Named(directory, entry) = NoEntry PROVE Policy(directory, entry, content) = "absent"
BY DEF Policy

\* Whatever the others do to the file system.
LEMMA EnvironmentInv == ASSUME ReadInv, Environment PROVE ReadInv'
<1>1. FileSystem /\ FileSystem' /\ Older /\ Changed
  BY EnvironmentFiles DEF ReadInv
<1>2. /\ progress # "done" /\ meant' = meant \cup {Policy(directory', entry', content')}
      /\ confined' = confined /\ progress' = progress /\ looked' = looked /\ opened' = opened
      /\ before' = before /\ data' = data /\ result' = result
  BY <1>1 DEF Changed
<1>3. CallTyped' /\ Answered' /\ Policy(directory', entry', content') \in meant'
  BY <1>2 DEF ReadInv, CallTyped, Answered
<1>4. DirectorySeen'
  <2>1. dirs \in Nat /\ dirs' \in Nat /\ dirs' >= dirs /\ \A d \in Dirs : d \in Nat
    BY <1>1, Places DEF FileSystem, Older
  <2> QED
    BY <1>2, <2>1 DEF ReadInv, DirectorySeen
<1>5. progress # "look" /\ directory' = looked.dir => directory = looked.dir
  <2>1. dirs \in Nat /\ \A d \in Dirs : d \in Nat
    BY <1>1, Places DEF FileSystem
  <2>2. directory' = directory \/ directory' \notin Dirs \/ directory' > dirs
    BY <1>1 DEF Older
  <2>3. progress # "look" => looked.dir \in Dirs /\ looked.dir <= dirs
    BY <1>2 DEF ReadInv, DirectorySeen
  <2> QED
    BY <2>1, <2>2, <2>3
<1>6. progress # "look" /\ Still' => Still
  BY <1>2, <1>5 DEF Still
<1>7. inodes \in Nat /\ inodes' \in Nat /\ inodes' >= inodes /\ \A i \in Inodes : i \in Nat
  BY <1>1, Places DEF FileSystem, Older
<1>8. /\ progress \in {"read", "stat"} => opened \in Inodes /\ opened <= inodes
      /\ progress = "recheck" /\ opened \in Inodes => opened <= inodes
  BY DEF ReadInv, FileRead, FileHeld
<1>9. OneFile'
  <2>1. ASSUME progress \in {"read", "stat", "recheck"}, confined, opened \in Inodes,
               NEW d \in Dirs, entry'[d] = opened
        PROVE  d = looked.dir
    <3>1. entry'[d] = entry[d] \/ entry'[d] \notin Inodes \/ entry'[d] > inodes
      BY <1>1 DEF Older
    <3>2. opened \in Nat /\ opened <= inodes
      BY <1>7, <1>8, <2>1
    <3>3. entry[d] = opened
      BY <1>7, <2>1, <3>1, <3>2
    <3> QED
      BY <2>1, <3>3 DEF ReadInv, OneFile
  <2> QED
    BY <1>2, <2>1 DEF OneFile
<1>10. FileRead'
  <2> SUFFICES ASSUME progress \in {"read", "stat"} PROVE FileRead'
    BY <1>2 DEF FileRead
  <2>1. /\ opened \in Inodes /\ opened <= inodes /\ before.stamp <= stamp[opened]
        /\ stamp[opened] \in Nat /\ stamp'[opened] \in Nat /\ before.stamp \in Nat
    BY <1>1 DEF ReadInv, FileRead, FileSystem, CallTyped
  <2>2. \/ content'[opened] = content[opened] /\ stamp'[opened] = stamp[opened]
        \/ stamp'[opened] > stamp[opened]
    BY <1>1, <2>1 DEF Older
  <2>3. /\ before.stamp <= stamp'[opened]
        /\ stamp'[opened] = before.stamp =>
             stamp[opened] = before.stamp /\ content'[opened] = content[opened]
    BY <2>1, <2>2
  <2>4. opened <= inodes'
    BY <1>7, <2>1
  <2>5. stamp[opened] = before.stamp =>
              /\ Len(content[opened]) = before.size /\ Len(data) <= Len(content[opened])
              /\ \A k \in 1..Len(data) : data[k] = content[opened][k]
              /\ Still => \A v \in Versions : content[opened] = Written(v) => v \in meant
    BY DEF ReadInv, FileRead
  <2>6. Still' => Still
    BY <1>6
  <2> QED
    BY <1>2, <2>1, <2>3, <2>4, <2>5, <2>6 DEF FileRead
<1>11. FileHeld'
  <2>1. ASSUME progress = "recheck", opened \in Inodes
        PROVE  /\ opened <= inodes' /\ Uniform(data)
               /\ Still' => \A v \in Versions : data = Written(v) => v \in meant'
    <3>1. /\ opened <= inodes /\ Uniform(data)
          /\ Still => \A v \in Versions : data = Written(v) => v \in meant
      BY <2>1 DEF ReadInv, FileHeld
    <3> QED
      BY <1>2, <1>6, <1>7, <2>1, <3>1
  <2>2. ASSUME progress = "recheck", opened \notin Inodes
        PROVE  opened = NoEntry /\ confined /\ (directory' = looked.dir => "absent" \in meant')
    BY <1>2, <1>5, <2>2 DEF ReadInv, FileHeld
  <2>3. (Uniform(data))' <=> Uniform(data)
    BY <1>2 DEF Uniform
  <2> QED
    BY <1>2, <2>1, <2>2, <2>3 DEF FileHeld
<1> QED
  BY <1>1, <1>3, <1>4, <1>9, <1>10, <1>11 DEF ReadInv

\* A step of the call leaves the file system and the moments alone.
LEMMA QuietKeeps ==
  ASSUME ReadInv, Quiet
  PROVE  /\ FileSystem' /\ Policy(directory', entry', content') \in meant'
         /\ directory' = directory /\ entry' = entry /\ content' = content /\ stamp' = stamp
         /\ inodes' = inodes /\ dirs' = dirs /\ confined' = confined /\ meant' = meant
BY DEF Quiet, policyDisk, ReadInv, FileSystem, Uniform

\* A call that is over, when what it returns is right.
LEMMA ReturnInv ==
  ASSUME ReadInv, Quiet, NEW r \in Versions \cup ReadErrors \cup {"absent"}, Return(r),
         r \in Versions \cup {"absent", "mixed"} =>
             r \in meant \/ (r = "absent" /\ LookedThroughLink'),
         looked' \in [dir : Dirs \cup {NoEntry, Link}, file : Inodes \cup {NoEntry, Link}],
         opened' \in Inodes \cup {NoEntry, Outside}, before' \in [size : Nat, stamp : Nat],
         data' = data
  PROVE  ReadInv'
<1>1. progress' = "done" /\ result' = r /\ r # "none"
  BY Words DEF Return, ReadErrors
<1>2. CallTyped' /\ Answered'
  BY <1>1, QuietKeeps DEF ReadInv, CallTyped, Answered
<1>3. DirectorySeen' /\ OneFile' /\ FileRead' /\ FileHeld'
  BY <1>1 DEF DirectorySeen, OneFile, FileRead, FileHeld
<1> QED
  BY <1>2, <1>3, QuietKeeps DEF ReadInv

LEMMA LookDirectoryInv == ASSUME ReadInv, LookDirectory PROVE ReadInv'
<1>1. /\ progress = "look" /\ Quiet /\ opened' = opened /\ before' = before /\ data' = data
      /\ looked' = [dir |-> directory, file |-> IF confined THEN NoEntry ELSE Named(directory, entry)]
  BY DEF LookDirectory
<1>2. looked' \in [dir : Dirs \cup {NoEntry, Link}, file : Inodes \cup {NoEntry, Link}]
  BY <1>1 DEF ReadInv, FileSystem, Named
<1>3. CASE directory = NoEntry /\ Return("absent")
  BY <1>1, <1>2, <1>3, ReturnInv, PolicyAbsent, Places DEF ReadInv, CallTyped, Named
<1>4. CASE directory = Link /\ Return("unsafe")
  BY <1>1, <1>2, <1>4, ReturnInv, Words DEF ReadInv, CallTyped, ReadErrors
<1>5. CASE directory \in Dirs /\ progress' \in {"directory", "entry"} /\ result' = result
  BY <1>1, <1>2, <1>5, QuietKeeps
  DEF ReadInv, FileSystem, CallTyped, DirectorySeen, OneFile, FileRead, FileHeld, Answered
<1> QED
  BY <1>3, <1>4, <1>5 DEF LookDirectory

LEMMA LookEntryInv == ASSUME ReadInv, LookEntry PROVE ReadInv'
<1> DEFINE e == Named(directory, entry)
<1>1. /\ progress = "entry" /\ Quiet /\ opened' = opened /\ before' = before /\ data' = data
      /\ looked' = [looked EXCEPT !.file = e]
  BY DEF LookEntry
<1>2. /\ looked' \in [dir : Dirs \cup {NoEntry, Link}, file : Inodes \cup {NoEntry, Link}]
      /\ looked'.dir = looked.dir
  BY <1>1 DEF ReadInv, FileSystem, CallTyped, Named
<1>3. CASE e = NoEntry /\ Return("absent")
  BY <1>1, <1>2, <1>3, ReturnInv, PolicyAbsent DEF ReadInv, CallTyped
<1>4. CASE Return("unstable") \/ Return("unsafe")
  BY <1>1, <1>2, <1>4, ReturnInv, Words DEF ReadInv, CallTyped, ReadErrors
<1>5. CASE progress' = "open" /\ result' = result
  BY <1>1, <1>2, <1>5, QuietKeeps
  DEF ReadInv, CallTyped, DirectorySeen, OneFile, FileRead, FileHeld, Answered, LookedThroughLink
<1>6. CASE directory = Link /\ Return("absent")
  <2>1. looked'.file = Link
    BY <1>1, <1>6, Places DEF ReadInv, CallTyped, Named
  <2> QED
    BY <1>1, <1>2, <1>6, <2>1, ReturnInv DEF ReadInv, CallTyped, LookedThroughLink
<1> QED
  BY <1>3, <1>4, <1>5, <1>6 DEF LookEntry

LEMMA OpenDirectoryInv == ASSUME ReadInv, OpenDirectory PROVE ReadInv'
<1>1. /\ progress = "directory" /\ Quiet /\ looked' = looked /\ opened' = opened
      /\ before' = before /\ data' = data
  BY DEF OpenDirectory
<1>2. CASE Return("unstable") \/ Return("unsafe")
  BY <1>1, <1>2, ReturnInv, Words DEF ReadInv, CallTyped, ReadErrors
<1>3. CASE progress' = "open" /\ result' = result
  BY <1>1, <1>3, QuietKeeps
  DEF ReadInv, CallTyped, DirectorySeen, OneFile, FileRead, FileHeld, Answered
<1> QED
  BY <1>2, <1>3 DEF OpenDirectory

\* A file that is opened is the policy's, unless the directory is another by now.
LEMMA OpenFileInv == ASSUME ReadInv, OpenFile PROVE ReadInv'
<1> DEFINE e == IF confined THEN entry[looked.dir] ELSE Named(directory, entry)
<1>1. progress = "open" /\ Quiet /\ looked' = looked /\ data' = data
  BY DEF OpenFile
<1>2. looked.dir \in Dirs /\ looked.dir <= dirs
  BY <1>1 DEF ReadInv, DirectorySeen
<1>3. Still => e = Named(directory, entry)
  BY <1>2 DEF Still, Named
<1>4. CASE e = NoEntry /\ opened' = NoEntry /\ before' = before
           /\ IF confined THEN progress' = "recheck" /\ UNCHANGED result ELSE Return("unsafe")
  <2>1. CASE ~confined
    BY <1>1, <1>4, <2>1, ReturnInv, Words DEF ReadInv, CallTyped, ReadErrors
  <2>2. CASE confined
    <3>1. progress' = "recheck" /\ result' = result
      BY <1>4, <2>2
    <3>2. directory = looked.dir => "absent" \in meant
      BY <1>3, <1>4, PolicyAbsent DEF Still, ReadInv
    <3> QED
      BY <1>1, <1>2, <1>4, <2>2, <3>1, <3>2, QuietKeeps, Places
      DEF ReadInv, CallTyped, DirectorySeen, OneFile, FileRead, FileHeld, Answered
  <2> QED
    BY <2>1, <2>2 DEF ReadInv, CallTyped
<1>5. CASE /\ opened' = Outside /\ before' = before
           /\ Return(IF confined THEN "unsafe" ELSE "unstable")
  BY <1>1, <1>5, ReturnInv, Words DEF ReadInv, CallTyped, ReadErrors
<1>6. CASE /\ e \in Inodes /\ opened' = e
           /\ before' = [size |-> Len(content[e]), stamp |-> stamp[e]]
           /\ IF confined \/ e = looked.file THEN progress' = "read" /\ UNCHANGED result
              ELSE Return("unstable")
  <2>1. content[e] \in Seq(Versions) /\ stamp[e] \in Nat
    BY <1>6 DEF ReadInv, FileSystem
  <2>2. before' \in [size : Nat, stamp : Nat] /\ before'.size = Len(content[e])
        /\ before'.stamp = stamp[e]
    BY <1>6, <2>1
  <2>3. CASE Return("unstable")
    BY <1>1, <1>6, <2>2, <2>3, ReturnInv, Words DEF ReadInv, CallTyped, ReadErrors
  <2>4. CASE progress' = "read" /\ result' = result
    <3>1. e <= inodes
      BY <1>2, <1>6, NamedFile DEF ReadInv, FileSystem
    <3>2. Still => \A v \in Versions : content[e] = Written(v) => v \in meant
      BY <1>3, <1>6, PolicyIs DEF ReadInv
    <3>3. CallTyped'
      BY <1>1, <1>6, <2>2, <2>4, QuietKeeps DEF ReadInv, CallTyped
    <3>4. FileRead'
      <4>1. data = <<>>
        BY <1>1 DEF ReadInv, CallTyped
      <4> QED
        BY <1>1, <1>6, <2>1, <2>2, <2>4, <3>1, <3>2, <4>1, QuietKeeps DEF FileRead, Still
    <3>5. OneFile'
      BY <1>1, <1>2, <1>6, <2>4, QuietKeeps DEF ReadInv, FileSystem, OneFile
    <3>6. DirectorySeen' /\ FileHeld' /\ Answered'
      BY <1>1, <1>2, <2>4, QuietKeeps DEF ReadInv, DirectorySeen, FileHeld, Answered, LookedThroughLink
    <3> QED
      BY <1>1, <3>3, <3>4, <3>5, <3>6, QuietKeeps DEF ReadInv
  <2> QED
    BY <1>6, <2>3, <2>4
<1> QED
  BY <1>4, <1>5, <1>6 DEF OpenFile

\* One more chunk of the same file.
LEMMA ReadChunkInv == ASSUME ReadInv, ReadChunk PROVE ReadInv'
<1> DEFINE next == Len(data) + 1
<1>1. /\ progress = "read" /\ Quiet /\ looked' = looked /\ opened' = opened
      /\ before' = before /\ result' = result
  BY DEF ReadChunk
<1>2. opened \in Inodes /\ content[opened] \in Seq(Versions) /\ data \in Seq(Versions)
  BY <1>1 DEF ReadInv, FileRead, FileSystem, CallTyped
<1>3. OneFile' /\ DirectorySeen' /\ FileHeld' /\ Answered'
  <2>1. progress' \in {"read", "stat"}
    BY <1>1 DEF ReadChunk
  <2> QED
    BY <1>1, <2>1, QuietKeeps DEF ReadInv, OneFile, DirectorySeen, FileHeld, Answered, LookedThroughLink
<1>4. CASE /\ next <= Len(content[opened]) /\ next <= ChunkLimit + 1
           /\ data' = Append(data, content[opened][next]) /\ progress' = progress
  <2>1. content[opened][next] \in Versions
    BY <1>2, <1>4
  <2>2. /\ data' \in Seq(Versions) /\ Len(data') = next
        /\ \A k \in 1..Len(data') : data'[k] = IF k = next THEN content[opened][next] ELSE data[k]
    BY <1>2, <1>4, <2>1
  <2>3. CallTyped'
    BY <1>1, <1>4, <2>2, QuietKeeps DEF ReadInv, CallTyped
  <2>4. stamp[opened] = before.stamp => \A k \in 1..Len(data) : data[k] = content[opened][k]
    BY <1>1 DEF ReadInv, FileRead
  <2>5. stamp[opened] = before.stamp => \A k \in 1..Len(data') : data'[k] = content[opened][k]
    BY <1>2, <2>2, <2>4
  <2>6. FileRead'
    BY <1>1, <1>2, <1>4, <2>2, <2>5, QuietKeeps DEF ReadInv, FileRead, Still
  <2> QED
    BY <1>1, <1>3, <2>3, <2>6, QuietKeeps DEF ReadInv
<1>5. CASE progress' = "stat" /\ data' = data
  BY <1>1, <1>3, <1>5, QuietKeeps DEF ReadInv, CallTyped, FileRead, Still
<1> QED
  BY <1>1, <1>4, <1>5 DEF ReadChunk

\* A file whose size and time are what they were was not written to meanwhile.
LEMMA StatInv == ASSUME ReadInv, Stat PROVE ReadInv'
<1>1. /\ progress = "stat" /\ Quiet /\ looked' = looked /\ opened' = opened
      /\ before' = before /\ data' = data
  BY DEF Stat
<1>2. CASE Return("unstable")
  BY <1>1, <1>2, ReturnInv, Words DEF ReadInv, CallTyped, ReadErrors
<1>3. CASE /\ [size |-> Len(content[opened]), stamp |-> stamp[opened]] = before
           /\ Len(data) = before.size /\ progress' = "recheck" /\ result' = result
  <2>1. /\ opened \in Inodes /\ opened <= inodes /\ content[opened] \in Seq(Versions)
        /\ data \in Seq(Versions) /\ stamp[opened] = before.stamp
        /\ Len(data) = Len(content[opened])
    BY <1>1, <1>3 DEF ReadInv, FileRead, FileSystem, CallTyped
  <2>2. data = content[opened]
    <3>1. \A k \in 1..Len(data) : data[k] = content[opened][k]
      BY <1>1, <2>1 DEF ReadInv, FileRead
    <3> QED
      BY <2>1, <3>1
  <2>3. Uniform(data)
    BY <2>1, <2>2 DEF ReadInv, FileSystem
  <2>4. Still => \A v \in Versions : data = Written(v) => v \in meant
    BY <1>1, <2>1, <2>2 DEF ReadInv, FileRead
  <2>5. (Uniform(data))' <=> Uniform(data)
    BY <1>1 DEF Uniform
  <2>6. FileHeld'
    BY <1>1, <1>3, <2>1, <2>3, <2>4, <2>5, QuietKeeps DEF FileHeld, Still
  <2>7. CallTyped' /\ OneFile' /\ DirectorySeen' /\ FileRead' /\ Answered'
    BY <1>1, <1>3, QuietKeeps
    DEF ReadInv, CallTyped, OneFile, DirectorySeen, FileRead, Answered
  <2> QED
    BY <1>1, <2>6, <2>7, QuietKeeps DEF ReadInv
<1> QED
  BY <1>1, <1>2, <1>3 DEF Stat

\* What is one policy's cannot be taken for a mixture.
LEMMA ParsedIs ==
  ASSUME data \in Seq(Versions), Uniform(data)
  PROVE  /\ Parsed \in Versions \cup {"limit_exceeded", "malformed"}
         /\ Parsed \in Versions => data = Written(Parsed)
<1>1. CASE Len(data) > ChunkLimit
  BY <1>1, Words DEF Parsed, ReadErrors
<1>2. CASE ~(Len(data) > ChunkLimit) /\ \E v \in Versions : data = Written(v)
  <2>1. PICK v \in Versions : data = Written(v)
    BY <1>2
  <2> QED
    BY <1>2, <2>1, WrittenOnce DEF Parsed
<1>3. CASE ~(Len(data) > ChunkLimit) /\ ~\E v \in Versions : data = Written(v)
  <2>1. DOMAIN data = 1..Len(data)
    OBVIOUS
  <2>2. \E v \in Versions : \A k \in DOMAIN data : data[k] = v
    BY <2>1 DEF Uniform
  <2> QED
    BY <1>3, <2>2, Words DEF Parsed, ReadErrors
<1> QED
  BY <1>1, <1>2, <1>3

LEMMA RecheckInv == ASSUME ReadInv, Recheck PROVE ReadInv'
<1>1. /\ progress = "recheck" /\ Quiet /\ looked' = looked /\ opened' = opened
      /\ before' = before /\ data' = data
  BY DEF Recheck
<1>2. looked \in [dir : Dirs \cup {NoEntry, Link}, file : Inodes \cup {NoEntry, Link}]
      /\ opened \in Inodes \cup {NoEntry, Outside} /\ before \in [size : Nat, stamp : Nat]
  BY DEF ReadInv, CallTyped
<1>3. CASE Return("unstable")
  BY <1>1, <1>2, <1>3, ReturnInv, Words DEF ReadErrors
<1>4. CASE opened = NoEntry /\ directory = looked.dir /\ Return("absent")
  <2>1. "absent" \in meant
    BY <1>1, <1>4, Places DEF ReadInv, FileHeld
  <2> QED
    BY <1>1, <1>2, <1>4, <2>1, ReturnInv
<1>5. CASE /\ opened # NoEntry /\ Named(directory, entry) = opened
           /\ confined \/ directory = looked.dir
           /\ Return(Parsed)
  <2>1. opened \in Inodes /\ Uniform(data) /\ data \in Seq(Versions)
    BY <1>1, <1>5 DEF ReadInv, FileHeld, CallTyped
  <2>2. Still
    BY <1>1, <1>5, <2>1, NamedFile DEF ReadInv, OneFile, Still
  <2>3. Parsed \in Versions => Parsed \in meant
    BY <1>1, <2>1, <2>2, ParsedIs DEF ReadInv, FileHeld
  <2>4. Parsed \in Versions \cup {"limit_exceeded", "malformed"}
    BY <2>1, ParsedIs
  <2> HIDE DEF Parsed
  <2> DEFINE r == Parsed
  <2>5. r \in Versions \cup ReadErrors \cup {"absent"} /\ Return(r)
        /\ (r \in Versions \cup {"absent", "mixed"} => r \in meant)
    BY <1>5, <2>3, <2>4 DEF ReadErrors
  <2> HIDE DEF r
  <2> QED
    BY <1>1, <1>2, <2>5, ReturnInv
<1> QED
  BY <1>1, <1>3, <1>4, <1>5 DEF Recheck

LEMMA ReadBegins == ASSUME ReadInit PROVE ReadInv
<1>1. PICK v \in Versions : content = [i \in Inodes |-> IF i = 1 THEN Written(v) ELSE <<>>]
  BY DEF ReadInit
<1>2. /\ directory \in {NoEntry, Link, 1} /\ stamp = [i \in Inodes |-> 0] /\ writing = Idle
      /\ inodes = 1 /\ dirs = 1 /\ confined \in BOOLEAN /\ progress = "look"
      /\ looked = [dir |-> NoEntry, file |-> NoEntry] /\ opened = NoEntry
      /\ before = [size |-> 0, stamp |-> 0] /\ data = <<>> /\ result = "none"
      /\ meant = {Policy(directory, entry, content)}
  BY DEF ReadInit
<1>3. PICK e \in {NoEntry, Link, 1} : entry = [d \in Dirs |-> IF d = 1 THEN e ELSE NoEntry]
  BY DEF ReadInit
<1>4. content \in [Inodes -> Seq(Versions)] /\ \A i \in Inodes : Uniform(content[i])
  <2>1. Written(v) \in Seq(Versions) /\ Uniform(Written(v))
    BY WrittenOnce
  <2>2. <<>> \in Seq(Versions) /\ Uniform(<<>>)
    BY DEF Uniform
  <2> QED
    BY <1>1, <2>1, <2>2
<1>5. /\ entry \in [Dirs -> Inodes \cup {NoEntry, Link}]
      /\ \A d \in Dirs : entry[d] \in Inodes => d = 1 /\ entry[d] = 1
  BY <1>3, Places
<1>6. FileSystem
  BY <1>2, <1>4, <1>5, Places DEF FileSystem, Idle
<1>7. CallTyped
  BY <1>2, ReadAssumption, Words DEF CallTyped
<1>8. DirectorySeen /\ OneFile /\ FileRead /\ FileHeld /\ Answered
  BY <1>2, Words DEF DirectorySeen, OneFile, FileRead, FileHeld, Answered
<1> QED
  BY <1>2, <1>6, <1>7, <1>8 DEF ReadInv

LEMMA ReadStep == ASSUME ReadInv, [ReadNext]_readVars PROVE ReadInv'
<1>1. CASE UNCHANGED readVars
  <2>1. /\ directory' = directory /\ entry' = entry /\ content' = content /\ stamp' = stamp
        /\ writing' = writing /\ inodes' = inodes /\ dirs' = dirs /\ confined' = confined
        /\ progress' = progress /\ looked' = looked /\ opened' = opened /\ before' = before
        /\ data' = data /\ result' = result /\ meant' = meant
    BY <1>1 DEF readVars, policyDisk
  <2> QED
    BY <2>1 DEF ReadInv, FileSystem, CallTyped, DirectorySeen, OneFile, FileRead, FileHeld,
                Answered, LookedThroughLink, Still, Uniform
<1>2. CASE ReadNext
  BY <1>2, EnvironmentInv, LookDirectoryInv, LookEntryInv, OpenDirectoryInv, OpenFileInv,
     ReadChunkInv, StatInv, RecheckInv DEF ReadNext
<1> QED
  BY <1>1, <1>2

\* A review goes by a policy, or by none, only if that was the repository's at a
\* moment of the call: for any number of rewritten, replaced and moved files and
\* directories, and whether or not the call can be confined to a directory.  Where
\* it cannot, "none" may also be what a link in the directory's place leads to.
THEOREM PolicyIsOnes == ReadSpec => []PolicyReadIsTrue
<1>1. ReadInit => ReadInv
  BY ReadBegins
<1>2. ReadInv /\ [ReadNext]_readVars => ReadInv'
  BY ReadStep
<1>3. ReadInv => PolicyReadIsTrue
  BY DEF ReadInv, FileSystem, CallTyped, Answered, PolicyReadIsTrue, ReadTypeOK
<1> QED
  BY <1>1, <1>2, <1>3, PTL DEF ReadSpec

-----------------------------------------------------------------------------
(* CommandCenter: what a snapshot is derived from *)

AllRead(s) ==
    /\ s.baseline \in Baselines /\ s.policy \in {"PASS", "FAIL"}
    /\ s.status \in Statuses /\ s.report \in Canonical

\* Artifacts that differ only in what nothing is derived from.
Alike(a, b) ==
    /\ a.baseline = b.baseline /\ a.policy = b.policy /\ a.status.auto = b.status.auto
    /\ "pre" \in a.status.hooks <=> "pre" \in b.status.hooks
    /\ "post" \in a.status.hooks <=> "post" \in b.status.hooks
    /\ IF IsReport(b.report)
       THEN /\ IsReport(a.report) /\ a.report.verdict = b.report.verdict
            /\ a.report.replay = b.report.replay /\ a.report.evidence = b.report.evidence
            /\ a.report.reasons = b.report.reasons
            /\ Supported(b.report) => (a.report.complete <=> b.report.complete)
            /\ a.report.shown["evidence_items"] > 0 <=> b.report.shown["evidence_items"] > 0
       ELSE a.report = b.report

\* The derivations do not tell such artifacts apart.
LEMMA DerivedAlike ==
  ASSUME NEW a, NEW b, Alike(a, b), NEW total
  PROVE  /\ Supported(a.report) <=> Supported(b.report)
         /\ IsComplete(a.report) <=> IsComplete(b.report)
         /\ Posture(a, total) = Posture(b, total) /\ Capabilities(a) = Capabilities(b)
         /\ Actions(a) = Actions(b) /\ Score(a) = Score(b)
         /\ Expected(a.report) = Expected(b.report)
         /\ a.report \in Failures <=> b.report \in Failures
<1>1. IsReport(a.report) <=> IsReport(b.report)
  BY DEF Alike
<1>2. Supported(a.report) <=> Supported(b.report)
  BY <1>1 DEF Alike, Supported
<1>3. Supported(b.report) => (a.report.complete <=> b.report.complete)
  BY DEF Alike, Supported
<1>4. IsComplete(a.report) <=> IsComplete(b.report)
  BY <1>2, <1>3 DEF IsComplete
<1>5. Supported(b.report) => /\ a.report.verdict = b.report.verdict
                             /\ a.report.replay = b.report.replay
                             /\ a.report.evidence = b.report.evidence
                             /\ a.report.reasons = b.report.reasons
                             /\ a.report.shown["evidence_items"] > 0 <=> b.report.shown["evidence_items"] > 0
  BY DEF Alike, Supported
<1>6. /\ a.baseline = b.baseline /\ a.policy = b.policy /\ a.status.auto = b.status.auto
      /\ "pre" \in a.status.hooks <=> "pre" \in b.status.hooks
      /\ "post" \in a.status.hooks <=> "post" \in b.status.hooks
  BY DEF Alike
<1>7. Posture(a, total) = Posture(b, total)
  BY <1>2, <1>5, <1>6 DEF Posture
<1>8. Capabilities(a) = Capabilities(b)
  BY <1>2, <1>3, <1>4, <1>5, <1>6, IsComplete(b.report) => Supported(b.report)
  DEF Capabilities, IsComplete
<1>9. Actions(a) = Actions(b)
  BY <1>2, <1>5, <1>6, <1>8 DEF Actions
<1>10. Score(a) = Score(b)
  BY <1>2, <1>4, <1>5, <1>6 DEF Score, Points
<1>11. Expected(a.report) = Expected(b.report)
  BY <1>1, <1>2 DEF Expected
<1>12. a.report \in Failures <=> b.report \in Failures
  <2>1. ASSUME NEW r, r \in Failures PROVE ~IsReport(r)
    BY <2>1 DEF Failures, ArtifactErrors, IsReport
  <2> QED
    BY <1>1, <2>1 DEF Alike
<1> QED
  BY <1>2, <1>4, <1>7, <1>8, <1>9, <1>10, <1>11, <1>12

LEMMA LesserIs ==
  ASSUME NEW n \in Nat, NEW m \in Nat
  PROVE  Lesser(n, m) \in Nat /\ (m > 0 => (Lesser(n, m) > 0 <=> n > 0))
BY DEF Lesser

LEMMA ReportIs ==
  ASSUME NEW r \in LatestReports
  PROVE  /\ r \in [kind : {"report"}, verdict : Judged \cup {"other"}, complete : BOOLEAN,
                   count : [Lists -> Nat], replay : BOOLEAN, evidence : BOOLEAN, reasons : BOOLEAN]
         /\ IsReport(r) /\ r \notin Failures
<1>1. r \in [kind : {"report"}, verdict : Judged \cup {"other"}, complete : BOOLEAN,
                   count : [Lists -> Nat], replay : BOOLEAN, evidence : BOOLEAN, reasons : BOOLEAN]
  BY CenterAssumption
<1> QED
  BY <1>1 DEF IsReport, Failures, ArtifactErrors

\* What is not a report says why.
LEMMA OtherIs ==
  ASSUME NEW r \in Canonical, r \notin LatestReports
  PROVE  ~IsReport(r) /\ ~Supported(r) /\ r.kind \in ArtifactErrors \cup {"none"}
BY DEF Canonical, Failures, ArtifactErrors, NoArtifact, IsReport, Supported

LEMMA ShowingIs ==
  ASSUME NEW r \in LatestReports, NEW room \in [Lists -> Nat]
  PROVE  LET b == Showing(r, room)
         IN /\ b = [kind |-> "report", verdict |-> r.verdict, complete |-> r.complete,
                    count |-> r.count, replay |-> r.replay, evidence |-> r.evidence,
                    reasons |-> r.reasons,
                    shown |-> [l \in Lists |-> Lesser(r.count[l], room[l])]]
            /\ IsReport(b)
<1>1. r \in [kind : {"report"}, verdict : Judged \cup {"other"}, complete : BOOLEAN,
             count : [Lists -> Nat], replay : BOOLEAN, evidence : BOOLEAN, reasons : BOOLEAN]
  BY ReportIs
<1>2. DOMAIN r = {"kind", "verdict", "complete", "count", "replay", "evidence", "reasons"}
  BY <1>1
<1>3. r.kind = "report"
  BY <1>1
<1>4. Showing(r, room) =
        [kind |-> "report", verdict |-> r.verdict, complete |-> r.complete,
                    count |-> r.count, replay |-> r.replay, evidence |-> r.evidence,
                    reasons |-> r.reasons,
                    shown |-> [l \in Lists |-> Lesser(r.count[l], room[l])]]
  BY <1>2, <1>3 DEF Showing
<1> QED
  BY <1>4 DEF IsReport

\* The artifacts that a snapshot carries, and those it was derived from.
Carried(s) == [baseline |-> s.baseline, policy |-> s.policy, status |-> s.status,
               report |-> BoundedReport(s.report)]
FullView(s) == [Carried(s) EXCEPT !.report = IF IsReport(s.report)
                                             THEN Showing(s.report, s.report.count) ELSE s.report]

LEMMA BuildIs ==
  ASSUME NEW s
  PROVE  Build(s) =
    [state        |-> [report |-> ReportState(s.report), baseline |-> Good(s.baseline),
                       policy |-> s.policy = "PASS",
                       replay |-> IsComplete(s.report) /\ s.report.replay],
     posture      |-> Posture(FullView(s), Counts(s.report)),
     capabilities |-> Capabilities(FullView(s)),
     scores       |-> Score(FullView(s)),
     actions      |-> Actions(FullView(s)),
     message      |-> Message(s.report),
     failed       |-> s.report \in Failures,
     total        |-> Counts(s.report),
     displayed    |-> Displayed(BoundedReport(s.report)),
     artifacts    |-> Carried(s)]
BY Zenon DEF Build, Carried, FullView

LEMMA CompleteIs ==
  ASSUME NEW s
  PROVE  /\ Carried(s).baseline = s.baseline /\ Carried(s).policy = s.policy
         /\ Carried(s).status = s.status /\ Carried(s).report = BoundedReport(s.report)
         /\ FullView(s).baseline = s.baseline /\ FullView(s).policy = s.policy
         /\ FullView(s).status = s.status
         /\ FullView(s).report = IF IsReport(s.report) THEN Showing(s.report, s.report.count)
                                 ELSE s.report
BY DEF Carried, FullView

\* What is cut from a report is not what anything is derived from.
LEMMA CarriedAlike ==
  ASSUME NEW s, AllRead(s)
  PROVE  /\ Alike(FullView(s), Carried(s))
         /\ Supported(Carried(s).report) <=> Supported(s.report)
         /\ IsComplete(FullView(s).report) <=> IsComplete(s.report)
         /\ Supported(FullView(s).report) <=> Supported(s.report)
         /\ Carried(s).report \in Failures <=> s.report \in Failures
         /\ Expected(Carried(s).report) = Expected(s.report)
<1> DEFINE r == s.report
<1>1. CASE r \in LatestReports
  <2> DEFINE most == [l \in Lists |-> Display]
             few == Showing(r, most)
             all == Showing(r, r.count)
  <2>1. r.count \in [Lists -> Nat] /\ most \in [Lists -> Nat] /\ Display > 0 /\ Display \in Nat
    BY <1>1, ReportIs, CenterAssumption
  <2>2. IsReport(r)
    BY <1>1, ReportIs
  <2>3. Carried(s).report = few /\ FullView(s).report = all
    BY <2>2, CompleteIs DEF BoundedReport
  <2>4. /\ IsReport(few) /\ IsReport(all)
        /\ few.verdict = r.verdict /\ all.verdict = r.verdict
        /\ few.complete = r.complete /\ all.complete = r.complete
        /\ few.replay = all.replay /\ few.evidence = all.evidence /\ few.reasons = all.reasons
        /\ few.kind = "report"
        /\ few.shown = [l \in Lists |-> Lesser(r.count[l], most[l])]
        /\ all.shown = [l \in Lists |-> Lesser(r.count[l], r.count[l])]
    <3>1. few = [kind |-> "report", verdict |-> r.verdict, complete |-> r.complete,
                    count |-> r.count, replay |-> r.replay, evidence |-> r.evidence,
                    reasons |-> r.reasons,
                    shown |-> [l \in Lists |-> Lesser(r.count[l], most[l])]] /\ IsReport(few)
      BY <1>1, <2>1, ShowingIs
    <3>2. all = [kind |-> "report", verdict |-> r.verdict, complete |-> r.complete,
                    count |-> r.count, replay |-> r.replay, evidence |-> r.evidence,
                    reasons |-> r.reasons,
                    shown |-> [l \in Lists |-> Lesser(r.count[l], r.count[l])]] /\ IsReport(all)
      BY <1>1, <2>1, ShowingIs
    <3> HIDE DEF few, all, most
    <3> QED
      BY <3>1, <3>2
  <2>5. few.shown["evidence_items"] > 0 <=> all.shown["evidence_items"] > 0
    <3>1. "evidence_items" \in Lists
      BY DEF Lists
    <3>2. few.shown["evidence_items"] = Lesser(r.count["evidence_items"], Display)
      BY <2>4, <3>1
    <3>3. all.shown["evidence_items"] = r.count["evidence_items"]
      BY <2>1, <2>4, <3>1 DEF Lesser
    <3>4. r.count["evidence_items"] \in Nat
      BY <2>1, <3>1
    <3> HIDE DEF few, all
    <3> QED
      BY <2>1, <3>2, <3>3, <3>4, LesserIs
  <2>6. few \notin Failures /\ r \notin Failures
    BY <1>1, <2>4, ReportIs DEF Failures, ArtifactErrors
  <2> HIDE DEF few, all, most
  <2>7. Alike(FullView(s), Carried(s))
    BY <2>3, <2>4, <2>5, CompleteIs DEF Alike
  <2>8. /\ Supported(few) <=> Supported(r)
        /\ Supported(all) <=> Supported(r)
        /\ IsComplete(all) <=> IsComplete(r)
    BY <2>2, <2>4 DEF Supported, IsComplete
  <2>9. Expected(few) = Expected(r)
    BY <2>2, <2>4, <2>8 DEF Expected
  <2> QED
    BY <2>3, <2>6, <2>7, <2>8, <2>9
<1>2. CASE r \notin LatestReports
  <2>1. ~IsReport(r)
    BY <1>2, OtherIs DEF AllRead
  <2>2. Carried(s).report = r /\ FullView(s).report = r
    BY <2>1, CompleteIs DEF BoundedReport
  <2> QED
    BY <2>1, <2>2, CompleteIs DEF Alike
<1> QED
  BY <1>1, <1>2

\* Built and checked against itself.
LEMMA BuiltIsConsistent ==
  ASSUME NEW s, AllRead(s), s.report.kind # "artifact_version_unsupported",
         Supported(s.report) => s.report.complete
  PROVE  Consistent(Build(s))
<1> DEFINE a == Carried(s)
           full == FullView(s)
<1>1. Build(s).artifacts = a /\ Build(s).posture = Posture(full, Counts(s.report))
      /\ Build(s).capabilities = Capabilities(full) /\ Build(s).scores = Score(full)
      /\ Build(s).actions = Actions(full) /\ Build(s).message = Message(s.report)
      /\ Build(s).total = Counts(s.report) /\ Build(s).displayed = Displayed(BoundedReport(s.report))
  BY BuildIs
<1>2. Build(s).failed = (s.report \in Failures)
  BY BuildIs
<1>3. /\ Posture(full, Counts(s.report)) = Posture(a, Counts(s.report))
      /\ Capabilities(full) = Capabilities(a) /\ Actions(full) = Actions(a)
      /\ Score(full) = Score(a)
  BY CarriedAlike, DerivedAlike
<1>4. Supported(a.report) => Displayed(BoundedReport(s.report)) = a.report.shown
  BY CompleteIs DEF Displayed, Supported
<1>5. Message(s.report) = Expected(a.report)
  <2>1. Message(s.report) = Expected(s.report)
    <3>1. CASE s.report \in LatestReports
      BY <3>1, ReportIs DEF Message, Expected, ReportState
    <3>2. CASE s.report \notin LatestReports
      BY <3>2, OtherIs DEF AllRead, Message, Expected, ReportState, ArtifactErrors
    <3> QED
      BY <3>1, <3>2
  <2> QED
    BY <2>1, CarriedAlike
<1>6. (s.report \in Failures) = (a.report \in Failures)
  BY CarriedAlike
<1> HIDE DEF a, full
<1> QED
  BY <1>1, <1>2, <1>3, <1>4, <1>5, <1>6 DEF Consistent

-----------------------------------------------------------------------------
(* CommandCenter: what a reduction takes away *)

\* What a snapshot says apart from its artifacts.
SaysTheSame(s, t) ==
    /\ s.state = t.state /\ s.posture = t.posture /\ s.capabilities = t.capabilities
    /\ s.scores = t.scores /\ s.actions = t.actions /\ s.message = t.message
    /\ s.failed = t.failed /\ s.total = t.total

LEMMA ReducedIs ==
  ASSUME NEW s, AllRead(s)
  PROVE  LET t == Reduced(Build(s))
         IN /\ SaysTheSame(t, Build(s)) /\ t.displayed = Displayed(BoundedReport(s.report))
            /\ DOMAIN t = DOMAIN Build(s)
            /\ t = [x \in DOMAIN t |-> t[x]]
            /\ t.artifacts = [baseline |-> s.baseline, policy |-> s.policy,
                              status |-> [auto |-> s.status.auto,
                                          hooks |-> s.status.hooks \cap {"pre", "post"}],
                              report |-> BoundedReport(s.report)]
<1> DEFINE a == Carried(s)
           built == Build(s)
           narrow == [s.status EXCEPT !.hooks = @ \cap {"pre", "post"}]
<1>1. a = [baseline |-> s.baseline, policy |-> s.policy, status |-> s.status,
           report |-> BoundedReport(s.report)]
  BY DEF Carried
<1>2. narrow = [auto |-> s.status.auto, hooks |-> s.status.hooks \cap {"pre", "post"}]
  BY DEF AllRead, Statuses
<1> HIDE DEF narrow
<1>3. [a EXCEPT !.status = narrow] =
        [baseline |-> s.baseline, policy |-> s.policy, status |-> narrow,
         report |-> BoundedReport(s.report)]
  BY <1>1
<1>4. built.artifacts = a /\ a.status = s.status
      /\ built.displayed = Displayed(BoundedReport(s.report))
  BY BuildIs, CompleteIs
<1>5. /\ built = [x \in DOMAIN built |-> built[x]] /\ "artifacts" \in DOMAIN built
  BY BuildIs
<1> HIDE DEF a, built
<1>6. Reduced(built) = [built EXCEPT !.artifacts = [a EXCEPT !.status = narrow]]
  BY <1>4 DEF Reduced, narrow
<1>7. /\ Reduced(built).artifacts = [a EXCEPT !.status = narrow]
      /\ SaysTheSame(Reduced(built), built) /\ Reduced(built).displayed = built.displayed
      /\ DOMAIN Reduced(built) = DOMAIN built
      /\ Reduced(built) = [x \in DOMAIN Reduced(built) |-> Reduced(built)[x]]
  <2> DEFINE new == [a EXCEPT !.status = narrow]
  <2> HIDE DEF new
  <2>1. Reduced(built) = [built EXCEPT !.artifacts = new]
    BY <1>6 DEF new
  <2>2. Reduced(built).artifacts = new
    BY <1>5, <2>1
  <2>3. SaysTheSame(Reduced(built), built) /\ Reduced(built).displayed = built.displayed
        /\ DOMAIN Reduced(built) = DOMAIN built
    BY <1>5, <2>1 DEF SaysTheSame
  <2>4. Reduced(built) = [x \in DOMAIN Reduced(built) |-> Reduced(built)[x]]
    BY <1>5, <2>1
  <2> QED
    BY <2>2, <2>3, <2>4 DEF new
<1> QED
  BY <1>2, <1>3, <1>4, <1>7 DEF built

\* What is left of the items shown.
Few(displayed) == [l \in Lists |-> IF l = "evidence_items" THEN Lesser(displayed[l], 1) ELSE 0]

LEMMA ReducedReportIs ==
  ASSUME NEW t, NEW s, DOMAIN t = DOMAIN Build(s), t = [x \in DOMAIN t |-> t[x]],
         NEW r, r = [kind |-> "report", verdict |-> r.verdict, complete |-> r.complete,
                     count |-> r.count, replay |-> r.replay, evidence |-> r.evidence,
                     reasons |-> r.reasons, shown |-> r.shown],
         t.artifacts = [baseline |-> t.artifacts.baseline, policy |-> t.artifacts.policy,
                        status |-> t.artifacts.status, report |-> r]
  PROVE  LET u == ReducedReport(t)
         IN /\ SaysTheSame(u, t) /\ u.displayed = Few(t.displayed)
            /\ u.artifacts = [t.artifacts EXCEPT !.report =
                                [r EXCEPT !.shown = Few(t.displayed), !.complete = TRUE]]
<1> DEFINE few == Few(t.displayed)
           lesser == [r EXCEPT !.shown = few, !.complete = TRUE]
           fewer == [t.artifacts EXCEPT !.report = lesser]
           first == [t.artifacts EXCEPT !.report = [r EXCEPT !.shown = few]]
<1>1. t.artifacts.report = r /\ "report" \in DOMAIN t.artifacts
  OBVIOUS
<1>2. IsReport(t.artifacts.report)
  BY <1>1 DEF IsReport
<1>3. ReducedReport(t) = [t EXCEPT !.artifacts.report.shown = few,
                                   !.artifacts.report.complete = TRUE, !.displayed = few]
  BY <1>2 DEF ReducedReport, Few
<1>4. DOMAIN t = {"state", "posture", "capabilities", "scores", "actions", "message", "failed",
                  "total", "displayed", "artifacts"}
  <2>1. DOMAIN Build(s) = {"state", "posture", "capabilities", "scores", "actions", "message",
                           "failed", "total", "displayed", "artifacts"}
    BY BuildIs
  <2> QED
    BY <2>1
<1> HIDE DEF few
<1>5. [t EXCEPT !.artifacts.report.shown = few] = [t EXCEPT !.artifacts = first]
  BY <1>1
<1>6. first.report = [r EXCEPT !.shown = few] /\ "report" \in DOMAIN first
  BY <1>1
<1>7. [first EXCEPT !.report.complete = TRUE] = fewer
  <2>1. [first EXCEPT !.report.complete = TRUE] =
          [first EXCEPT !.report = [[r EXCEPT !.shown = few] EXCEPT !.complete = TRUE]]
    BY <1>6
  <2>2. [[r EXCEPT !.shown = few] EXCEPT !.complete = TRUE] = lesser
    OBVIOUS
  <2>3. \A x, y : [[t.artifacts EXCEPT !.report = x] EXCEPT !.report = y] =
                     [t.artifacts EXCEPT !.report = y]
    OBVIOUS
  <2> HIDE DEF lesser
  <2> QED
    BY <2>1, <2>2, <2>3
<1> HIDE DEF first, fewer
<1>8. ReducedReport(t) = [[t EXCEPT !.artifacts = fewer] EXCEPT !.displayed = few]
  <2>1. ReducedReport(t) = [[[t EXCEPT !.artifacts.report.shown = few] EXCEPT
                               !.artifacts.report.complete = TRUE] EXCEPT !.displayed = few]
    BY <1>3, Zenon
  <2>2. [[t EXCEPT !.artifacts = first] EXCEPT !.artifacts.report.complete = TRUE] =
          [t EXCEPT !.artifacts = [first EXCEPT !.report.complete = TRUE]]
    BY <1>4
  <2> QED
    BY <1>5, <1>7, <2>1, <2>2
<1>9. /\ ReducedReport(t).artifacts = fewer /\ ReducedReport(t).displayed = few
      /\ SaysTheSame(ReducedReport(t), t)
  BY <1>4, <1>8 DEF SaysTheSame
<1> QED
  BY <1>9 DEF few, fewer

\* The status and the report that are left say what is derived from them.
LEMMA SmallerIs ==
  ASSUME NEW s, AllRead(s), NEW n \in 0..4
  PROVE  LET t == Smaller(Build(s), n)
         IN /\ SaysTheSame(t, Build(s))
            /\ IsReport(t.artifacts.report) => t.displayed = t.artifacts.report.shown
            /\ (Supported(s.report) => s.report.complete) => Alike(t.artifacts, Carried(s))
<1> DEFINE built == Build(s)
           half == Reduced(built)
           r == BoundedReport(s.report)
<1>1. SaysTheSame(built, built) /\ Alike(Carried(s), Carried(s))
  BY DEF SaysTheSame, Alike
<1>2. built.artifacts = Carried(s) /\ built.displayed = Displayed(r)
  BY BuildIs
<1>3. IsReport(r) => Displayed(r) = r.shown
  BY DEF Displayed
<1>4. /\ SaysTheSame(half, built) /\ half.displayed = Displayed(r)
      /\ DOMAIN half = DOMAIN built /\ half = [x \in DOMAIN half |-> half[x]]
      /\ half.artifacts = [baseline |-> s.baseline, policy |-> s.policy,
                           status |-> [auto |-> s.status.auto,
                                       hooks |-> s.status.hooks \cap {"pre", "post"}],
                           report |-> r]
  BY ReducedIs
<1>5. /\ Carried(s).baseline = s.baseline /\ Carried(s).policy = s.policy
      /\ Carried(s).status = s.status /\ Carried(s).report = r
  BY CompleteIs
<1> HIDE DEF built, half, r
<1>6. /\ half.artifacts.baseline = s.baseline /\ half.artifacts.policy = s.policy
      /\ half.artifacts.status.auto = s.status.auto /\ half.artifacts.report = r
      /\ half.artifacts.status.hooks = s.status.hooks \cap {"pre", "post"}
  BY <1>4
<1>7. Alike(half.artifacts, Carried(s))
  BY <1>5, <1>6 DEF Alike
<1>8. CASE n <= 1
  BY <1>1, <1>2, <1>3, <1>5, <1>8 DEF Smaller, built
<1>9. CASE n = 2
  <2>1. Smaller(built, n) = half
    BY <1>9 DEF Smaller, half
  <2> QED
    BY <1>3, <1>4, <1>6, <1>7, <2>1 DEF built
<1>10. CASE n > 2
  <2>1. Smaller(built, n) = ReducedReport(half)
    BY <1>10 DEF Smaller, half
  <2>2. CASE s.report \notin LatestReports
    <3>1. ~IsReport(r)
      BY <2>2, OtherIs DEF AllRead, r, BoundedReport
    <3>2. ReducedReport(half) = half
      BY <1>6, <3>1 DEF ReducedReport
    <3> QED
      BY <1>3, <1>4, <1>6, <1>7, <2>1, <3>2 DEF built
  <2>3. CASE s.report \in LatestReports
    <3> DEFINE most == [l \in Lists |-> Display]
               few == Few(half.displayed)
               lesser == [r EXCEPT !.shown = few, !.complete = TRUE]
               u == ReducedReport(half)
    <3>1. /\ IsReport(s.report) /\ most \in [Lists -> Nat] /\ s.report.count \in [Lists -> Nat]
          /\ r = Showing(s.report, most)
      BY <2>3, ReportIs, CenterAssumption DEF r, BoundedReport
    <3>2. /\ r = [kind |-> "report", verdict |-> s.report.verdict, complete |-> s.report.complete,
                  count |-> s.report.count, replay |-> s.report.replay,
                  evidence |-> s.report.evidence, reasons |-> s.report.reasons,
                  shown |-> [l \in Lists |-> Lesser(s.report.count[l], most[l])]]
          /\ IsReport(r)
      BY <2>3, <3>1, ShowingIs
    <3> HIDE DEF most
    <3>3. r = [kind |-> "report", verdict |-> r.verdict, complete |-> r.complete,
               count |-> r.count, replay |-> r.replay, evidence |-> r.evidence,
               reasons |-> r.reasons, shown |-> r.shown]
      BY <3>2
    <3>4. half.artifacts = [baseline |-> half.artifacts.baseline, policy |-> half.artifacts.policy,
                            status |-> half.artifacts.status, report |-> r]
      BY <1>4
    <3>5. SaysTheSame(u, half) /\ u.displayed = few
          /\ u.artifacts = [half.artifacts EXCEPT !.report = lesser]
      BY <1>4, <3>3, <3>4, ReducedReportIs DEF built
    <3> HIDE DEF u
    <3>6. /\ lesser.kind = "report" /\ lesser.verdict = r.verdict /\ lesser.replay = r.replay
          /\ lesser.evidence = r.evidence /\ lesser.reasons = r.reasons
          /\ lesser.complete = TRUE /\ lesser.shown = few
      BY <3>3
    <3> HIDE DEF lesser
    <3>7. /\ u.artifacts.baseline = half.artifacts.baseline
          /\ u.artifacts.policy = half.artifacts.policy
          /\ u.artifacts.status = half.artifacts.status /\ u.artifacts.report = lesser
      BY <3>4, <3>5
    <3>8. lesser.shown["evidence_items"] > 0 <=> r.shown["evidence_items"] > 0
      <4>1. "evidence_items" \in Lists
        BY DEF Lists
      <4>2. half.displayed = r.shown
        BY <1>3, <1>4, <3>2
      <4>3. few["evidence_items"] = Lesser(r.shown["evidence_items"], 1)
        BY <4>1, <4>2 DEF Few
      <4>4. r.shown["evidence_items"] \in Nat
        <5>1. r.shown["evidence_items"] = Lesser(s.report.count["evidence_items"],
                                                 most["evidence_items"])
          BY <3>2, <4>1
        <5> QED
          BY <3>1, <4>1, <5>1, LesserIs
      <4> HIDE DEF few
      <4>5. \A k \in Nat : Lesser(k, 1) > 0 <=> k > 0
        BY DEF Lesser
      <4> QED
        BY <3>6, <4>3, <4>4, <4>5
    <3>9. (Supported(s.report) => s.report.complete) => (Supported(r) => r.complete)
      <4>1. r.verdict = s.report.verdict /\ r.complete = s.report.complete
        BY <3>2
      <4> QED
        BY <3>1, <3>2, <4>1 DEF Supported
    <3>10. (Supported(r) => r.complete) => Alike(u.artifacts, Carried(s))
      BY <1>5, <1>6, <3>2, <3>6, <3>7, <3>8 DEF Alike, IsReport
    <3>11. SaysTheSame(u, built)
      BY <1>4, <3>5 DEF SaysTheSame
    <3>12. u.displayed = u.artifacts.report.shown
      BY <3>5, <3>6, <3>7
    <3> QED
      BY <2>1, <3>9, <3>10, <3>11, <3>12 DEF u, built
  <2> QED
    BY <2>2, <2>3
<1> QED
  BY <1>8, <1>9, <1>10

\* No check misses what a reduction took away.
LEMMA SmallerIsConsistent ==
  ASSUME NEW s, AllRead(s), s.report.kind # "artifact_version_unsupported",
         Supported(s.report) => s.report.complete, NEW n \in 0..4
  PROVE  Consistent(Smaller(Build(s), n))
<1> DEFINE built == Build(s)
           t == Smaller(Build(s), n)
           a == t.artifacts
           c == Carried(s)
<1>1. Consistent(built) /\ built.artifacts = c
  BY BuiltIsConsistent, BuildIs
<1>2. /\ SaysTheSame(t, built) /\ Alike(a, c)
      /\ IsReport(a.report) => t.displayed = a.report.shown
  BY SmallerIs
<1> HIDE DEF t, built, c
<1>3. /\ Posture(a, t.total) = Posture(c, t.total) /\ Capabilities(a) = Capabilities(c)
      /\ Actions(a) = Actions(c) /\ Score(a) = Score(c) /\ Expected(a.report) = Expected(c.report)
  BY <1>2, DerivedAlike
<1>4. (a.report \in Failures) = (c.report \in Failures)
  BY <1>2, DerivedAlike
<1>5. Supported(a.report) => t.displayed = a.report.shown
  BY <1>2 DEF Supported
<1>6. /\ t.posture = built.posture /\ t.capabilities = built.capabilities
      /\ t.actions = built.actions /\ t.scores = built.scores /\ t.message = built.message
      /\ t.failed = built.failed /\ t.total = built.total
  BY <1>2 DEF SaysTheSame
<1>7. /\ built.posture = Posture(c, built.total) /\ built.failed = (c.report \in Failures)
      /\ built.message = Expected(c.report) /\ built.capabilities = Capabilities(c)
      /\ built.actions = Actions(c) /\ built.scores = Score(c)
  BY <1>1 DEF Consistent
<1>8. /\ t.posture = Posture(a, t.total) /\ t.failed = (a.report \in Failures)
      /\ t.message = Expected(a.report) /\ t.capabilities = Capabilities(a)
      /\ t.actions = Actions(a) /\ t.scores = Score(a)
  BY <1>3, <1>4, <1>6, <1>7
<1> HIDE DEF a
<1>9. Consistent(t)
  BY <1>5, <1>8 DEF Consistent, a
<1> QED
  BY <1>9 DEF t

-----------------------------------------------------------------------------
(* CommandCenter: a request *)

\* What was read, and what there is still to read: all of the request's reads.
Progress ==
    /\ \A what \in DOMAIN saw : saw[what] \in Found(what)
    /\ request = "baseline" => DOMAIN saw \subseteq {"baseline"}
                               /\ toRead \in {<<"baseline">>, <<>>}
    /\ request = "policy" => DOMAIN saw \subseteq {"policy"} /\ toRead \in {<<"policy">>, <<>>}
    /\ request \in {"report", "replay-evidence"} =>
         /\ DOMAIN saw \subseteq {"report"}
         /\ toRead = <<"report">> \/ (toRead = <<>> /\ DOMAIN saw = {"report"})
    /\ request = "overrides" =>
         \/ toRead = <<"ledger", "again">> /\ DOMAIN saw = {}
         \/ toRead = <<"again">> /\ DOMAIN saw = {"ledger"}
         \/ toRead = <<>> /\ DOMAIN saw = {"ledger", "again"}
    /\ request = "overview" =>
         \/ toRead = <<"baseline", "policy", "report">> /\ DOMAIN saw = {}
         \/ toRead = <<"policy", "report">> /\ DOMAIN saw = {"baseline"}
         \/ toRead = <<"report">> /\ DOMAIN saw = {"baseline", "policy"}
         \/ toRead = <<>> /\ DOMAIN saw = {"baseline", "policy", "report"}
    /\ request = "snapshot" =>
         \/ toRead = <<"baseline", "policy", "status", "report">> /\ DOMAIN saw = {}
         \/ toRead = <<"policy", "status", "report">> /\ DOMAIN saw = {"baseline"}
         \/ toRead = <<"status", "report">> /\ DOMAIN saw = {"baseline", "policy"}
         \/ toRead = <<"report">> /\ DOMAIN saw = {"baseline", "policy", "status"}
         \/ toRead = <<>> /\ DOMAIN saw = {"baseline", "policy", "status", "report"}

\* What a snapshot that was composed says, and why it is given out or not.
Composed ==
    /\ request = "snapshot" /\ AllRead(saw) /\ excess \in 0..4
    /\ snapshot = Smaller(Build(saw), excess)
    /\ answer \in {"served", "refused"}
    /\ answer = "refused" => \/ excess = 4 \/ ~Consistent(Build(saw))
                             \/ ~Consistent(Smaller(Build(saw), excess))

SectionAnswered ==
    answer = "success" =>
        /\ "report" \in DOMAIN saw => IsReport(saw.report) /\ saw.report.complete
        /\ "again" \in DOMAIN saw =>
             saw.again = NoArtifact \/ (IsReport(saw.again) /\ saw.again.complete)

CenterInv ==
    /\ request \in Sections \cup {"snapshot"} /\ excess \in 0..4
    /\ answer \in Answers \cup {Nothing} /\ Progress /\ SectionAnswered
    /\ (snapshot = Nothing /\ answer # "served") \/ Composed

LEMMA CenterBegins == ASSUME CenterInit PROVE CenterInv
<1>1. /\ request \in Sections \cup {"snapshot"} /\ toRead = Reads(request) /\ DOMAIN saw = {}
      /\ snapshot = Nothing /\ excess = 0 /\ answer = Nothing
  BY DEF CenterInit
<1>2. answer \notin Answers
  BY <1>1, CenterAssumption
<1>3. answer # "served" /\ answer # "success"
  BY <1>2 DEF Answers
<1>4. Progress
  BY <1>1 DEF Progress, Reads, Sections
<1> QED
  BY <1>1, <1>3, <1>4 DEF CenterInv, SectionAnswered

LEMMA ReadArtifactInv == ASSUME CenterInv, ReadArtifact PROVE CenterInv'
<1>1. /\ answer = Nothing /\ toRead # <<>> /\ toRead' = Tail(toRead) /\ request' = request
      /\ snapshot' = snapshot /\ excess' = excess /\ answer' = answer
  BY DEF ReadArtifact
<1>2. PICK value \in Found(Head(toRead)) :
         saw' = [what \in DOMAIN saw \cup {Head(toRead)} |->
                   IF what = Head(toRead) THEN value ELSE saw[what]]
  BY DEF ReadArtifact
<1> DEFINE h == Head(toRead)
<1>3. /\ DOMAIN saw' = DOMAIN saw \cup {h} /\ saw'[h] \in Found(h)
      /\ \A what \in DOMAIN saw : saw'[what] = IF what = h THEN saw'[h] ELSE saw[what]
  BY <1>2
<1>4. \A what \in DOMAIN saw' : saw'[what] \in Found(what)
  BY <1>3 DEF CenterInv, Progress
<1>5. Progress'
  <2>1. request \in Sections \cup {"snapshot"} /\ Progress
    BY DEF CenterInv
  <2>2. request \in {"baseline", "policy", "report", "replay-evidence", "overrides", "overview",
                     "snapshot"}
    BY <2>1 DEF Sections
  <2>3. \A x : Head(<<x>>) = x /\ Tail(<<x>>) = <<>>
    OBVIOUS
  <2>4. \A x, y : Head(<<x, y>>) = x /\ Tail(<<x, y>>) = <<y>>
    OBVIOUS
  <2>5. \A x, y, z : Head(<<x, y, z>>) = x /\ Tail(<<x, y, z>>) = <<y, z>>
    OBVIOUS
  <2>6. \A w, x, y, z : Head(<<w, x, y, z>>) = w /\ Tail(<<w, x, y, z>>) = <<x, y, z>>
    OBVIOUS
  <2>7. \A what \in DOMAIN saw' : saw'[what] \in Found(what)
    BY <1>4
  <2>8. CASE request \in {"baseline", "policy"}
    <3>1. toRead = <<request>> /\ DOMAIN saw \subseteq {request}
      BY <1>1, <2>1, <2>8 DEF Progress
    <3>2. toRead' = <<>> /\ DOMAIN saw' \subseteq {request}
      BY <1>1, <1>3, <2>3, <3>1
    <3> HIDE DEF h
    <3> QED
      BY <1>1, <2>7, <2>8, <3>2 DEF Progress
  <2>9. CASE request \in {"report", "replay-evidence"}
    <3>1. toRead = <<"report">> /\ DOMAIN saw \subseteq {"report"}
      BY <1>1, <2>1, <2>9 DEF Progress
    <3>2. toRead' = <<>> /\ DOMAIN saw' = {"report"}
      BY <1>1, <1>3, <2>3, <3>1
    <3> HIDE DEF h
    <3> QED
      BY <1>1, <2>7, <2>9, <3>2 DEF Progress
  <2>10. CASE request = "overrides"
    <3>1. \/ toRead = <<"ledger", "again">> /\ DOMAIN saw = {}
          \/ toRead = <<"again">> /\ DOMAIN saw = {"ledger"}
      BY <1>1, <2>1, <2>10 DEF Progress
    <3>2. \/ toRead' = <<"again">> /\ DOMAIN saw' = {"ledger"}
          \/ toRead' = <<>> /\ DOMAIN saw' = {"ledger", "again"}
      <4>1. CASE toRead = <<"ledger", "again">> /\ DOMAIN saw = {}
        <5>1. h = "ledger" /\ toRead' = <<"again">>
          BY <1>1, <2>4, <4>1
        <5> HIDE DEF h
        <5> QED
          BY <1>3, <4>1, <5>1
      <4>2. CASE toRead = <<"again">> /\ DOMAIN saw = {"ledger"}
        <5>1. h = "again" /\ toRead' = <<>>
          BY <1>1, <2>3, <4>2
        <5> HIDE DEF h
        <5> QED
          BY <1>3, <4>2, <5>1
      <4> QED
        BY <3>1, <4>1, <4>2
    <3> HIDE DEF h
    <3> QED
      BY <1>1, <2>7, <2>10, <3>2 DEF Progress
  <2>11. CASE request = "overview"
    <3>1. \/ toRead = <<"baseline", "policy", "report">> /\ DOMAIN saw = {}
          \/ toRead = <<"policy", "report">> /\ DOMAIN saw = {"baseline"}
          \/ toRead = <<"report">> /\ DOMAIN saw = {"baseline", "policy"}
      BY <1>1, <2>1, <2>11 DEF Progress
    <3>2. \/ toRead' = <<"policy", "report">> /\ DOMAIN saw' = {"baseline"}
          \/ toRead' = <<"report">> /\ DOMAIN saw' = {"baseline", "policy"}
          \/ toRead' = <<>> /\ DOMAIN saw' = {"baseline", "policy", "report"}
      <4>1. CASE toRead = <<"baseline", "policy", "report">> /\ DOMAIN saw = {}
        <5>1. h = "baseline" /\ toRead' = <<"policy", "report">>
          BY <1>1, <2>5, <4>1
        <5> HIDE DEF h
        <5> QED
          BY <1>3, <4>1, <5>1
      <4>2. CASE toRead = <<"policy", "report">> /\ DOMAIN saw = {"baseline"}
        <5>1. h = "policy" /\ toRead' = <<"report">>
          BY <1>1, <2>4, <4>2
        <5> HIDE DEF h
        <5> QED
          BY <1>3, <4>2, <5>1
      <4>3. CASE toRead = <<"report">> /\ DOMAIN saw = {"baseline", "policy"}
        <5>1. h = "report" /\ toRead' = <<>>
          BY <1>1, <2>3, <4>3
        <5> HIDE DEF h
        <5> QED
          BY <1>3, <4>3, <5>1
      <4> QED
        BY <3>1, <4>1, <4>2, <4>3
    <3> HIDE DEF h
    <3> QED
      BY <1>1, <2>7, <2>11, <3>2 DEF Progress
  <2>12. CASE request = "snapshot"
    <3>1. \/ toRead = <<"baseline", "policy", "status", "report">> /\ DOMAIN saw = {}
          \/ toRead = <<"policy", "status", "report">> /\ DOMAIN saw = {"baseline"}
          \/ toRead = <<"status", "report">> /\ DOMAIN saw = {"baseline", "policy"}
          \/ toRead = <<"report">> /\ DOMAIN saw = {"baseline", "policy", "status"}
      BY <1>1, <2>1, <2>12 DEF Progress
    <3>2. \/ toRead' = <<"policy", "status", "report">> /\ DOMAIN saw' = {"baseline"}
          \/ toRead' = <<"status", "report">> /\ DOMAIN saw' = {"baseline", "policy"}
          \/ toRead' = <<"report">> /\ DOMAIN saw' = {"baseline", "policy", "status"}
          \/ toRead' = <<>> /\ DOMAIN saw' = {"baseline", "policy", "status", "report"}
      <4>1. CASE toRead = <<"baseline", "policy", "status", "report">> /\ DOMAIN saw = {}
        <5>1. h = "baseline" /\ toRead' = <<"policy", "status", "report">>
          BY <1>1, <2>6, <4>1
        <5> HIDE DEF h
        <5> QED
          BY <1>3, <4>1, <5>1
      <4>2. CASE toRead = <<"policy", "status", "report">> /\ DOMAIN saw = {"baseline"}
        <5>1. h = "policy" /\ toRead' = <<"status", "report">>
          BY <1>1, <2>5, <4>2
        <5> HIDE DEF h
        <5> QED
          BY <1>3, <4>2, <5>1
      <4>3. CASE toRead = <<"status", "report">> /\ DOMAIN saw = {"baseline", "policy"}
        <5>1. h = "status" /\ toRead' = <<"report">>
          BY <1>1, <2>4, <4>3
        <5> HIDE DEF h
        <5> QED
          BY <1>3, <4>3, <5>1
      <4>4. CASE toRead = <<"report">> /\ DOMAIN saw = {"baseline", "policy", "status"}
        <5>1. h = "report" /\ toRead' = <<>>
          BY <1>1, <2>3, <4>4
        <5> HIDE DEF h
        <5> QED
          BY <1>3, <4>4, <5>1
      <4> QED
        BY <3>1, <4>1, <4>2, <4>3, <4>4
    <3> HIDE DEF h
    <3> QED
      BY <1>1, <2>7, <2>12, <3>2 DEF Progress
  <2> QED
    BY <2>2, <2>8, <2>9, <2>10, <2>11, <2>12
<1>6. answer \notin Answers
  BY <1>1, CenterAssumption
<1>7. answer # "served" /\ answer # "refused" /\ answer # "success"
  BY <1>6 DEF Answers
<1>8. SectionAnswered'
  BY <1>1, <1>7 DEF SectionAnswered
<1>9. snapshot = Nothing
  BY <1>7 DEF CenterInv, Composed
<1> QED
  BY <1>1, <1>5, <1>7, <1>8, <1>9 DEF CenterInv

LEMMA RaiseInv == ASSUME CenterInv, Raise PROVE CenterInv'
<1>1. /\ answer = Nothing /\ answer' \in {"refused", "error"} /\ request' = request
      /\ toRead' = toRead /\ saw' = saw /\ snapshot' = snapshot /\ excess' = excess
  BY DEF Raise
<1>2. answer \notin Answers
  BY <1>1, CenterAssumption
<1>3. snapshot = Nothing
  BY <1>2 DEF CenterInv, Composed, Answers
<1> QED
  BY <1>1, <1>3 DEF CenterInv, SectionAnswered, Progress, Answers

\* A section that is answered with success was read whole.
LEMMA SectionInv == ASSUME CenterInv, Section PROVE CenterInv'
<1>1. /\ request # "snapshot" /\ answer = Nothing /\ request' = request
      /\ toRead' = toRead /\ saw' = saw /\ snapshot' = snapshot /\ excess' = excess
  BY DEF Section
<1>2. \A r \in Canonical :
        /\ ReportStatus(r) \in Answers \ {"served"}
        /\ ReportStatus(r) = "success" => IsReport(r) /\ r.complete
  <2> TAKE r \in Canonical
  <2>1. CASE r \in LatestReports
    BY <2>1, ReportIs DEF ReportStatus, Answers
  <2>2. CASE r \notin LatestReports
    BY <2>2, OtherIs DEF ReportStatus, Answers, Canonical, NoArtifact, ArtifactErrors, Failures
  <2> QED
    BY <2>1, <2>2
<1>3. /\ "report" \in DOMAIN saw => saw.report \in Canonical
      /\ "again" \in DOMAIN saw => saw.again \in Canonical
  BY DEF CenterInv, Progress, Found
<1>4. Progress' /\ Progress
  BY <1>1 DEF CenterInv, Progress
<1>5. answer' \in Answers \ {"served"} /\ SectionAnswered'
  <2>1. CASE toRead = <<>> /\ request = "baseline" /\ answer' = BaselineStatus(saw.baseline)
    BY <1>1, <1>4, <2>1 DEF Progress, BaselineStatus, Answers, SectionAnswered
  <2>2. CASE /\ toRead = <<>> /\ request = "policy"
             /\ answer' = IF saw.policy = "PASS" THEN "success" ELSE "error"
    BY <1>1, <1>4, <2>2 DEF Progress, Answers, SectionAnswered
  <2>3. CASE /\ toRead = <<>> /\ request \in {"report", "replay-evidence", "overview"}
             /\ answer' = ReportStatus(saw.report)
    <3>1. "report" \in DOMAIN saw /\ "again" \notin DOMAIN saw
      BY <1>4, <2>3 DEF Progress
    <3> QED
      BY <1>1, <1>2, <1>3, <2>3, <3>1 DEF SectionAnswered
  <2>4. CASE /\ toRead = <<>> /\ request = "overrides"
             /\ answer' \in IF saw.again = NoArtifact \/ ReportStatus(saw.again) = "success"
                            THEN {"success", "empty"} ELSE {ReportStatus(saw.again)}
    <3>1. "again" \in DOMAIN saw /\ "report" \notin DOMAIN saw
      BY <1>4, <2>4 DEF Progress
    <3> QED
      BY <1>1, <1>2, <1>3, <2>4, <3>1 DEF SectionAnswered, Answers
  <2>5. CASE answer' = IF saw.ledger = "malformed" THEN "error" ELSE "incomplete"
    BY <2>5 DEF Answers, SectionAnswered
  <2> QED
    BY <2>1, <2>2, <2>3, <2>4, <2>5 DEF Section
<1>6. answer \notin Answers
  BY <1>1, CenterAssumption
<1>7. snapshot = Nothing
  BY <1>6 DEF CenterInv, Composed, Answers
<1> QED
  BY <1>1, <1>4, <1>5, <1>7 DEF CenterInv

LEMMA ComposeInv == ASSUME CenterInv, Compose PROVE CenterInv'
<1>1. /\ request = "snapshot" /\ toRead = <<>> /\ excess' \in 0..4
      /\ request' = request /\ toRead' = toRead /\ saw' = saw
      /\ snapshot' = Smaller(Build(saw), excess')
      /\ answer' = IF /\ Consistent(Build(saw)) /\ Consistent(Smaller(Build(saw), excess'))
                      /\ excess' < 4
                   THEN "served" ELSE "refused"
  BY DEF Compose
<1>2. Progress' /\ Progress
  BY <1>1 DEF CenterInv, Progress
<1>3. AllRead(saw)
  BY <1>1, <1>2 DEF Progress, AllRead, Found
<1>4. answer' \in {"served", "refused"}
  BY <1>1
<1>5. answer' = "refused" => \/ excess' = 4 \/ ~Consistent(Build(saw))
                             \/ ~Consistent(Smaller(Build(saw), excess'))
  BY <1>1
<1>6. Composed'
  <2>1. AllRead(saw') /\ snapshot' = Smaller(Build(saw'), excess')
        /\ (answer' = "refused" => \/ excess' = 4 \/ ~Consistent(Build(saw'))
                                   \/ ~Consistent(Smaller(Build(saw'), excess')))
    BY <1>1, <1>3, <1>5
  <2> QED
    BY <1>1, <1>4, <2>1 DEF Composed
<1>7. SectionAnswered' /\ answer' \in Answers
  BY <1>4 DEF SectionAnswered, Answers
<1> QED
  BY <1>1, <1>2, <1>6, <1>7 DEF CenterInv

LEMMA CenterStep == ASSUME CenterInv, [CenterNext]_centerVars PROVE CenterInv'
<1>1. CASE UNCHANGED centerVars
  <2>1. /\ request' = request /\ toRead' = toRead /\ saw' = saw /\ snapshot' = snapshot
        /\ excess' = excess /\ answer' = answer
    BY <1>1 DEF centerVars
  <2>2. Composed => Composed'
    BY <2>1 DEF Composed, AllRead
  <2> QED
    BY <2>1, <2>2 DEF CenterInv, Progress, SectionAnswered
<1>2. CASE CenterNext
  BY <1>2, ReadArtifactInv, RaiseInv, SectionInv, ComposeInv DEF CenterNext
<1> QED
  BY <1>1, <1>2

\* What a snapshot that is given out says.
LEMMA ServedIsTrue ==
  ASSUME Composed
  PROVE  /\ \A c \in {"review", "evidence", "replay"} :
              snapshot.capabilities[c] = "LIVE" => IsComplete(saw.report)
         /\ snapshot.state.report = ReportState(saw.report)
         /\ Supported(saw.report) =>
              \A l \in Lists \ {"evidence_items"} :
                snapshot.posture.count[l] = saw.report.count[l]
<1> DEFINE full == FullView(saw)
<1>1. /\ snapshot.state = Build(saw).state /\ snapshot.posture = Build(saw).posture
      /\ snapshot.capabilities = Build(saw).capabilities
  BY SmallerIs DEF Composed, SaysTheSame
<1>2. /\ Build(saw).state.report = ReportState(saw.report)
      /\ Build(saw).posture = Posture(full, Counts(saw.report))
      /\ Build(saw).capabilities = Capabilities(full)
  BY BuildIs
<1>3. /\ IsComplete(full.report) <=> IsComplete(saw.report)
      /\ Supported(full.report) <=> Supported(saw.report)
  BY CarriedAlike DEF Composed
<1> HIDE DEF full
<1>4. \A c \in {"review", "evidence", "replay"} :
        Capabilities(full)[c] = "LIVE" => IsComplete(full.report)
  <2>1. Capabilities(full).review = "LIVE" => IsComplete(full.report)
    BY DEF Capabilities
  <2>2. Capabilities(full).evidence = "LIVE" => IsComplete(full.report)
    BY DEF Capabilities
  <2>3. Capabilities(full).replay = "LIVE" => IsComplete(full.report)
    BY DEF Capabilities
  <2> QED
    BY <2>1, <2>2, <2>3
<1>5. Supported(saw.report) =>
        \A l \in Lists \ {"evidence_items"} :
          Posture(full, Counts(saw.report)).count[l] = saw.report.count[l]
  BY <1>3 DEF Posture, Counts, Supported
<1> QED
  BY <1>1, <1>2, <1>3, <1>4, <1>5

\* Whatever a request reads, and in whatever order files change between its
\* reads, what it shows as done is done, and no snapshot is refused for what its
\* own reductions took away.
THEOREM ShownIsTrue == CenterSpec => []CenterIsTrue
<1>1. CenterInit => CenterInv
  BY CenterBegins
<1>2. CenterInv /\ [CenterNext]_centerVars => CenterInv'
  BY CenterStep
<1>3. CenterInv => CenterIsTrue
  <2> SUFFICES ASSUME CenterInv PROVE CenterIsTrue
    OBVIOUS
  <2>1. CenterTypeOK
    BY DEF CenterInv, CenterTypeOK, Progress
  <2>2. answer = "served" => Composed
    BY DEF CenterInv
  <2>3. ASSUME answer = "refused", snapshot # Nothing
        PROVE  \/ excess = 4 \/ saw.report.kind = "artifact_version_unsupported"
               \/ Supported(saw.report) /\ ~saw.report.complete
    <3>1. Composed
      BY <2>3 DEF CenterInv
    <3> QED
      BY <2>3, <3>1, BuiltIsConsistent, SmallerIsConsistent DEF Composed
  <2>4. answer = "success" =>
          /\ "report" \in DOMAIN saw => saw.report.complete
          /\ "again" \in DOMAIN saw => saw.again = NoArtifact \/ saw.again.complete
    BY DEF CenterInv, SectionAnswered
  <2> QED
    BY <2>1, <2>2, <2>3, <2>4, ServedIsTrue DEF CenterIsTrue
<1> QED
  BY <1>1, <1>2, <1>3, PTL DEF CenterSpec

-----------------------------------------------------------------------------
(* PacketFiles *)

OfSources == [Sources -> 0..2]
ManifestIs(m) == m.of # 0 => m.files \in OfSources

\* A receipt is for the three files of one writer.
ReceiptIs(r) == r.of # 0 => DOMAIN r.hashes = Hashed /\ \A a \in Hashed : r.hashes[a].of = r.of

Scan == [folders : SUBSET Folders, todo : SUBSET Sources, entries : 0..EntryLimit,
         read : 0..ReadLimit, complete : BOOLEAN, files : OfSources,
         ignored : SUBSET (Sources \cup Folders), listed : SUBSET Sources, hashes : OfSources,
         there : SUBSET Sources, touched : SUBSET Sources]

PacketTyped ==
    /\ source \in OfSources /\ edits \in 0..MaxEdits /\ made \in 0..MaxPackets
    /\ step \in {"idle", "scan", "clean"} \cup ArtifactNames
    /\ scan \in Scan
    /\ out = [a \in ArtifactNames |-> out[a]] /\ \A a \in ArtifactNames : out[a].of \in 0..made
    /\ ManifestIs(out["manifest"]) /\ ReceiptIs(out["receipt"])

\* What the writer has written so far, before any receipt.
SoFar ==
    /\ step # "idle" => made # 0 /\ out["receipt"].of < made
    /\ step \in {"inventory", "context", "receipt"} => out["manifest"].of = made
    /\ step \in {"context", "receipt"} => out["inventory"].of = made
    /\ step = "receipt" => out["context"].of = made
    /\ step \in ArtifactNames => out["receipt"] = Absent

\* A file that has been there is scanned, or the scanner will come to it.
Covered(s) ==
    \/ scan.files[s] # 0 \/ s \in scan.todo
    \/ {s, FolderOf[s], TopFolder} \cap scan.ignored # {}
    \/ FolderOf[s] \in scan.folders \/ TopFolder \in scan.folders
Scanned ==
    /\ step \in {"clean"} \cup ArtifactNames => scan.complete /\ scan.folders = {} /\ scan.todo = {}
    /\ \A s \in scan.there : source[s] # 0
    /\ scan.complete => \A s \in scan.there : Covered(s)

\* A file that nobody touched since its scan is as it was scanned, and listed so.
AsScanned ==
    /\ step = "idle" => scan = NoScan
    /\ step = "scan" => scan.hashes = Nowhere
    /\ \A s \in Sources : scan.files[s] # 0 /\ s \notin scan.touched =>
          scan.files[s] = source[s] /\ scan.hashes[s] \in {0, scan.files[s]}

\* What a verification has compared was in the repository since it began.
SeenSince ==
    /\ check.stage \in {"idle", "artifacts", "against", "pass", "fail"}
    /\ seen \in [Sources -> SUBSET (0..2)]
    /\ check.stage # "idle" => \A s \in Sources : source[s] \in seen[s]

Holds(r, fields) == r = [x \in fields |-> r[x]]
Checking == check.stage \in {"artifacts", "against", "pass"}

\* A writer that came after the receipt was read leaves traces of its own.
Since ==
    Checking =>
        /\ check.receipt.of \in Nat /\ check.receipt.of <= made
        /\ step # "idle" => check.receipt.of < made
        /\ \A a \in ArtifactNames :
               out[a] = check.found[a] \/ out[a].of = 0 \/ out[a].of > check.receipt.of

MatchedSoFar ==
    Checking =>
        /\ Holds(check, {"stage", "receipt", "found", "ok", "todo", "manifest"})
        /\ check.receipt.of # 0 /\ ReceiptIs(check.receipt)
        /\ check.stage = "pass" => check.ok /\ check.todo = {}
        /\ check.ok => \A a \in Hashed :
              \/ check.stage = "artifacts" /\ a \in check.todo
              \/ check.found[a] = check.receipt.hashes[a]
        /\ check.stage = "artifacts" => check.manifest = Absent
        /\ check.manifest # Absent =>
              /\ check.manifest.files \in OfSources
              /\ check.manifest = check.found["manifest"] \/ check.manifest.of > check.receipt.of

ComparedSoFar ==
    Checking /\ check.manifest # Absent /\ check.ok =>
        \A s \in Sources : s \in check.todo \/ check.manifest.files[s] \in {0} \cup seen[s]

Checked == SeenSince /\ Since /\ MatchedSoFar /\ ComparedSoFar
Packing == PacketTyped /\ SoFar /\ Scanned /\ AsScanned
PacketInv == Packing /\ Checked

LEMMA NamesOfArtifacts ==
  /\ ArtifactNames = {"manifest", "inventory", "context", "receipt"}
  /\ Hashed = {"manifest", "inventory", "context"}
  /\ DOMAIN Artifacts = 1..4 /\ Len(Artifacts) = 4
  /\ Artifacts[1] = "manifest" /\ Artifacts[2] = "inventory" /\ Artifacts[3] = "context"
  /\ Artifacts[4] = "receipt" /\ \A k \in DOMAIN Artifacts : k \in {1, 2, 3, 4}
<1>1. DOMAIN Artifacts = 1..4 /\ Len(Artifacts) = 4
      /\ Artifacts[1] = "manifest" /\ Artifacts[2] = "inventory" /\ Artifacts[3] = "context"
      /\ Artifacts[4] = "receipt"
  BY DEF Artifacts
<1>2. 1..4 = {1, 2, 3, 4}
  OBVIOUS
<1>3. ArtifactNames = {"manifest", "inventory", "context", "receipt"}
  BY <1>1, <1>2 DEF ArtifactNames
<1> QED
  BY <1>1, <1>2, <1>3 DEF Hashed

LEMMA NoPacket ==
  /\ Absent.of = 0 /\ TornFile.of = 0 /\ ReceiptIs(Absent) /\ ReceiptIs(TornFile)
  /\ ManifestIs(Absent) /\ ManifestIs(TornFile)
  /\ NoScan \in Scan /\ NoScan.there = {} /\ NoScan.files = Nowhere /\ NoScan.hashes = Nowhere
  /\ NoCheck.stage = "idle"
<1>1. Nowhere \in OfSources
  BY DEF Nowhere, OfSources
<1> QED
  BY <1>1, PacketAssumption
  DEF Absent, TornFile, ReceiptIs, ManifestIs, NoScan, NoCheck, Scan

LEMMA PacketBegins == ASSUME PacketInit PROVE PacketInv
<1>1. /\ source \in [Sources -> {0, 1}] /\ edits = 0 /\ step = "idle" /\ scan = NoScan
      /\ out = [a \in ArtifactNames |-> Absent] /\ made = 0
      /\ check = NoCheck /\ seen = [s \in Sources |-> {}]
  BY DEF PacketInit
<1>2. (\A a \in ArtifactNames : out[a] = Absent) /\ "manifest" \in ArtifactNames
      /\ "receipt" \in ArtifactNames /\ "idle" \notin ArtifactNames
  BY <1>1, NamesOfArtifacts
<1>3. PacketTyped
  BY <1>1, <1>2, NoPacket, PacketAssumption DEF PacketTyped, OfSources
<1>4. SoFar /\ Scanned /\ AsScanned
  BY <1>1, <1>2, NoPacket DEF SoFar, Scanned, AsScanned, Nowhere
<1>5. Checked
  BY <1>1, NoPacket DEF Checked, SeenSince, Since, MatchedSoFar, ComparedSoFar, Checking
<1> QED
  BY <1>3, <1>4, <1>5 DEF PacketInv, Packing

\* A writer keeps what a verification has; what it writes is its own.
LEMMA WriterKeeps ==
  ASSUME PacketInv, Keep, made' \in Nat, made <= made', step' # "idle" => made' # made \/ step # "idle",
         \A a \in ArtifactNames :
            out'[a] = out[a] \/ out'[a].of = 0 \/ (step # "idle" /\ out'[a].of = made)
  PROVE  source' = source /\ edits' = edits /\ Checked'
<1>1. source' = source /\ edits' = edits /\ check' = check /\ seen' = seen
  BY DEF Keep
<1>2. SeenSince' /\ MatchedSoFar' /\ ComparedSoFar'
  BY <1>1 DEF PacketInv, Checked, SeenSince, MatchedSoFar, ComparedSoFar, Checking, Holds, ReceiptIs
<1>3. Since'
  <2> SUFFICES ASSUME Checking PROVE Since'
    BY <1>1 DEF Since, Checking
  <2>1. /\ check.receipt.of \in Nat /\ check.receipt.of <= made
        /\ step # "idle" => check.receipt.of < made
        /\ \A a \in ArtifactNames :
               out[a] = check.found[a] \/ out[a].of = 0 \/ out[a].of > check.receipt.of
        /\ made \in Nat
    BY PacketAssumption DEF PacketInv, Checked, Since, Packing, PacketTyped
  <2>2. \A a \in ArtifactNames :
           out'[a] = check.found[a] \/ out'[a].of = 0 \/ out'[a].of > check.receipt.of
    <3> TAKE a \in ArtifactNames
    <3>1. CASE out'[a] = out[a]
      BY <2>1, <3>1
    <3>2. CASE out'[a].of = 0
      BY <3>2
    <3>3. CASE step # "idle" /\ out'[a].of = made
      BY <2>1, <3>3
    <3> QED
      BY <3>1, <3>2, <3>3
  <2>3. check.receipt.of <= made' /\ (step' # "idle" => check.receipt.of < made')
    BY <2>1
  <2> QED
    BY <1>1, <2>1, <2>2, <2>3 DEF Since
<1> QED
  BY <1>1, <1>2, <1>3 DEF Checked

\* A writer that ends, whatever it leaves behind.
LEMMA WriterEnds ==
  ASSUME PacketInv, Keep, step' = "idle", scan' = NoScan, made' = made,
         out' = [a \in ArtifactNames |-> out'[a]],
         \A a \in ArtifactNames :
            out'[a] = out[a] \/ out'[a].of = 0 \/ (step # "idle" /\ out'[a].of = made),
         ManifestIs(out'["manifest"]), ReceiptIs(out'["receipt"])
  PROVE  PacketInv'
<1>1. made \in 0..MaxPackets /\ \A a \in ArtifactNames : out[a].of \in 0..made
  BY DEF PacketInv, Packing, PacketTyped
<1>2. source' = source /\ edits' = edits /\ Checked'
  BY <1>1, WriterKeeps, PacketAssumption
<1>3. PacketTyped'
  <2>1. \A a \in ArtifactNames : out'[a].of \in 0..made'
    BY <1>1, PacketAssumption
  <2> QED
    BY <1>1, <1>2, <2>1, NoPacket
    DEF PacketInv, Packing, PacketTyped, ReceiptIs, ManifestIs, OfSources, Scan
<1>4. "idle" \notin ArtifactNames
  BY NamesOfArtifacts
<1>5. SoFar' /\ Scanned' /\ AsScanned'
  BY <1>4, NoPacket DEF SoFar, Scanned, AsScanned, Nowhere
<1> QED
  BY <1>2, <1>3, <1>5 DEF PacketInv, Packing

LEMMA BeginScanInv == ASSUME PacketInv, BeginScan PROVE PacketInv'
<1>1. /\ step = "idle" /\ made < MaxPackets /\ made' = made + 1 /\ step' = "scan" /\ out' = out /\ Keep
  BY DEF BeginScan
<1>2. PICK listed \in BOOLEAN :
        scan' = [NoScan EXCEPT !.folders = {TopFolder}, !.complete = listed,
                               !.there = {s \in Sources : source[s] # 0}]
  BY DEF BeginScan
<1>3. /\ scan' \in Scan /\ scan'.files = Nowhere /\ scan'.hashes = Nowhere
      /\ scan'.folders = {TopFolder} /\ scan'.there = {s \in Sources : source[s] # 0}
  BY <1>2, NoPacket, PacketAssumption DEF Scan
<1>4. /\ made \in 0..MaxPackets /\ \A a \in ArtifactNames : out[a].of \in 0..made
  BY DEF PacketInv, Packing, PacketTyped
<1>5. made' \in 0..MaxPackets /\ made' # 0 /\ made \in Nat /\ made' \in Nat /\ made < made'
  BY <1>1, <1>4, PacketAssumption
<1>6. source' = source /\ edits' = edits /\ Checked'
  BY <1>1, <1>5, WriterKeeps
<1>7. "scan" \notin ArtifactNames /\ "receipt" \in ArtifactNames
  BY NamesOfArtifacts
<1>8. PacketTyped'
  <2>1. \A a \in ArtifactNames : out'[a].of \in 0..made'
    BY <1>1, <1>4, <1>5
  <2> QED
    BY <1>1, <1>3, <1>5, <1>6, <2>1
    DEF PacketInv, Packing, PacketTyped, ReceiptIs, ManifestIs, OfSources, Scan
<1>9. SoFar'
  <2>1. out["receipt"].of \in 0..made
    BY <1>4, <1>7
  <2>2. out'["receipt"].of < made'
    BY <1>1, <1>5, <2>1
  <2> QED
    BY <1>1, <1>5, <1>7, <2>2 DEF SoFar
<1>10. Scanned' /\ AsScanned'
  BY <1>1, <1>3, <1>6, <1>7 DEF Scanned, AsScanned, Covered, Nowhere
<1> QED
  BY <1>6, <1>8, <1>9, <1>10 DEF PacketInv, Packing

\* A step of the scanner, or of the inventory, moves nothing else.
LEMMA ScanMoves ==
  ASSUME PacketInv, Scans, scan' \in Scan
  PROVE  /\ PacketTyped' /\ SoFar' /\ Checked' /\ source' = source /\ step' = step
         /\ source \in OfSources /\ scan \in Scan
<1>1. step' = step /\ out' = out /\ made' = made /\ Keep
  BY DEF Scans
<1>2. made \in Nat
  BY PacketAssumption DEF PacketInv, Packing, PacketTyped
<1>3. source' = source /\ edits' = edits /\ Checked'
  BY <1>1, <1>2, WriterKeeps
<1> QED
  BY <1>1, <1>3 DEF PacketInv, Packing, PacketTyped, SoFar, ReceiptIs, ManifestIs, OfSources, Scan

\* A directory that is listed yields its files and the directories in it; one
\* that is not is ignored, or ends the scan.
LEMMA ListFolderInv == ASSUME PacketInv, NEW d \in Folders, ListFolder(d) PROVE PacketInv'
<1>1. step = "scan" /\ scan.complete /\ scan.todo = {} /\ d \in scan.folders /\ Scans
  BY DEF ListFolder
<1>2. scan \in Scan /\ source \in OfSources /\ scan.hashes = Nowhere
      /\ step \notin {"clean"} \cup ArtifactNames
  BY <1>1, NamesOfArtifacts DEF PacketInv, Packing, PacketTyped, AsScanned
<1>3. \A s \in scan.there : source[s] # 0 /\ Covered(s) /\ s \in Sources /\ FolderOf[s] \in Folders
  BY <1>1, <1>2, PacketAssumption DEF PacketInv, Packing, Scanned, Scan
<1>4. ASSUME scan' \in Scan, scan'.there = scan.there, scan'.touched = scan.touched,
             scan'.files = scan.files, scan'.hashes = scan.hashes,
             scan'.complete => \A s \in scan.there : Covered(s)'
      PROVE  PacketInv'
  <2>1. PacketTyped' /\ SoFar' /\ Checked' /\ source' = source /\ step' = step
    BY <1>1, <1>4, ScanMoves
  <2>2. Scanned' /\ AsScanned'
    BY <1>1, <1>2, <1>3, <1>4, <2>1 DEF PacketInv, Packing, Scanned, AsScanned
  <2> QED
    BY <2>1, <2>2 DEF PacketInv, Packing
<1>5. CASE scan' = [scan EXCEPT !.folders = @ \ {d}, !.ignored = @ \cup {d}]
  <2>1. /\ scan' \in Scan /\ scan'.there = scan.there /\ scan'.touched = scan.touched
        /\ scan'.files = scan.files /\ scan'.hashes = scan.hashes
        /\ scan'.folders = scan.folders \ {d} /\ scan'.ignored = scan.ignored \cup {d}
        /\ scan'.todo = scan.todo
    BY <1>2, <1>5 DEF Scan
  <2> QED
    BY <1>3, <1>4, <2>1 DEF Covered
<1>6. CASE scan' = Limited(scan)
  <2>1. /\ scan' \in Scan /\ scan'.there = scan.there /\ scan'.touched = scan.touched
        /\ scan'.files = scan.files /\ scan'.hashes = scan.hashes /\ scan'.complete = FALSE
    BY <1>2, <1>6 DEF Scan, Limited
  <2> QED
    BY <1>4, <2>1
<1>7. ASSUME Yielded(d) <= EntryLimit, NEW skipped \in SUBSET Below(d),
             scan' = [scan EXCEPT !.folders = (@ \ {d}) \cup (Below(d) \ skipped),
                                  !.todo = Within(d), !.entries = Yielded(d),
                                  !.ignored = @ \cup skipped]
      PROVE  PacketInv'
  <2>1. Within(d) \subseteq Sources /\ Below(d) \subseteq Folders
    BY DEF Within, Below
  <2>2. Yielded(d) \in 0..EntryLimit
    <3>1. IsFiniteSet(Within(d) \cup Below(d))
      BY <2>1, PacketAssumption, FS_Subset, FS_Union
    <3>2. Cardinality(Within(d) \cup Below(d)) \in Nat
      BY <3>1, FS_CardinalityType
    <3>3. scan.entries \in Nat
      BY <1>2, PacketAssumption DEF Scan
    <3> QED
      BY <1>7, <3>2, <3>3, PacketAssumption DEF Yielded
  <2>3. /\ scan' \in Scan /\ scan'.there = scan.there /\ scan'.touched = scan.touched
        /\ scan'.files = scan.files /\ scan'.hashes = scan.hashes
        /\ scan'.folders = (scan.folders \ {d}) \cup (Below(d) \ skipped)
        /\ scan'.ignored = scan.ignored \cup skipped /\ scan'.todo = Within(d)
    <3> HIDE DEF Yielded, Below, Within
    <3> QED
      BY <1>2, <1>7, <2>1, <2>2 DEF Scan
  <2>4. \A s \in scan.there : Covered(s)'
    <3> TAKE s \in scan.there
    <3>1. source[s] # 0 /\ s \in Sources /\ FolderOf[s] \in Folders /\ Covered(s)
      BY <1>3
    <3>2. CASE FolderOf[s] = d
      BY <2>3, <3>1, <3>2 DEF Covered, Within
    <3>3. CASE FolderOf[s] # d /\ d = TopFolder
      <4>1. FolderOf[s] \in Below(d)
        BY <3>1, <3>3 DEF Below
      <4> QED
        BY <2>3, <4>1 DEF Covered
    <3>4. CASE FolderOf[s] # d /\ d # TopFolder
      BY <1>1, <2>3, <3>1, <3>4 DEF Covered
    <3> QED
      BY <3>2, <3>3, <3>4
  <2> QED
    BY <1>4, <2>3, <2>4
<1> QED
  BY <1>5, <1>6, <1>7 DEF ListFolder

\* A file that is scanned is included or ignored; one that is not is to come.
LEMMA ScanFileInv == ASSUME PacketInv, NEW s \in Sources, ScanFile(s) PROVE PacketInv'
<1>1. step = "scan" /\ scan.complete /\ s \in scan.todo /\ Scans
  BY DEF ScanFile
<1>2. scan \in Scan /\ source \in OfSources /\ scan.hashes = Nowhere
      /\ step \notin {"clean"} \cup ArtifactNames
  BY <1>1, NamesOfArtifacts DEF PacketInv, Packing, PacketTyped, AsScanned
<1>3. \A g \in scan.there : source[g] # 0 /\ Covered(g) /\ g \in Sources
  BY <1>1, <1>2 DEF PacketInv, Packing, Scanned, Scan
<1>4. ASSUME scan' \in Scan, scan'.there = scan.there, scan'.hashes = scan.hashes,
             scan'.complete => \A g \in scan.there : Covered(g)',
             \A g \in Sources : scan'.files[g] # 0 /\ g \notin scan'.touched =>
                 scan'.files[g] = source[g]
      PROVE  PacketInv'
  <2>1. PacketTyped' /\ SoFar' /\ Checked' /\ source' = source /\ step' = step
    BY <1>1, <1>4, ScanMoves
  <2>2. Scanned' /\ AsScanned'
    BY <1>1, <1>2, <1>3, <1>4, <2>1 DEF Scanned, AsScanned, Nowhere
  <2> QED
    BY <2>1, <2>2 DEF PacketInv, Packing
<1>5. \A g \in Sources : scan.files[g] # 0 /\ g \notin scan.touched => scan.files[g] = source[g]
  BY DEF PacketInv, Packing, AsScanned
<1>6. CASE scan' = Ignore(s)
  <2>1. /\ scan' \in Scan /\ scan'.there = scan.there /\ scan'.touched = scan.touched
        /\ scan'.files = scan.files /\ scan'.hashes = scan.hashes
        /\ scan'.folders = scan.folders /\ scan'.ignored = scan.ignored \cup {s}
        /\ scan'.todo = scan.todo \ {s}
    BY <1>2, <1>6 DEF Scan, Ignore
  <2> QED
    BY <1>3, <1>4, <1>5, <2>1 DEF Covered
<1>7. CASE scan' = Limited(scan)
  <2>1. /\ scan' \in Scan /\ scan'.there = scan.there /\ scan'.touched = scan.touched
        /\ scan'.files = scan.files /\ scan'.hashes = scan.hashes /\ scan'.complete = FALSE
    BY <1>2, <1>7 DEF Scan, Limited
  <2> QED
    BY <1>4, <1>5, <2>1
<1>8. CASE source[s] # 0 /\ scan.read + source[s] <= ReadLimit /\ scan' = Include(s)
  <2>1. scan.read + source[s] \in 0..ReadLimit /\ source[s] \in 0..2
    BY <1>2, <1>8, PacketAssumption DEF Scan, OfSources
  <2>2. /\ scan' \in Scan /\ scan'.there = scan.there /\ scan'.touched = scan.touched \ {s}
        /\ scan'.files = [scan.files EXCEPT ![s] = source[s]] /\ scan'.hashes = scan.hashes
        /\ scan'.folders = scan.folders /\ scan'.ignored = scan.ignored
        /\ scan'.todo = scan.todo \ {s}
    BY <1>2, <1>8, <2>1 DEF Scan, Include, OfSources
  <2>3. scan'.files[s] = source[s] /\ \A g \in Sources : g # s => scan'.files[g] = scan.files[g]
    BY <1>2, <2>2 DEF Scan, OfSources
  <2>4. \A g \in scan.there : Covered(g)'
    BY <1>3, <1>8, <2>2, <2>3 DEF Covered
  <2>5. \A g \in Sources : scan'.files[g] # 0 /\ g \notin scan'.touched => scan'.files[g] = source[g]
    BY <1>5, <2>2, <2>3
  <2> QED
    BY <1>4, <2>2, <2>4, <2>5
<1> QED
  BY <1>6, <1>7, <1>8 DEF ScanFile

LEMMA ListFileInv == ASSUME PacketInv, NEW s \in Sources, ListFile(s) PROVE PacketInv'
<1>1. step = "inventory" /\ Scans
  BY DEF ListFile
<1>2. PICK h \in {0, source[s]} : scan' = [scan EXCEPT !.listed = @ \cup {s}, !.hashes[s] = h]
  BY DEF ListFile
<1>3. scan \in Scan /\ source \in OfSources /\ h \in 0..2
  BY DEF PacketInv, Packing, PacketTyped, OfSources
<1>4. /\ scan' \in Scan /\ scan'.there = scan.there /\ scan'.touched = scan.touched
      /\ scan'.files = scan.files /\ scan'.folders = scan.folders /\ scan'.todo = scan.todo
      /\ scan'.complete = scan.complete /\ scan'.ignored = scan.ignored
      /\ scan'.hashes[s] = h /\ \A g \in Sources : g # s => scan'.hashes[g] = scan.hashes[g]
  BY <1>2, <1>3 DEF Scan, OfSources
<1>5. PacketTyped' /\ SoFar' /\ Checked' /\ source' = source /\ step' = step
  BY <1>1, <1>4, ScanMoves
<1>6. Scanned'
  BY <1>4, <1>5 DEF PacketInv, Packing, Scanned, Covered
<1>7. AsScanned'
  BY <1>1, <1>4, <1>5 DEF PacketInv, Packing, AsScanned
<1> QED
  BY <1>5, <1>6, <1>7 DEF PacketInv, Packing

\* The steps of a writer that only remove something, or nothing.
LEMMA PreparingInv ==
  ASSUME PacketInv, Refuse \/ Prepare \/ Clean \/ CleanFails \/ Cleaned
  PROVE  PacketInv'
<1>1. {"scan", "clean", "idle"} \cap ArtifactNames = {} /\ "manifest" \in ArtifactNames
      /\ "receipt" \in ArtifactNames
  BY NamesOfArtifacts
<1>2. /\ out = [a \in ArtifactNames |-> out[a]] /\ ReceiptIs(out["receipt"])
      /\ ManifestIs(out["manifest"]) /\ made \in Nat /\ \A a \in ArtifactNames : out[a].of \in 0..made
  BY PacketAssumption DEF PacketInv, Packing, PacketTyped
<1>3. CASE Refuse \/ CleanFails
  <2>1. step' = "idle" /\ scan' = NoScan /\ out' = out /\ made' = made /\ Keep
    BY <1>3 DEF Refuse, CleanFails
  <2> QED
    BY <1>2, <2>1, WriterEnds
<1>4. ASSUME step \in {"scan", "clean"}, step' \in {"clean", "manifest"}, scan' = scan,
             made' = made, Keep, out' = [b \in ArtifactNames |-> out'[b]],
             \A b \in ArtifactNames : out'[b] \in {Absent, out[b]},
             scan.complete /\ scan.folders = {} /\ scan.todo = {},
             step' = "manifest" => out'["receipt"] = Absent
      PROVE  PacketInv'
  <2>1. source' = source /\ edits' = edits /\ Checked'
    BY <1>1, <1>2, <1>4, NoPacket, WriterKeeps
  <2>2. ReceiptIs(out'["receipt"]) /\ ManifestIs(out'["manifest"])
        /\ \A b \in ArtifactNames : out'[b].of \in 0..made
    BY <1>1, <1>2, <1>4, NoPacket
  <2>3. PacketTyped'
    BY <1>1, <1>4, <2>1, <2>2
    DEF PacketInv, Packing, PacketTyped, ReceiptIs, ManifestIs, OfSources, Scan
  <2>4. SoFar'
    <3>1. step # "idle" /\ made # 0 /\ out["receipt"].of < made /\ made' = made
      BY <1>4 DEF PacketInv, Packing, SoFar
    <3>2. out'["receipt"].of < made'
      BY <1>1, <1>2, <1>4, <3>1, NoPacket
    <3> QED
      BY <1>1, <1>4, <3>1, <3>2 DEF SoFar
  <2>5. Scanned' /\ AsScanned'
    BY <1>4, <2>1 DEF PacketInv, Packing, Scanned, AsScanned, Covered
  <2> QED
    BY <2>1, <2>3, <2>4, <2>5 DEF PacketInv, Packing
<1>5. CASE Prepare
  <2>1. /\ step = "scan" /\ scan.complete /\ scan.folders = {} /\ scan.todo = {} /\ step' = "clean"
        /\ scan' = scan /\ out' = out /\ made' = made /\ Keep
    BY <1>5 DEF Prepare
  <2> QED
    BY <1>2, <1>4, <2>1
<1>6. CASE Clean
  <2>1. /\ step = "clean" /\ step' = step /\ scan' = scan /\ made' = made /\ Keep
        /\ \E a : out' = [out EXCEPT ![a] = Absent]
    BY <1>6 DEF Clean
  <2>2. PICK a : out' = [out EXCEPT ![a] = Absent]
    BY <2>1
  <2>3. /\ out' = [b \in ArtifactNames |-> out'[b]]
        /\ \A b \in ArtifactNames : out'[b] \in {Absent, out[b]}
    BY <1>2, <2>2
  <2>4. scan.complete /\ scan.folders = {} /\ scan.todo = {}
    BY <2>1 DEF PacketInv, Packing, Scanned
  <2> QED
    BY <1>4, <2>1, <2>3, <2>4
<1>7. CASE Cleaned
  <2>1. /\ step = "clean" /\ Existing = {} /\ step' = "manifest"
        /\ scan' = scan /\ out' = out /\ made' = made /\ Keep
    BY <1>7 DEF Cleaned
  <2>2. out["receipt"] = Absent
    BY <1>1, <2>1 DEF Existing
  <2>3. scan.complete /\ scan.folders = {} /\ scan.todo = {}
    BY <2>1 DEF PacketInv, Packing, Scanned
  <2> QED
    BY <1>2, <1>4, <2>1, <2>2, <2>3
<1> QED
  BY <1>3, <1>5, <1>6, <1>7

LEMMA WriterDiesInv == ASSUME PacketInv, WriterDies PROVE PacketInv'
<1>1. /\ step' = "idle" /\ scan' = NoScan /\ made' = made /\ Keep
      /\ out' = out \/ out' = [out EXCEPT ![step] = TornFile]
  BY DEF WriterDies
<1>2. /\ out = [a \in ArtifactNames |-> out[a]] /\ ReceiptIs(out["receipt"])
      /\ ManifestIs(out["manifest"])
  BY DEF PacketInv, Packing, PacketTyped
<1>3. /\ out' = [a \in ArtifactNames |-> out'[a]]
      /\ \A a \in ArtifactNames : out'[a] \in {TornFile, out[a]}
  BY <1>1, <1>2
<1>4. "manifest" \in ArtifactNames /\ "receipt" \in ArtifactNames
  BY NamesOfArtifacts
<1>5. ManifestIs(out'["manifest"]) /\ ReceiptIs(out'["receipt"])
  BY <1>2, <1>3, <1>4, NoPacket
<1> QED
  BY <1>1, <1>3, <1>5, NoPacket, WriterEnds

\* The receipt is written when there is nothing but the three files it is for.
LEMMA WriteArtifactInv == ASSUME PacketInv, WriteArtifact PROVE PacketInv'
<1>1. PICK k \in DOMAIN Artifacts :
        /\ step = Artifacts[k]
        /\ out' = [out EXCEPT ![Artifacts[k]] = Content(Artifacts[k])]
        /\ step' = IF k = Len(Artifacts) THEN "idle" ELSE Artifacts[k + 1]
        /\ scan' = IF k = Len(Artifacts) THEN NoScan ELSE scan
        /\ made' = made /\ Keep
  BY DEF WriteArtifact
<1>2. /\ out = [a \in ArtifactNames |-> out[a]] /\ ReceiptIs(out["receipt"])
      /\ ManifestIs(out["manifest"]) /\ scan \in Scan /\ made \in 0..MaxPackets /\ made \in Nat
      /\ \A a \in ArtifactNames : out[a].of \in 0..made
  BY PacketAssumption DEF PacketInv, Packing, PacketTyped
<1>3. /\ ArtifactNames = {"manifest", "inventory", "context", "receipt"}
      /\ Hashed = {"manifest", "inventory", "context"} /\ step \in ArtifactNames /\ step # "idle"
  BY <1>1, NamesOfArtifacts
<1>4. /\ out' = [a \in ArtifactNames |-> out'[a]] /\ out'[step] = Content(step)
      /\ \A a \in ArtifactNames : a # step => out'[a] = out[a]
  BY <1>1, <1>2, <1>3
<1>5. /\ step = "manifest" => step' = "inventory" /\ scan' = scan
      /\ step = "inventory" => step' = "context" /\ scan' = scan
      /\ step = "context" => step' = "receipt" /\ scan' = scan
      /\ step = "receipt" => step' = "idle" /\ scan' = NoScan
  <2>1. CASE k = 1
    BY <1>1, <2>1, NamesOfArtifacts
  <2>2. CASE k = 2
    BY <1>1, <2>2, NamesOfArtifacts
  <2>3. CASE k = 3
    BY <1>1, <2>3, NamesOfArtifacts
  <2>4. CASE k = 4
    BY <1>1, <2>4, NamesOfArtifacts
  <2> QED
    BY <2>1, <2>2, <2>3, <2>4, NamesOfArtifacts
<1>6. made # 0 /\ out["receipt"] = Absent /\ Content(step).of = made
      /\ scan.complete /\ scan.folders = {} /\ scan.todo = {}
  BY <1>3 DEF PacketInv, Packing, SoFar, Scanned, Content
<1>7. CASE step # "receipt"
  <2>1. /\ step' \in {"inventory", "context", "receipt"} /\ scan' = scan
        /\ out'["receipt"] = Absent /\ step' \in ArtifactNames
    BY <1>3, <1>4, <1>5, <1>6, <1>7
  <2>2. ManifestIs(out'["manifest"])
    <3>1. CASE step = "manifest"
      <4>1. out'["manifest"] = [of |-> made, files |-> scan.files]
        BY <1>4, <3>1 DEF Content
      <4> QED
        BY <1>2, <4>1 DEF ManifestIs, Scan
    <3>2. CASE step # "manifest"
      BY <1>2, <1>3, <1>4, <3>2
    <3> QED
      BY <3>1, <3>2
  <2>3. source' = source /\ edits' = edits /\ Checked'
    BY <1>1, <1>2, <1>3, <1>4, <1>6, WriterKeeps
  <2>4. PacketTyped'
    <3>1. \A a \in ArtifactNames : out'[a].of \in 0..made
      BY <1>2, <1>4, <1>6
    <3>2. ReceiptIs(out'["receipt"])
      BY <2>1, NoPacket
    <3> QED
      BY <1>1, <1>2, <1>4, <2>1, <2>2, <2>3, <3>1, <3>2
      DEF PacketInv, Packing, PacketTyped, ReceiptIs, ManifestIs, OfSources, Scan
  <2>5. SoFar'
    BY <1>1, <1>2, <1>3, <1>4, <1>5, <1>6, <1>7, <2>1, NoPacket DEF PacketInv, Packing, SoFar
  <2>6. Scanned' /\ AsScanned'
    BY <1>6, <2>1, <2>3 DEF PacketInv, Packing, Scanned, AsScanned, Covered
  <2> QED
    BY <2>3, <2>4, <2>5, <2>6 DEF PacketInv, Packing
<1>8. CASE step = "receipt"
  <2>1. step' = "idle" /\ scan' = NoScan
    BY <1>5, <1>8
  <2>2. \A a \in Hashed : out[a].of = made /\ out[a] # Absent
    BY <1>3, <1>6, <1>8, NoPacket DEF PacketInv, Packing, SoFar
  <2>3. Existing = Hashed
    BY <1>3, <1>6, <2>2 DEF Existing
  <2>4. out'["receipt"] = [of |-> made, hashes |-> [b \in Existing |-> out[b]]]
    BY <1>4, <1>8 DEF Content
  <2>5. ReceiptIs(out'["receipt"])
    BY <2>2, <2>3, <2>4 DEF ReceiptIs
  <2>6. ManifestIs(out'["manifest"])
    BY <1>2, <1>3, <1>4, <1>8
  <2> QED
    BY <1>1, <1>3, <1>4, <1>6, <2>1, <2>5, <2>6, WriterEnds
<1> QED
  BY <1>7, <1>8

LEMMA WriterInv ==
  ASSUME PacketInv, BeginScan \/ (\E d \in Folders : ListFolder(d)) \/ (\E s \in Sources : ScanFile(s))
                    \/ Refuse \/ Prepare \/ Clean \/ CleanFails \/ Cleaned
                    \/ (\E s \in Sources : ListFile(s)) \/ WriteArtifact \/ WriterDies
  PROVE  PacketInv'
BY BeginScanInv, ListFolderInv, ScanFileInv, PreparingInv, ListFileInv, WriteArtifactInv,
   WriterDiesInv

\* What a verification does is nothing to a writer.
LEMMA CheckerKeeps ==
  ASSUME PacketInv, Checks
  PROVE  Packing' /\ source' = source /\ step' = step /\ out' = out /\ made' = made
BY DEF Checks, PacketInv, Packing, PacketTyped, SoFar, Scanned, AsScanned, Covered, ReceiptIs,
       ManifestIs, OfSources, Scan

\* A verification that has ended has nothing to answer for but its result.
LEMMA CheckStops ==
  ASSUME PacketInv, Checks, check' \in {[stage |-> "fail"], NoCheck},
         seen' \in [Sources -> SUBSET (0..2)],
         check'.stage # "idle" => \A s \in Sources : source[s] \in seen'[s]
  PROVE  PacketInv'
<1>1. check'.stage \in {"fail", "idle"}
  BY NoPacket
<1>2. Packing' /\ source' = source
  BY CheckerKeeps
<1> QED
  BY <1>1, <1>2 DEF PacketInv, Checked, SeenSince, Since, MatchedSoFar, ComparedSoFar, Checking

LEMMA BeginCheckInv == ASSUME PacketInv, BeginCheck PROVE PacketInv'
<1>1. Checks /\ seen' = [s \in Sources |-> {source[s]}] /\ source \in OfSources
  BY DEF BeginCheck, PacketInv, Packing, PacketTyped
<1>2. seen' \in [Sources -> SUBSET (0..2)] /\ \A s \in Sources : source[s] \in seen'[s]
  BY <1>1 DEF OfSources
<1>3. CASE check' = [stage |-> "fail"]
  BY <1>1, <1>2, <1>3, CheckStops
<1>4. CASE check' # [stage |-> "fail"]
  <2>1. /\ out["receipt"].of # 0
        /\ check' = [stage |-> "artifacts", receipt |-> out["receipt"], found |-> out, ok |-> TRUE,
                     todo |-> DOMAIN out["receipt"].hashes, manifest |-> Absent]
    BY <1>4 DEF BeginCheck
  <2>2. Packing' /\ source' = source /\ step' = step /\ out' = out /\ made' = made
    BY <1>1, CheckerKeeps
  <2>3. /\ ReceiptIs(out["receipt"]) /\ out["receipt"].of \in 0..made /\ made \in Nat
        /\ step # "idle" => out["receipt"].of < made
    BY NamesOfArtifacts, PacketAssumption DEF PacketInv, Packing, PacketTyped, SoFar
  <2>4. SeenSince'
    BY <1>2, <2>1, <2>2 DEF SeenSince
  <2>5. Since'
    BY <2>1, <2>2, <2>3 DEF Since
  <2>6. MatchedSoFar'
    BY <2>1, <2>3 DEF MatchedSoFar, Holds, ReceiptIs
  <2>7. ComparedSoFar'
    BY <2>1 DEF ComparedSoFar
  <2> QED
    BY <2>2, <2>4, <2>5, <2>6, <2>7 DEF PacketInv, Checked
<1> QED
  BY <1>3, <1>4

\* A step within a verification: what was found and the receipt stay.
LEMMA CheckMoves ==
  ASSUME PacketInv, Checks, seen' = seen, Checking, Checking',
         check'.receipt = check.receipt, check'.found = check.found
  PROVE  Packing' /\ SeenSince' /\ Since' /\ out' = out /\ source' = source
<1>1. Packing' /\ source' = source /\ step' = step /\ out' = out /\ made' = made
  BY CheckerKeeps
<1>2. SeenSince'
  BY <1>1 DEF PacketInv, Checked, SeenSince, Checking
<1>3. Since'
  BY <1>1 DEF PacketInv, Checked, Since
<1> QED
  BY <1>1, <1>2, <1>3

\* An artifact that matches now was there from the beginning: one that came
\* later is of a later packet.
LEMMA CheckArtifactInv ==
  ASSUME PacketInv, NEW a \in ArtifactNames, CheckArtifact(a) PROVE PacketInv'
<1>1. check.stage = "artifacts" /\ a \in check.todo /\ Checks /\ seen' = seen /\ Checking
  BY DEF CheckArtifact, Checking
<1>2. \/ check' = [stage |-> "fail"]
      \/ check' = [check EXCEPT !.todo = @ \ {a}, !.ok = @ /\ out[a] = check.receipt.hashes[a]]
  BY DEF CheckArtifact
<1>3. /\ Holds(check, {"stage", "receipt", "found", "ok", "todo", "manifest"})
      /\ check.receipt.of # 0 /\ ReceiptIs(check.receipt) /\ check.receipt.of \in Nat
      /\ check.ok => \A b \in Hashed : b \in check.todo \/ check.found[b] = check.receipt.hashes[b]
      /\ check.manifest = Absent
      /\ out[a] = check.found[a] \/ out[a].of = 0 \/ out[a].of > check.receipt.of
  BY <1>1 DEF PacketInv, Checked, MatchedSoFar, Since
<1>4. CASE check' = [stage |-> "fail"]
  BY <1>1, <1>4, CheckStops DEF PacketInv, Checked, SeenSince
<1>5. CASE check' # [stage |-> "fail"]
  <2> DEFINE ok == check.ok /\ out[a] = check.receipt.hashes[a]
  <2>1. check' = [check EXCEPT !.todo = @ \ {a}, !.ok = ok]
    BY <1>2, <1>5
  <2> HIDE DEF ok
  <2>2. /\ Holds(check', {"stage", "receipt", "found", "ok", "todo", "manifest"})
        /\ check'.stage = "artifacts" /\ check'.receipt = check.receipt
        /\ check'.found = check.found /\ check'.manifest = check.manifest
        /\ check'.todo = check.todo \ {a} /\ check'.ok = ok
    BY <1>1, <1>3, <2>1 DEF Holds
  <2>3. Packing' /\ SeenSince' /\ Since'
    BY <1>1, <2>2, CheckMoves DEF Checking
  <2>4. ok => check.ok /\ out[a] = check.receipt.hashes[a]
    BY DEF ok
  <2>5. ok /\ a \in Hashed => check.found[a] = check.receipt.hashes[a]
    <3>1. a \in Hashed => check.receipt.hashes[a].of = check.receipt.of
      BY <1>3 DEF ReceiptIs
    <3> QED
      BY <1>3, <2>4, <3>1
  <2>6. ok => \A b \in Hashed : b \in check'.todo \/ check.found[b] = check.receipt.hashes[b]
    BY <1>3, <2>2, <2>4, <2>5
  <2>7. MatchedSoFar'
    BY <1>3, <2>2, <2>6 DEF MatchedSoFar, Holds, ReceiptIs
  <2>8. ComparedSoFar'
    BY <1>3, <2>2 DEF ComparedSoFar
  <2> QED
    BY <2>3, <2>7, <2>8 DEF PacketInv, Checked
<1> QED
  BY <1>4, <1>5

\* The manifest that is read again is the one that was found, or a later one.
LEMMA BeginAgainstInv == ASSUME PacketInv, BeginAgainst PROVE PacketInv'
<1>1. check.stage = "artifacts" /\ check.todo = {} /\ Checks /\ seen' = seen /\ Checking
  BY DEF BeginAgainst, Checking
<1>2. CASE out["manifest"].of = 0
  <2>1. check' = [stage |-> "fail"]
    BY <1>2 DEF BeginAgainst
  <2> QED
    BY <1>1, <2>1, CheckStops DEF PacketInv, Checked, SeenSince
<1>3. CASE out["manifest"].of # 0
  <2>1. check' = [check EXCEPT !.stage = "against", !.manifest = out["manifest"],
                               !.todo = {s \in Sources : out["manifest"].files[s] # 0}]
    BY <1>3 DEF BeginAgainst
  <2>2. /\ Holds(check, {"stage", "receipt", "found", "ok", "todo", "manifest"})
        /\ check.receipt.of # 0 /\ ReceiptIs(check.receipt)
        /\ check.ok => \A b \in Hashed : check.found[b] = check.receipt.hashes[b]
    BY <1>1 DEF PacketInv, Checked, MatchedSoFar
  <2>3. /\ Holds(check', {"stage", "receipt", "found", "ok", "todo", "manifest"})
        /\ check'.stage = "against" /\ check'.receipt = check.receipt
        /\ check'.found = check.found /\ check'.manifest = out["manifest"]
        /\ check'.todo = {s \in Sources : out["manifest"].files[s] # 0} /\ check'.ok = check.ok
    BY <2>1, <2>2 DEF Holds
  <2>4. Packing' /\ SeenSince' /\ Since'
    BY <1>1, <2>3, CheckMoves DEF Checking
  <2>5. /\ out["manifest"].files \in OfSources
        /\ out["manifest"] = check.found["manifest"] \/ out["manifest"].of > check.receipt.of
    BY <1>1, <1>3, NamesOfArtifacts DEF PacketInv, Packing, PacketTyped, ManifestIs, Checked, Since
  <2>6. MatchedSoFar'
    BY <2>2, <2>3, <2>5 DEF MatchedSoFar, Holds, ReceiptIs
  <2>7. ComparedSoFar'
    BY <2>3 DEF ComparedSoFar
  <2> QED
    BY <2>4, <2>6, <2>7 DEF PacketInv, Checked
<1> QED
  BY <1>2, <1>3

\* The file that is compared is there now, so it was there since the beginning.
LEMMA CheckSourceInv == ASSUME PacketInv, NEW s \in Sources, CheckSource(s) PROVE PacketInv'
<1>1. check.stage = "against" /\ s \in check.todo /\ Checks /\ seen' = seen /\ Checking
  BY DEF CheckSource, Checking
<1>2. CASE source[s] = 0
  <2>1. check' = [stage |-> "fail"]
    BY <1>2 DEF CheckSource
  <2> QED
    BY <1>1, <2>1, CheckStops DEF PacketInv, Checked, SeenSince
<1>3. CASE source[s] # 0
  <2> DEFINE ok == check.ok /\ source[s] = check.manifest.files[s]
  <2>1. check' = [check EXCEPT !.todo = @ \ {s}, !.ok = ok]
    BY <1>3 DEF CheckSource
  <2> HIDE DEF ok
  <2>2. /\ Holds(check, {"stage", "receipt", "found", "ok", "todo", "manifest"})
        /\ check.receipt.of # 0 /\ ReceiptIs(check.receipt)
        /\ check.ok => \A b \in Hashed : check.found[b] = check.receipt.hashes[b]
        /\ check.manifest # Absent =>
              /\ check.manifest.files \in OfSources
              /\ check.manifest = check.found["manifest"] \/ check.manifest.of > check.receipt.of
    BY <1>1 DEF PacketInv, Checked, MatchedSoFar
  <2>3. /\ Holds(check', {"stage", "receipt", "found", "ok", "todo", "manifest"})
        /\ check'.stage = "against" /\ check'.receipt = check.receipt
        /\ check'.found = check.found /\ check'.manifest = check.manifest
        /\ check'.todo = check.todo \ {s} /\ check'.ok = ok
    BY <1>1, <2>1, <2>2 DEF Holds
  <2>4. Packing' /\ SeenSince' /\ Since'
    BY <1>1, <2>3, CheckMoves DEF Checking
  <2>5. ok => check.ok /\ source[s] = check.manifest.files[s]
    BY DEF ok
  <2>6. MatchedSoFar'
    BY <2>2, <2>3, <2>5 DEF MatchedSoFar, Holds, ReceiptIs
  <2>7. ComparedSoFar'
    <3>1. source[s] \in seen[s]
      BY <1>1 DEF PacketInv, Checked, SeenSince
    <3>2. check.manifest # Absent /\ check.ok =>
            \A g \in Sources : g \in check.todo \/ check.manifest.files[g] \in {0} \cup seen[g]
      BY <1>1 DEF PacketInv, Checked, ComparedSoFar
    <3>3. check'.manifest # Absent /\ check'.ok =>
            \A g \in Sources : g \in check'.todo \/ check'.manifest.files[g] \in {0} \cup seen'[g]
      BY <1>1, <2>3, <2>5, <3>1, <3>2
    <3> QED
      BY <3>3 DEF ComparedSoFar
  <2> QED
    BY <2>4, <2>6, <2>7 DEF PacketInv, Checked
<1> QED
  BY <1>2, <1>3

LEMMA EndCheckInv == ASSUME PacketInv, EndCheck \/ CheckFails PROVE PacketInv'
<1>1. check.stage \in {"artifacts", "against"} /\ Checks /\ seen' = seen /\ Checking
  BY DEF EndCheck, CheckFails, Checking
<1>2. CASE check' = [stage |-> "fail"]
  BY <1>1, <1>2, CheckStops DEF PacketInv, Checked, SeenSince
<1>3. CASE check' # [stage |-> "fail"]
  <2>1. check.todo = {} /\ check.ok /\ check' = [check EXCEPT !.stage = "pass"]
    BY <1>3 DEF EndCheck, CheckFails
  <2>2. /\ Holds(check, {"stage", "receipt", "found", "ok", "todo", "manifest"})
        /\ check.receipt.of # 0 /\ ReceiptIs(check.receipt)
        /\ \A b \in Hashed : check.found[b] = check.receipt.hashes[b]
        /\ check.manifest # Absent =>
              /\ check.manifest.files \in OfSources
              /\ check.manifest = check.found["manifest"] \/ check.manifest.of > check.receipt.of
    BY <1>1, <2>1 DEF PacketInv, Checked, MatchedSoFar
  <2>3. /\ Holds(check', {"stage", "receipt", "found", "ok", "todo", "manifest"})
        /\ check'.stage = "pass" /\ check'.receipt = check.receipt
        /\ check'.found = check.found /\ check'.manifest = check.manifest
        /\ check'.todo = check.todo /\ check'.ok = check.ok
    BY <2>1, <2>2 DEF Holds
  <2>4. Packing' /\ SeenSince' /\ Since'
    BY <1>1, <2>3, CheckMoves DEF Checking
  <2>5. MatchedSoFar'
    BY <2>1, <2>2, <2>3 DEF MatchedSoFar, Holds, ReceiptIs
  <2>6. ComparedSoFar'
    BY <1>1, <2>1, <2>3 DEF PacketInv, Checked, ComparedSoFar
  <2> QED
    BY <2>4, <2>5, <2>6 DEF PacketInv, Checked
<1> QED
  BY <1>2, <1>3

\* An edit is seen by the verification, and noted by the scan, it is made under.
LEMMA EditInv ==
  ASSUME PacketInv, NEW s \in Sources, NEW c \in 0..2, Edit(s, c) PROVE PacketInv'
<1>1. /\ edits < MaxEdits /\ edits' = edits + 1 /\ source' = [source EXCEPT ![s] = c]
      /\ seen' = [seen EXCEPT ![s] = IF @ = {} THEN @ ELSE @ \cup {c}]
      /\ step' = step /\ out' = out /\ made' = made /\ check' = check
      /\ scan' = IF step = "idle" THEN scan
                 ELSE [scan EXCEPT !.touched = @ \cup {s}, !.there = IF c = 0 THEN @ \ {s} ELSE @]
  BY DEF Edit
<1>2. /\ source \in OfSources /\ scan \in Scan /\ edits \in 0..MaxEdits
      /\ seen \in [Sources -> SUBSET (0..2)]
  BY DEF PacketInv, Packing, PacketTyped, Checked, SeenSince
<1>3. /\ source' \in OfSources /\ edits' \in 0..MaxEdits
      /\ source'[s] = c /\ \A g \in Sources : g # s => source'[g] = source[g]
  BY <1>1, <1>2, PacketAssumption DEF OfSources
<1>4. /\ seen' \in [Sources -> SUBSET (0..2)] /\ \A g \in Sources : seen[g] \subseteq seen'[g]
      /\ seen[s] # {} => c \in seen'[s]
  BY <1>1, <1>2
<1>5. Checked'
  <2>1. SeenSince'
    <3>1. check.stage # "idle" => \A g \in Sources : source[g] \in seen[g]
      BY DEF PacketInv, Checked, SeenSince
    <3>2. check.stage # "idle" => \A g \in Sources : source'[g] \in seen'[g]
      BY <1>3, <1>4, <3>1
    <3> QED
      BY <1>1, <1>4, <3>2 DEF PacketInv, Checked, SeenSince
  <2>2. Since' /\ MatchedSoFar'
    BY <1>1 DEF PacketInv, Checked, Since, MatchedSoFar, Checking, Holds, ReceiptIs
  <2>3. ComparedSoFar'
    BY <1>1, <1>4 DEF PacketInv, Checked, ComparedSoFar, Checking
  <2> QED
    BY <2>1, <2>2, <2>3 DEF Checked
<1>6. scan' \in Scan /\ Scanned' /\ AsScanned'
  <2>1. CASE step = "idle"
    <3>1. scan' = NoScan /\ step' \notin {"clean", "scan"} \cup ArtifactNames
      BY <1>1, <2>1, NamesOfArtifacts DEF PacketInv, Packing, AsScanned
    <3> QED
      BY <1>1, <3>1, NoPacket DEF Scanned, AsScanned, Nowhere
  <2>2. CASE step # "idle"
    <3> DEFINE left == IF c = 0 THEN scan.there \ {s} ELSE scan.there
    <3>1. scan' = [scan EXCEPT !.touched = scan.touched \cup {s}, !.there = left]
      BY <1>1, <2>2
    <3>2. left \in SUBSET scan.there /\ (c = 0 => s \notin left)
      OBVIOUS
    <3> HIDE DEF left
    <3>3. /\ scan' \in Scan /\ scan'.there = left /\ scan'.touched = scan.touched \cup {s}
          /\ scan'.files = scan.files /\ scan'.hashes = scan.hashes /\ scan'.todo = scan.todo
          /\ scan'.folders = scan.folders /\ scan'.ignored = scan.ignored
          /\ scan'.complete = scan.complete
      BY <1>2, <3>1, <3>2 DEF Scan
    <3>4. \A g \in scan'.there : g \in scan.there /\ g \in Sources /\ source'[g] # 0
      BY <1>2, <1>3, <3>2, <3>3 DEF PacketInv, Packing, Scanned, Scan
    <3>5. Scanned'
      BY <1>1, <3>3, <3>4 DEF PacketInv, Packing, Scanned, Covered
    <3>6. AsScanned'
      BY <1>1, <1>3, <2>2, <3>3 DEF PacketInv, Packing, AsScanned
    <3> QED
      BY <3>3, <3>5, <3>6
  <2> QED
    BY <2>1, <2>2
<1>7. PacketTyped' /\ SoFar'
  BY <1>1, <1>3, <1>6 DEF PacketInv, Packing, PacketTyped, SoFar, ReceiptIs, ManifestIs, OfSources
<1> QED
  BY <1>5, <1>6, <1>7 DEF PacketInv, Packing

LEMMA PacketStep == ASSUME PacketInv, [PacketNext]_packetVars PROVE PacketInv'
<1>1. CASE UNCHANGED packetVars
  <2>1. Checks /\ check' = check /\ seen' = seen
    BY <1>1 DEF packetVars, Checks
  <2>2. Packing' /\ source' = source /\ step' = step /\ out' = out /\ made' = made
    BY <2>1, CheckerKeeps
  <2>3. Checked'
    BY <2>1, <2>2
    DEF PacketInv, Checked, SeenSince, Since, MatchedSoFar, ComparedSoFar, Checking, Holds, ReceiptIs
  <2> QED
    BY <2>2, <2>3 DEF PacketInv
<1>2. CASE CheckAgain
  <2>1. Checks /\ check' = NoCheck /\ seen' = [s \in Sources |-> {}]
    BY <1>2 DEF CheckAgain
  <2>2. seen' \in [Sources -> SUBSET (0..2)] /\ check'.stage = "idle"
    BY <2>1, NoPacket
  <2> QED
    BY <2>1, <2>2, CheckStops
<1>3. CASE PacketNext /\ ~CheckAgain
  BY <1>3, WriterInv, BeginCheckInv, CheckArtifactInv, BeginAgainstInv, CheckSourceInv,
     EndCheckInv, EditInv DEF PacketNext
<1> QED
  BY <1>1, <1>2, <1>3

\* A packet that verifies was finished by one writer and lay whole in its directory
\* when its receipt was read; a manifest that was compared in its place is of a
\* later writer; and what was compared was in the repository.  No limit, no error
\* and no edit leaves a file out silently, or has it listed otherwise than it was
\* packed unless it changed in between: for any files, directories, limits, edits
\* and deaths of writers.
THEOREM PacketIsTrue == PacketSpec => []PacketsAreTrue
<1>1. PacketInit => PacketInv
  BY PacketBegins
<1>2. PacketInv /\ [PacketNext]_packetVars => PacketInv'
  BY PacketStep
<1>3. PacketInv => PacketsAreTrue
  <2> SUFFICES ASSUME PacketInv PROVE PacketsAreTrue
    OBVIOUS
  <2>1. PacketTypeOK
    BY PacketAssumption
    DEF PacketInv, Packing, PacketTyped, Checked, SeenSince, PacketTypeOK, OfSources, Scan
  <2>2. VerifiedIsTrue
    <3> SUFFICES ASSUME check.stage = "pass"
                 PROVE  /\ \A a \in Hashed : /\ check.found[a] = check.receipt.hashes[a]
                                             /\ check.found[a].of = check.receipt.of
                        /\ \/ check.manifest \in {Absent, check.found["manifest"]}
                           \/ check.manifest.of > check.receipt.of
                        /\ check.manifest # Absent =>
                             \A s \in Sources : check.manifest.files[s] \in {0} \cup seen[s]
      BY DEF VerifiedIsTrue
    <3>1. Checking
      BY DEF Checking
    <3> QED
      BY <3>1 DEF PacketInv, Checked, MatchedSoFar, ComparedSoFar, ReceiptIs
  <2>3. ScanIsWhole
    BY NamesOfArtifacts DEF PacketInv, Packing, Scanned, Covered, ScanIsWhole
  <2>4. OnlyFinishedPacketsVerify
    BY NamesOfArtifacts DEF PacketInv, Packing, PacketTyped, ReceiptIs, OnlyFinishedPacketsVerify
  <2>5. InventoryAgrees
    BY DEF PacketInv, Packing, AsScanned, InventoryAgrees
  <2> QED
    BY <2>1, <2>2, <2>3, <2>4, <2>5 DEF PacketsAreTrue
<1> QED
  BY <1>1, <1>2, <1>3, PTL DEF PacketSpec

-----------------------------------------------------------------------------
(* ReportFiles *)

Verdicts == {"PASS", "WARN", "FAIL"}
Levels == Severities \cup {Limit}

Names(list, x) == \E i \in DOMAIN list : list[i] = x

\* A report that is not complete names the limit that it met, whatever was
\* added to it or taken out since.
Honest(r) ==
    /\ r \in [verdict : Verdicts, findings : Seq(Levels), limited : BOOLEAN, complete : BOOLEAN]
    /\ Len(r.findings) <= FindingLimit + 1
    /\ ~r.complete => r.verdict # "PASS" /\ Names(r.findings, Limit)

StagesKnown ==
    /\ stage \in [Reviews -> Outcomes \cup FileNames] /\ rebuilds \in [Reviews -> 0..MaxRebuilds]
    /\ overlap \in BOOLEAN

HandsHonest ==
    /\ DOMAIN report = Reviews
    /\ \A v \in Reviews :
         /\ report[v] = NoReport \/ Honest(report[v])
         /\ stage[v] = "judging" => report[v] # NoReport
         /\ Writing(v) => report[v] # NoReport /\ Coherent(report[v])

FilesHonest ==
    /\ DOMAIN written = FileNames
    /\ \A f \in FileNames : written[f] = NoReport \/ (Honest(written[f]) /\ Coherent(written[f]))

\* As long as nothing overlapped one review writes at a time, and the files it
\* has written so far hold its report.
OneByOne ==
    ~overlap =>
        /\ \A v, w \in Reviews : Writing(v) /\ Writing(w) => v = w
        /\ (\A v \in Reviews : Writing(v) => stage[v] = "latest.json") =>
               \A f \in FileNames : written[f] = written["latest.json"]
        /\ \A v \in Reviews : \A i, j \in DOMAIN ReportOrder :
               stage[v] = ReportOrder[i] /\ j < i => written[ReportOrder[j]] = report[v]

ReportInv == StagesKnown /\ HandsHonest /\ FilesHonest /\ OneByOne
-----------------------------------------------------------------------------
(* The findings of a report *)

LEMMA CountIs ==
  ASSUME NEW s \in Seq(Levels), NEW x
  PROVE  /\ IsFiniteSet({i \in DOMAIN s : s[i] = x}) /\ Count(s, x) \in Nat
         /\ Names(s, x) => Count(s, x) > 0
<1>1. IsFiniteSet(DOMAIN s)
  <2>1. Len(s) \in Nat /\ DOMAIN s = 1..Len(s)
    OBVIOUS
  <2> QED
    BY <2>1, FS_Interval
<1>2. IsFiniteSet({i \in DOMAIN s : s[i] = x})
  BY <1>1, FS_Subset
<1>3. Count(s, x) \in Nat /\ (Count(s, x) = 0 <=> {i \in DOMAIN s : s[i] = x} = {})
  BY <1>2, FS_CardinalityType, FS_EmptySet DEF Count
<1> QED
  BY <1>2, <1>3 DEF Names

LEMMA SortedIs ==
  ASSUME NEW s \in Seq(Levels)
  PROVE  /\ Sorted(s) \in Seq(Levels) /\ Len(Sorted(s)) = Len(s)
         /\ Names(s, Limit) => Names(Sorted(s), Limit)
<1> DEFINE errors == Count(s, "error")
           warnings == Count(s, "warn")
           met == Count(s, Limit)
           Of(x) == {i \in DOMAIN s : s[i] = x}
<1>1. errors \in Nat /\ warnings \in Nat /\ met \in Nat
  BY CountIs
<1>2. Sorted(s) = [i \in DOMAIN s |->
                     IF i <= errors THEN "error" ELSE IF i <= errors + warnings THEN "warn"
                     ELSE IF i <= errors + warnings + met THEN Limit
                     ELSE IF i <= errors + warnings + met + Count(s, "late") THEN "late"
                     ELSE "info"]
  BY DEF Sorted
<1>3. errors + warnings + met <= Len(s)
  <2>1. IsFiniteSet(DOMAIN s) /\ Cardinality(DOMAIN s) = Len(s)
    <3>1. Len(s) \in Nat /\ DOMAIN s = 1..Len(s)
      OBVIOUS
    <3>2. Cardinality(1..Len(s)) = Len(s)
      BY <3>1, FS_Interval
    <3> QED
      BY <3>1, <3>2, FS_Interval
  <2>2. IsFiniteSet(Of("error")) /\ IsFiniteSet(Of("warn")) /\ IsFiniteSet(Of(Limit))
    BY CountIs
  <2>3. /\ Of("error") \cap Of("warn") = {}
        /\ (Of("error") \cup Of("warn")) \cap Of(Limit) = {}
    BY DEF Limit
  <2>4. Cardinality({}) = 0
    BY FS_EmptySet
  <2>5. /\ IsFiniteSet(Of("error") \cup Of("warn"))
        /\ Cardinality(Of("error") \cup Of("warn")) = errors + warnings
    <3>1. /\ IsFiniteSet(Of("error") \cup Of("warn"))
          /\ Cardinality(Of("error") \cup Of("warn")) =
               Cardinality(Of("error")) + Cardinality(Of("warn"))
               - Cardinality(Of("error") \cap Of("warn"))
      BY <2>2, FS_Union
    <3>2. Cardinality(Of("error") \cap Of("warn")) = 0
      BY <2>3, <2>4
    <3>3. Cardinality(Of("error")) = errors /\ Cardinality(Of("warn")) = warnings
      BY DEF Count
    <3> HIDE DEF Of, errors, warnings
    <3> QED
      BY <1>1, <3>1, <3>2, <3>3
  <2>6. Cardinality((Of("error") \cup Of("warn")) \cup Of(Limit)) = errors + warnings + met
    <3>1. Cardinality((Of("error") \cup Of("warn")) \cup Of(Limit)) =
               Cardinality(Of("error") \cup Of("warn")) + Cardinality(Of(Limit))
               - Cardinality((Of("error") \cup Of("warn")) \cap Of(Limit))
      BY <2>2, <2>5, FS_Union
    <3>2. Cardinality((Of("error") \cup Of("warn")) \cap Of(Limit)) = 0
      BY <2>3, <2>4
    <3>3. Cardinality(Of(Limit)) = met
      BY DEF Count
    <3> HIDE DEF Of, errors, warnings, met
    <3> QED
      BY <1>1, <2>5, <3>1, <3>2, <3>3
  <2>7. Cardinality((Of("error") \cup Of("warn")) \cup Of(Limit)) <= Cardinality(DOMAIN s)
    <3>1. (Of("error") \cup Of("warn")) \cup Of(Limit) \subseteq DOMAIN s
      OBVIOUS
    <3> QED
      BY <2>1, <3>1, FS_Subset
  <2> QED
    BY <2>1, <2>6, <2>7
<1>4. ASSUME Names(s, Limit) PROVE Names(Sorted(s), Limit)
  <2>1. met > 0
    BY <1>4, CountIs
  <2> DEFINE here == errors + warnings + 1
  <2>2. here \in DOMAIN s /\ ~(here <= errors) /\ ~(here <= errors + warnings)
        /\ here <= errors + warnings + met
    BY <1>1, <1>3, <2>1
  <2>3. Sorted(s)[here] = Limit /\ here \in DOMAIN Sorted(s)
    BY <1>2, <2>2
  <2> QED
    BY <2>3 DEF Names
<1> HIDE DEF errors, warnings, met
<1>5. Sorted(s) \in Seq(Levels) /\ Len(Sorted(s)) = Len(s)
  <2>1. Sorted(s) \in [1..Len(s) -> Levels]
    BY <1>2 DEF Levels, Severities
  <2> QED
    BY <2>1
<1> QED
  BY <1>4, <1>5

LEMMA VerdictIs ==
  ASSUME NEW s \in Seq(Levels)
  PROVE  VerdictOf(s) \in Verdicts /\ (Names(s, Limit) => VerdictOf(s) # "PASS")
<1>1. Count(s, "warn") \in Nat /\ Count(s, Limit) \in Nat /\ Count(s, "late") \in Nat
      /\ (Names(s, Limit) => Count(s, Limit) > 0)
  BY CountIs
<1> QED
  BY <1>1 DEF VerdictOf, Verdicts

LEMMA ConstructedHonest ==
  ASSUME NEW s \in Seq(Levels)
  PROVE  /\ Honest(Constructed(VerdictOf(s), s))
         /\ Names(s, Limit) => Names(Constructed(VerdictOf(s), s).findings, Limit)
<1> DEFINE judged == VerdictOf(s)
           cut == SubSeq(s, 1, FindingLimit) \o <<Limit>>
<1>1. FindingLimit \in Nat /\ judged \in Verdicts
  BY ReportAssumption, VerdictIs
<1> HIDE DEF judged
<1>2. CASE Len(s) > FindingLimit
  <2>1. /\ cut \in Seq(Levels) /\ Len(cut) = FindingLimit + 1 /\ cut[FindingLimit + 1] = Limit
    BY <1>1, <1>2 DEF Levels
  <2>2. Names(cut, Limit)
    <3> HIDE DEF cut
    <3>1. FindingLimit + 1 \in DOMAIN cut
      BY <1>1, <2>1
    <3> QED
      BY <2>1, <3>1 DEF Names
  <2>3. Constructed(judged, s) =
          [verdict |-> IF judged = "PASS" THEN "WARN" ELSE judged,
           findings |-> Sorted(cut), limited |-> TRUE, complete |-> FALSE]
    BY <1>2 DEF Constructed
  <2>4. /\ Sorted(cut) \in Seq(Levels) /\ Len(Sorted(cut)) = FindingLimit + 1
        /\ Names(Sorted(cut), Limit)
    BY <2>1, <2>2, SortedIs
  <2> HIDE DEF cut
  <2>5. Honest(Constructed(judged, s))
    BY <1>1, <2>3, <2>4 DEF Honest, Verdicts
  <2> QED
    BY <2>3, <2>4, <2>5 DEF judged
<1>3. CASE ~(Len(s) > FindingLimit)
  <2>1. Constructed(judged, s) =
          [verdict |-> judged, findings |-> Sorted(s), limited |-> FALSE, complete |-> TRUE]
    <3>1. (Len(s) > FindingLimit) = FALSE
      BY <1>3
    <3> QED
      BY <3>1, Zenon DEF Constructed
  <2>2. /\ Sorted(s) \in Seq(Levels) /\ Len(Sorted(s)) <= FindingLimit + 1
        /\ Names(s, Limit) => Names(Sorted(s), Limit)
    BY <1>1, <1>3, SortedIs
  <2>3. Honest(Constructed(judged, s))
    BY <1>1, <2>1, <2>2 DEF Honest
  <2> QED
    BY <2>1, <2>2, <2>3 DEF judged
<1> QED
  BY <1>2, <1>3

LEMMA RebuiltHonest ==
  ASSUME NEW s \in Seq(Levels), NEW r, Honest(r), ~r.complete => Names(s, Limit)
  PROVE  Honest(Rebuilt(r, s))
<1> DEFINE new == Constructed(VerdictOf(s), s)
<1>1. Honest(new) /\ (Names(s, Limit) => Names(new.findings, Limit))
  BY ConstructedHonest
<1>2. Names(s, Limit) => new.verdict # "PASS"
  <2>1. new.verdict # "PASS" \/ new.verdict = VerdictOf(s)
    BY DEF Constructed
  <2> QED
    BY <2>1, VerdictIs
<1>3. Rebuilt(r, s) = [new EXCEPT !.complete = new.complete /\ r.complete]
  BY DEF Rebuilt
<1> HIDE DEF new
<1>4. new \in [verdict : Verdicts, findings : Seq(Levels), limited : BOOLEAN, complete : BOOLEAN]
      /\ r.complete \in BOOLEAN
  BY <1>1 DEF Honest
<1>5. CASE r.complete
  <2>1. Rebuilt(r, s) = [new EXCEPT !.complete = new.complete]
    BY <1>3, <1>4, <1>5
  <2>2. Rebuilt(r, s) = new
    BY <1>4, <2>1
  <2> QED
    BY <1>1, <2>2
<1>6. CASE ~r.complete
  <2>1. Rebuilt(r, s) = [new EXCEPT !.complete = FALSE]
    BY <1>3, <1>6
  <2> QED
    BY <1>1, <1>2, <1>4, <1>6, <2>1 DEF Honest
<1> QED
  BY <1>4, <1>5, <1>6
-----------------------------------------------------------------------------
(* The steps of a review *)

LEMMA StepIs ==
  ASSUME NEW v \in Reviews, Writing(v)
  PROVE  /\ Step(v) \in DOMAIN ReportOrder /\ stage[v] = ReportOrder[Step(v)]
         /\ \A i \in DOMAIN ReportOrder : stage[v] = ReportOrder[i] => i = Step(v)
         /\ stage[v] \notin Outcomes
<1>1. \E i \in 1..Len(ReportOrder) : stage[v] = ReportOrder[i]
  BY ReportAssumption DEF Writing, FileNames
<1>2. Step(v) \in 1..Len(ReportOrder) /\ stage[v] = ReportOrder[Step(v)]
  BY <1>1, Zenon DEF Step
<1>3. DOMAIN ReportOrder = 1..Len(ReportOrder)
  BY ReportAssumption
<1> QED
  BY <1>2, <1>3, ReportAssumption DEF Writing

LEMMA IdleDoNotWrite == \A v \in Reviews : stage[v] \in Outcomes => ~Writing(v)
BY ReportAssumption DEF Writing

LEMMA Latest == "latest.json" \in FileNames /\ "latest.json" = ReportOrder[1] /\ 1 \in DOMAIN ReportOrder
BY ReportAssumption DEF FileNames

LEMMA ReportInitInv == ReportInit => ReportInv
<1> SUFFICES ASSUME ReportInit PROVE ReportInv
  OBVIOUS
<1>1. \A v \in Reviews : stage[v] = "idle" /\ ~Writing(v)
  BY IdleDoNotWrite DEF ReportInit, Outcomes
<1>2. StagesKnown
  <2>1. 0 \in 0..MaxRebuilds
    BY ReportAssumption
  <2> QED
    BY <2>1 DEF ReportInit, StagesKnown, Outcomes
<1>3. HandsHonest
  BY <1>1 DEF ReportInit, HandsHonest
<1>4. FilesHonest
  BY DEF ReportInit, FilesHonest
<1>5. \A v \in Reviews, i \in DOMAIN ReportOrder : stage[v] # ReportOrder[i]
  BY <1>1 DEF Writing, FileNames
<1>6. OneByOne
  BY <1>1, <1>5, Latest DEF ReportInit, OneByOne
<1> QED
  BY <1>2, <1>4, <1>6, <1>3 DEF ReportInv

\* A review that does not write, before and after, leaves the files to others.
LEMMA NotWriting ==
  ASSUME ReportInv, NEW v \in Reviews, stage[v] \in Outcomes, NEW s \in Outcomes,
         stage' = [stage EXCEPT ![v] = s], \A w \in Reviews : w # v => report'[w] = report[w],
         UNCHANGED <<written, overlap>>
  PROVE  FilesHonest' /\ OneByOne' /\ \A w \in Reviews : Writing(w)' <=> w # v /\ Writing(w)
<1>1. /\ written' = written /\ overlap' = overlap /\ stage \in [Reviews -> Outcomes \cup FileNames]
      /\ stage'[v] = s /\ \A w \in Reviews : w # v => stage'[w] = stage[w]
  BY DEF ReportInv, StagesKnown
<1>2. FilesHonest'
  BY <1>1 DEF ReportInv, FilesHonest
<1>3. ~Writing(v) /\ s \notin FileNames
  BY IdleDoNotWrite, ReportAssumption
<1>4. \A w \in Reviews : Writing(w)' <=> w # v /\ Writing(w)
  BY <1>1, <1>3 DEF Writing
<1>5. ASSUME ~overlap'
      PROVE  /\ \A u, w \in Reviews : Writing(u)' /\ Writing(w)' => u = w
             /\ (\A w \in Reviews : Writing(w)' => stage'[w] = "latest.json") =>
                   \A f \in FileNames : written'[f] = written'["latest.json"]
             /\ \A w \in Reviews : \A i, j \in DOMAIN ReportOrder :
                   stage'[w] = ReportOrder[i] /\ j < i => written'[ReportOrder[j]] = report'[w]
  <2>1. OneByOne /\ ~overlap
    BY <1>1, <1>5 DEF ReportInv
  <2>2. \A u, w \in Reviews : Writing(u)' /\ Writing(w)' => u = w
    BY <1>4, <2>1 DEF OneByOne
  <2>3. (\A w \in Reviews : Writing(w)' => stage'[w] = "latest.json") =>
                   \A f \in FileNames : written'[f] = written'["latest.json"]
    BY <1>1, <1>3, <1>4, <2>1 DEF OneByOne
  <2>4. ASSUME NEW w \in Reviews, NEW i \in DOMAIN ReportOrder, NEW j \in DOMAIN ReportOrder,
               stage'[w] = ReportOrder[i], j < i
        PROVE  written'[ReportOrder[j]] = report'[w]
    <3>1. w # v
      BY <1>1, <1>3, <2>4 DEF FileNames
    <3> QED
      BY <1>1, <2>1, <2>4, <3>1 DEF OneByOne
  <2> QED
    BY <2>2, <2>3, <2>4
<1>6. OneByOne'
  BY <1>5 DEF OneByOne
<1> QED
  BY <1>2, <1>4, <1>6

LEMMA ConstructInv ==
  ASSUME ReportInv, NEW v \in Reviews, NEW list \in Seq(Levels), Construct(v, list)
  PROVE  ReportInv'
<1> DEFINE new == Constructed(VerdictOf(list), list)
<1>1. Honest(new)
  BY ConstructedHonest
<1>2. new # NoReport
  BY <1>1 DEF Honest, NoReport, Verdicts
<1> HIDE DEF new
<1>3. /\ stage[v] = "idle" /\ stage' = [stage EXCEPT ![v] = "judging"]
      /\ report' = [report EXCEPT ![v] = new] /\ rebuilds' = [rebuilds EXCEPT ![v] = 0]
      /\ written' = written /\ overlap' = overlap
  BY DEF Construct, new
<1>4. FilesHonest' /\ OneByOne' /\ \A w \in Reviews : Writing(w)' <=> w # v /\ Writing(w)
  <2>1. \A w \in Reviews : w # v => report'[w] = report[w]
    BY <1>3 DEF ReportInv, HandsHonest
  <2> QED
    BY <1>3, <2>1, NotWriting DEF Outcomes
<1>5. StagesKnown'
  BY <1>3, ReportAssumption DEF ReportInv, StagesKnown, Outcomes
<1>6. HandsHonest'
  BY <1>1, <1>2, <1>3, <1>4 DEF ReportInv, StagesKnown, HandsHonest
<1> QED
  BY <1>4, <1>5, <1>6 DEF ReportInv

LEMMA RebuildInv ==
  ASSUME ReportInv, NEW v \in Reviews, NEW s \in Seq(Levels), Rebuild(v, s),
         ~report[v].complete => Names(s, Limit)
  PROVE  ReportInv'
<1> DEFINE new == Rebuilt(report[v], s)
<1>1. stage[v] = "judging" /\ Honest(report[v])
  BY DEF Rebuild, ReportInv, HandsHonest
<1>2. Honest(new)
  BY <1>1, RebuiltHonest
<1>3. new # NoReport
  BY <1>2 DEF Honest, NoReport, Verdicts
<1> HIDE DEF new
<1>4. rebuilds[v] < MaxRebuilds /\ rebuilds' = [rebuilds EXCEPT ![v] = rebuilds[v] + 1]
      /\ written' = written /\ overlap' = overlap
  BY DEF Rebuild
<1>5. \/ stage' = [stage EXCEPT ![v] = "raised"] /\ report' = [report EXCEPT ![v] = NoReport]
      \/ stage' = stage /\ report' = [report EXCEPT ![v] = new]
  BY DEF Rebuild, new
<1>6. \E t \in Outcomes : stage' = [stage EXCEPT ![v] = t] /\ (t = "raised" \/ t = "judging")
  <2>1. stage = [stage EXCEPT ![v] = "judging"]
    BY <1>1 DEF ReportInv, StagesKnown
  <2> QED
    BY <1>5, <2>1 DEF Outcomes
<1>7. FilesHonest' /\ OneByOne' /\ \A w \in Reviews : Writing(w)' <=> w # v /\ Writing(w)
  <2>1. \A w \in Reviews : w # v => report'[w] = report[w]
    BY <1>5 DEF ReportInv, HandsHonest
  <2>2. stage[v] \in Outcomes
    BY <1>1 DEF Outcomes
  <2> QED
    BY <1>4, <1>6, <2>1, <2>2, NotWriting
<1>8. StagesKnown'
  <2>1. rebuilds' \in [Reviews -> 0..MaxRebuilds]
    <3>1. rebuilds[v] + 1 \in 0..MaxRebuilds
      BY <1>4, ReportAssumption DEF ReportInv, StagesKnown
    <3> QED
      BY <1>4, <3>1 DEF ReportInv, StagesKnown
  <2> QED
    BY <1>4, <1>6, <2>1 DEF ReportInv, StagesKnown
<1>9. HandsHonest'
  <2>1. CASE stage' = stage /\ report' = [report EXCEPT ![v] = new]
    BY <1>2, <1>3, <1>7, <2>1 DEF ReportInv, StagesKnown, HandsHonest
  <2>2. CASE stage' = [stage EXCEPT ![v] = "raised"] /\ report' = [report EXCEPT ![v] = NoReport]
    BY <1>7, <2>2 DEF ReportInv, StagesKnown, HandsHonest
  <2> QED
    BY <1>5, <2>1, <2>2
<1> QED
  BY <1>7, <1>8, <1>9 DEF ReportInv

LEMMA AddInv ==
  ASSUME ReportInv, NEW v \in Reviews, NEW f \in Severities, Add(v, f)
  PROVE  ReportInv'
<1> DEFINE old == report[v].findings
<1>1. Honest(report[v])
  BY DEF Add, Rebuild, ReportInv, HandsHonest
<1>2. old \in Seq(Levels) /\ (~report[v].complete => Names(old, Limit))
  BY <1>1 DEF Honest
<1> HIDE DEF old
<1>3. Append(old, f) \in Seq(Levels) /\ (Names(old, Limit) => Names(Append(old, f), Limit))
  BY <1>2 DEF Levels, Names
<1>4. Rebuild(v, Append(old, f))
  BY DEF Add, old
<1> QED
  BY <1>2, <1>3, <1>4, RebuildInv

LEMMA SuppressInv ==
  ASSUME ReportInv, NEW v \in Reviews, NEW i \in Nat, Suppress(v, i)
  PROVE  ReportInv'
<1> DEFINE old == report[v].findings
           rest == SubSeq(old, 1, i - 1) \o SubSeq(old, i + 1, Len(old))
<1>1. Honest(report[v])
  BY DEF Suppress, ReportInv, HandsHonest
<1>2. old \in Seq(Levels) /\ (~report[v].complete => Names(old, Limit))
  BY <1>1 DEF Honest
<1>3. i \in DOMAIN old /\ old[i] # Limit /\ Rebuild(v, rest)
  BY DEF Suppress
<1> HIDE DEF old
<1>4. rest \in Seq(Levels) /\ Len(rest) = Len(old) - 1
      /\ (\A k \in 1..i - 1 : rest[k] = old[k])
      /\ \A k \in i..Len(old) - 1 : rest[k] = old[k + 1]
  <2> DEFINE first == SubSeq(old, 1, i - 1)
             last == SubSeq(old, i + 1, Len(old))
  <2>1. i \in 1..Len(old) /\ Len(old) \in Nat
    BY <1>2, <1>3
  <2>2. first \in Seq(Levels) /\ Len(first) = i - 1 /\ \A k \in 1..i - 1 : first[k] = old[k]
    BY <1>2, <2>1
  <2>3. /\ last \in Seq(Levels) /\ Len(last) = Len(old) - i
        /\ \A k \in 1..Len(old) - i : last[k] = old[i + k]
    BY <1>2, <2>1
  <2>4. rest = first \o last
    OBVIOUS
  <2> HIDE DEF first, last, rest
  <2>5. rest \in Seq(Levels) /\ Len(rest) = Len(old) - 1
    BY <2>1, <2>2, <2>3, <2>4
  <2>6. \A k \in 1..i - 1 : rest[k] = old[k]
    BY <2>1, <2>2, <2>3, <2>4
  <2>7. ASSUME NEW k \in i..Len(old) - 1 PROVE rest[k] = old[k + 1]
    <3>1. k - (i - 1) \in 1..Len(old) - i /\ i + (k - (i - 1)) = k + 1
      BY <2>1
    <3>2. rest[k] = last[k - (i - 1)]
      BY <2>1, <2>2, <2>3, <2>4
    <3> QED
      BY <2>3, <3>1, <3>2
  <2> QED
    BY <2>5, <2>6, <2>7
<1> HIDE DEF rest
<1>5. ASSUME Names(old, Limit) PROVE Names(rest, Limit)
  <2>1. PICK k \in DOMAIN old : old[k] = Limit
    BY <1>5 DEF Names
  <2>2. k \in 1..Len(old) /\ k # i
    BY <1>2, <1>3, <2>1
  <2>3. DOMAIN rest = 1..Len(old) - 1
    BY <1>4
  <2>4. CASE k < i
    <3>1. k \in 1..i - 1 /\ k \in 1..Len(old) - 1
      BY <1>2, <1>3, <2>2, <2>4
    <3>2. rest[k] = Limit /\ k \in DOMAIN rest
      BY <1>4, <2>1, <2>3, <3>1
    <3> QED
      BY <3>2 DEF Names
  <2>5. CASE k > i
    <3>1. k - 1 \in i..Len(old) - 1 /\ k - 1 \in 1..Len(old) - 1 /\ k - 1 + 1 = k
      BY <1>2, <1>3, <2>2, <2>5
    <3>2. rest[k - 1] = Limit /\ k - 1 \in DOMAIN rest
      BY <1>4, <2>1, <2>3, <3>1
    <3> QED
      BY <3>2 DEF Names
  <2> QED
    BY <2>2, <2>4, <2>5
<1> QED
  BY <1>2, <1>3, <1>4, <1>5, RebuildInv

LEMMA WriteInv == ASSUME ReportInv, NEW v \in Reviews, Write(v) PROVE ReportInv'
<1>1. /\ stage[v] = "judging" /\ written' = written /\ rebuilds' = rebuilds
      /\ Honest(report[v]) /\ ~Writing(v)
  BY IdleDoNotWrite DEF Write, ReportInv, HandsHonest, Outcomes
<1>2. CASE ~Coherent(report[v])
  <2>1. /\ stage' = [stage EXCEPT ![v] = "failed"] /\ report' = [report EXCEPT ![v] = NoReport]
        /\ overlap' = overlap
    BY <1>2 DEF Write, ReportInv, StagesKnown
  <2>2. FilesHonest' /\ OneByOne' /\ \A w \in Reviews : Writing(w)' <=> w # v /\ Writing(w)
    <3>1. \A w \in Reviews : w # v => report'[w] = report[w]
      BY <2>1 DEF ReportInv, HandsHonest
    <3> QED
      BY <1>1, <2>1, <3>1, NotWriting DEF Outcomes
  <2>3. StagesKnown'
    BY <1>1, <2>1 DEF ReportInv, StagesKnown, Outcomes
  <2>4. HandsHonest'
    BY <2>1, <2>2 DEF ReportInv, StagesKnown, HandsHonest
  <2> QED
    BY <2>2, <2>3, <2>4 DEF ReportInv
<1>3. CASE Coherent(report[v])
  <2>1. /\ stage' = [stage EXCEPT ![v] = "latest.json"] /\ report' = report
        /\ overlap' = (overlap \/ \E w \in Reviews : Writing(w))
    BY <1>3 DEF Write
  <2>2. /\ stage'[v] = "latest.json" /\ \A w \in Reviews : w # v => stage'[w] = stage[w]
        /\ stage' \in [Reviews -> Outcomes \cup FileNames]
    BY <2>1, Latest DEF ReportInv, StagesKnown
  <2>3. \A w \in Reviews : Writing(w)' <=> w = v \/ Writing(w)
    BY <2>2, Latest DEF Writing
  <2>4. StagesKnown'
    BY <1>1, <2>1, <2>2 DEF ReportInv, StagesKnown
  <2>5. HandsHonest'
    <3>1. \A w \in Reviews : stage'[w] = "judging" => stage[w] = "judging"
      BY <1>1, <2>2
    <3>2. \A w \in Reviews : Coherent(report'[w]) <=> Coherent(report[w])
      BY <2>1
    <3> QED
      BY <1>1, <1>3, <2>1, <2>3, <3>1, <3>2 DEF ReportInv, HandsHonest
  <2>6. FilesHonest'
    BY <1>1 DEF ReportInv, FilesHonest
  <2>7. ASSUME ~overlap'
        PROVE  /\ \A u, w \in Reviews : Writing(u)' /\ Writing(w)' => u = w
               /\ (\A w \in Reviews : Writing(w)' => stage'[w] = "latest.json") =>
                     \A f \in FileNames : written'[f] = written'["latest.json"]
               /\ \A w \in Reviews : \A i, j \in DOMAIN ReportOrder :
                     stage'[w] = ReportOrder[i] /\ j < i => written'[ReportOrder[j]] = report'[w]
    <3>1. OneByOne /\ ~overlap /\ \A w \in Reviews : ~Writing(w)
      BY <2>1, <2>7 DEF ReportInv
    <3>2. \A f \in FileNames : written[f] = written["latest.json"]
      BY <3>1 DEF OneByOne
    <3>3. ASSUME NEW w \in Reviews, NEW i \in DOMAIN ReportOrder, NEW j \in DOMAIN ReportOrder,
                 stage'[w] = ReportOrder[i], j < i
          PROVE  FALSE
      <4>1. w = v
        BY <2>2, <3>1, <3>3 DEF Writing, FileNames
      <4>2. i = 1
        BY <2>2, <3>3, <4>1, Latest, ReportAssumption
      <4> QED
        BY <3>3, <4>2, ReportAssumption
    <3> QED
      BY <1>1, <2>3, <3>1, <3>2, <3>3
  <2>8. OneByOne'
    BY <2>7 DEF OneByOne
  <2> QED
    BY <2>4, <2>5, <2>6, <2>8 DEF ReportInv
<1> QED
  BY <1>2, <1>3

LEMMA WriteFileInv == ASSUME ReportInv, NEW v \in Reviews, WriteFile(v) PROVE ReportInv'
<1> DEFINE i == Step(v)
<1>1. /\ i \in DOMAIN ReportOrder /\ stage[v] = ReportOrder[i] /\ i \in 1..Len(ReportOrder)
      /\ Writing(v) /\ Honest(report[v]) /\ Coherent(report[v]) /\ rebuilds' = rebuilds
  <2>1. Writing(v) /\ rebuilds' = rebuilds
    BY DEF WriteFile
  <2>2. i \in DOMAIN ReportOrder /\ stage[v] = ReportOrder[i]
    BY <2>1, StepIs
  <2>3. i \in 1..Len(ReportOrder)
    BY <2>2, ReportAssumption
  <2> QED
    BY <2>1, <2>2, <2>3 DEF ReportInv, HandsHonest
<1>2. /\ \/ written' = [written EXCEPT ![ReportOrder[i]] = report[v]] /\ overlap' = overlap
         \/ i > 1 /\ written' = written /\ overlap' = TRUE
      /\ stage' = [stage EXCEPT ![v] = IF i = Len(ReportOrder) THEN "done" ELSE ReportOrder[i + 1]]
      /\ report' = IF i = Len(ReportOrder) THEN [report EXCEPT ![v] = NoReport] ELSE report
  BY DEF WriteFile
<1> HIDE DEF i
<1>3. ReportOrder[i] \in FileNames
  BY <1>1 DEF FileNames
<1>4. i # Len(ReportOrder) => i + 1 \in DOMAIN ReportOrder /\ ReportOrder[i + 1] \in FileNames
  BY <1>1, ReportAssumption DEF FileNames
<1>5. /\ stage'[v] = (IF i = Len(ReportOrder) THEN "done" ELSE ReportOrder[i + 1])
      /\ \A w \in Reviews : w # v => stage'[w] = stage[w]
      /\ stage' \in [Reviews -> Outcomes \cup FileNames]
  <2>1. "done" \in Outcomes
    BY DEF Outcomes
  <2> QED
    BY <1>2, <1>4, <2>1 DEF ReportInv, StagesKnown
<1>6. /\ \A w \in Reviews : w # v => (Writing(w)' <=> Writing(w)) /\ report'[w] = report[w]
      /\ Writing(v)' <=> i # Len(ReportOrder)
      /\ i # Len(ReportOrder) => report' = report
  <2>1. "done" \notin FileNames
    BY ReportAssumption DEF Outcomes
  <2> QED
    BY <1>2, <1>4, <1>5, <2>1 DEF Writing, ReportInv, HandsHonest
<1>7. StagesKnown'
  BY <1>1, <1>2, <1>5 DEF ReportInv, StagesKnown
<1>8. HandsHonest'
  <2>1. \A w \in Reviews : stage'[w] = "judging" => w # v /\ stage[w] = "judging"
    <3>1. "judging" \notin FileNames
      BY ReportAssumption DEF Outcomes
    <3> QED
      BY <1>4, <1>5, <3>1
  <2>2. DOMAIN report' = Reviews
    BY <1>2 DEF ReportInv, HandsHonest
  <2>3. ASSUME NEW w \in Reviews
        PROVE  /\ report'[w] = NoReport \/ Honest(report'[w])
               /\ stage'[w] = "judging" => report'[w] # NoReport
               /\ Writing(w)' => report'[w] # NoReport /\ Coherent(report'[w])
    <3>1. CASE report'[w] = report[w] /\ (Writing(w)' => Writing(w))
      BY <2>1, <3>1 DEF ReportInv, HandsHonest
    <3>2. CASE w = v /\ i = Len(ReportOrder)
      <4>1. report'[v] = NoReport /\ ~Writing(v)' /\ stage'[v] = "done"
        BY <1>2, <1>5, <1>6, <3>2 DEF ReportInv, HandsHonest
      <4> QED
        BY <3>2, <4>1
    <3> QED
      BY <1>1, <1>6, <3>1, <3>2
  <2> QED
    BY <2>2, <2>3 DEF HandsHonest
<1>9. FilesHonest'
  BY <1>1, <1>2 DEF ReportInv, FilesHonest
<1>10. ASSUME ~overlap'
      PROVE  /\ \A u, w \in Reviews : Writing(u)' /\ Writing(w)' => u = w
             /\ (\A w \in Reviews : Writing(w)' => stage'[w] = "latest.json") =>
                   \A f \in FileNames : written'[f] = written'["latest.json"]
             /\ \A w \in Reviews : \A k, j \in DOMAIN ReportOrder :
                   stage'[w] = ReportOrder[k] /\ j < k => written'[ReportOrder[j]] = report'[w]
  <2>1. OneByOne /\ ~overlap /\ written' = [written EXCEPT ![ReportOrder[i]] = report[v]]
    BY <1>2, <1>10 DEF ReportInv
  <2>2. \A u, w \in Reviews : Writing(u)' /\ Writing(w)' => u = w
    BY <1>1, <1>6, <2>1 DEF OneByOne
  <2>3. \A w \in Reviews : Writing(w) => w = v
    BY <1>1, <2>1 DEF OneByOne
  <2>4. \A j \in DOMAIN ReportOrder : j <= i => written'[ReportOrder[j]] = report[v]
    <3>1. \A j \in DOMAIN ReportOrder : j < i => written[ReportOrder[j]] = report[v]
      BY <1>1, <2>1 DEF OneByOne
    <3>2. DOMAIN written = FileNames
      BY DEF ReportInv, FilesHonest
    <3>3. ASSUME NEW j \in DOMAIN ReportOrder, j <= i PROVE written'[ReportOrder[j]] = report[v]
      <4>1. j \in Int /\ i \in Int
        BY <1>1, ReportAssumption
      <4>2. CASE j = i
        BY <1>3, <2>1, <3>2, <4>2
      <4>3. CASE j < i
        <5>1. ReportOrder[j] \in FileNames
          BY DEF FileNames
        <5>2. written'[ReportOrder[j]] = written[ReportOrder[j]] \/ written'[ReportOrder[j]] = report[v]
          BY <2>1, <3>2, <5>1
        <5> QED
          BY <3>1, <4>3, <5>2
      <4> QED
        BY <3>3, <4>1, <4>2, <4>3
    <3> QED
      BY <3>3
  <2>5. ASSUME \A w \in Reviews : Writing(w)' => stage'[w] = "latest.json"
        PROVE  \A f \in FileNames : written'[f] = written'["latest.json"]
    <3>1. i = Len(ReportOrder)
      <4> SUFFICES ASSUME i # Len(ReportOrder) PROVE FALSE
        OBVIOUS
      <4>1. ReportOrder[i + 1] = ReportOrder[1]
        BY <1>5, <1>6, <2>5, Latest
      <4>2. i + 1 = 1
        BY <1>4, <4>1, Latest, ReportAssumption
      <4> QED
        BY <1>1, <4>2
    <3>2. \A f \in FileNames : written'[f] = report[v]
      BY <1>1, <2>4, <3>1, ReportAssumption DEF FileNames
    <3> QED
      BY <3>2, Latest
  <2>6. ASSUME NEW w \in Reviews, NEW k \in DOMAIN ReportOrder, NEW j \in DOMAIN ReportOrder,
               stage'[w] = ReportOrder[k], j < k
        PROVE  written'[ReportOrder[j]] = report'[w]
    <3>1. Writing(w)'
      BY <2>6 DEF Writing, FileNames
    <3>2. w = v /\ i # Len(ReportOrder) /\ report' = report
      BY <1>6, <2>3, <3>1
    <3>3. k = i + 1
      BY <1>4, <1>5, <2>6, <3>2, ReportAssumption
    <3>4. j <= i
      BY <1>1, <2>6, <3>3, ReportAssumption
    <3> QED
      BY <2>4, <3>2, <3>4
  <2> QED
    BY <2>2, <2>5, <2>6
<1>11. OneByOne'
  BY <1>10 DEF OneByOne
<1> QED
  BY <1>7, <1>8, <1>9, <1>11 DEF ReportInv

\* A review that stops writing: either it had written nothing, or this counts
\* as an overlap.
LEMMA StopsInv ==
  ASSUME ReportInv, NEW v \in Reviews, WriteFails(v) \/ ReviewDies(v)
  PROVE  ReportInv'
<1>1. PICK s \in {"failed", "dead"} : stage' = [stage EXCEPT ![v] = s]
  BY DEF WriteFails, ReviewDies
<1>2. /\ report' = [report EXCEPT ![v] = NoReport] /\ rebuilds' = rebuilds /\ written' = written
      /\ overlap' = TRUE \/ (overlap' = overlap /\ stage[v] = "latest.json")
      /\ Writing(v)
  BY Latest DEF WriteFails, ReviewDies, Writing
<1>3. /\ stage'[v] = s /\ \A w \in Reviews : w # v => stage'[w] = stage[w]
      /\ s \in Outcomes /\ s \notin FileNames /\ s # "judging"
      /\ stage' \in [Reviews -> Outcomes \cup FileNames]
  <2>1. s \in Outcomes
    BY DEF Outcomes
  <2> QED
    BY <1>1, <2>1, ReportAssumption DEF ReportInv, StagesKnown
<1>4. /\ report'[v] = NoReport /\ \A w \in Reviews : w # v => report'[w] = report[w]
      /\ DOMAIN report' = Reviews
  BY <1>2 DEF ReportInv, HandsHonest
<1>5. \A w \in Reviews : Writing(w)' <=> w # v /\ Writing(w)
  BY <1>3 DEF Writing
<1>6. StagesKnown'
  BY <1>2, <1>3 DEF ReportInv, StagesKnown
<1>7. HandsHonest'
  <2>1. ASSUME NEW w \in Reviews
        PROVE  /\ report'[w] = NoReport \/ Honest(report'[w])
               /\ stage'[w] = "judging" => report'[w] # NoReport
               /\ Writing(w)' => report'[w] # NoReport /\ Coherent(report'[w])
    <3>1. CASE w = v
      BY <1>3, <1>4, <1>5, <3>1
    <3>2. CASE w # v
      BY <1>3, <1>4, <1>5, <3>2 DEF ReportInv, HandsHonest
    <3> QED
      BY <3>1, <3>2
  <2> QED
    BY <1>4, <2>1 DEF HandsHonest
<1>8. FilesHonest'
  BY <1>2 DEF ReportInv, FilesHonest
<1>9. ASSUME ~overlap'
      PROVE  /\ \A u, w \in Reviews : Writing(u)' /\ Writing(w)' => u = w
             /\ (\A w \in Reviews : Writing(w)' => stage'[w] = "latest.json") =>
                   \A f \in FileNames : written'[f] = written'["latest.json"]
             /\ \A w \in Reviews : \A k, j \in DOMAIN ReportOrder :
                   stage'[w] = ReportOrder[k] /\ j < k => written'[ReportOrder[j]] = report'[w]
  <2>1. OneByOne /\ ~overlap /\ stage[v] = "latest.json"
    BY <1>2, <1>9 DEF ReportInv
  <2>2. \A w \in Reviews : ~Writing(w)'
    BY <1>2, <1>5, <2>1 DEF OneByOne
  <2>3. \A f \in FileNames : written[f] = written["latest.json"]
    <3>1. \A w \in Reviews : Writing(w) => stage[w] = "latest.json"
      BY <1>2, <2>1 DEF OneByOne
    <3> QED
      BY <2>1, <3>1 DEF OneByOne
  <2>4. \A w \in Reviews : \A k \in DOMAIN ReportOrder : stage'[w] # ReportOrder[k]
    BY <2>2 DEF Writing, FileNames
  <2> QED
    BY <1>2, <2>2, <2>3, <2>4
<1>10. OneByOne'
  BY <1>9 DEF OneByOne
<1> QED
  BY <1>6, <1>7, <1>8, <1>10 DEF ReportInv

LEMMA ReportInvariance == ReportSpec => []ReportInv
<1>1. ASSUME ReportInv, [ReportNext]_reportVars PROVE ReportInv'
  <2>1. ASSUME NEW v \in Reviews, NEW list \in FindingLists(FindingLimit + 1), Construct(v, list)
        PROVE  ReportInv'
    <3>1. list \in Seq(Levels)
      BY ReportAssumption DEF FindingLists, Levels
    <3> QED
      BY <1>1, <2>1, <3>1, ConstructInv
  <2>2. ASSUME NEW v \in Reviews, NEW i \in 1..FindingLimit + 1, Suppress(v, i) PROVE ReportInv'
    <3>1. i \in Nat
      BY ReportAssumption
    <3> QED
      BY <1>1, <2>2, <3>1, SuppressInv
  <2>3. CASE UNCHANGED reportVars
    BY <1>1, <2>3 DEF reportVars, ReportInv, StagesKnown, HandsHonest, FilesHonest, OneByOne, Writing
  <2> QED
    BY <1>1, <2>1, <2>2, <2>3, AddInv, WriteInv, WriteFileInv, StopsInv DEF ReportNext
<1> QED
  BY <1>1, ReportInitInv, PTL DEF ReportSpec

\* ReportsAreHonest, for any reviews, limit on findings, files and number of
\* rebuilds: whatever is added, suppressed and rebuilt, and whichever review
\* dies or cannot write.
THEOREM ReportsStayHonest == ReportSpec => []ReportsAreHonest
<1>1. ReportInv => ReportTypeOK
  BY DEF ReportInv, StagesKnown, HandsHonest, ReportTypeOK, Honest
<1>2. ReportInv => IncompleteNeverPasses
  BY DEF ReportInv, HandsHonest, FilesHonest, IncompleteNeverPasses, Honest
<1>3. ReportInv => SiblingsAgree
  BY DEF ReportInv, OneByOne, SiblingsAgree
<1> QED
  BY <1>1, <1>2, <1>3, ReportInvariance, PTL DEF ReportsAreHonest

-----------------------------------------------------------------------------
(* Fleet *)

\* The lines of a ledger name earlier lines, or do not parse.
Ledger(lines) ==
    /\ lines \in Seq(0..Torn) /\ Len(lines) <= MaxLines
    /\ \A i \in DOMAIN lines : lines[i] < i \/ lines[i] = Torn

FileOK(m, lines) ==
    IF m = "ledgers" THEN Ledger(lines) ELSE lines \in Seq(Says \cup {"filling"})

FleetTyped ==
    /\ mode \in {"reports", "ledgers"} /\ limits \in Limits
    /\ pc \in {"top", "sub", "look", "read", "done"}
    /\ DOMAIN disk = Files /\ \A f \in Files : FileOK(mode, disk[f])
    /\ steady \subseteq {f \in Files : disk[f] # Gone}
    /\ found \in Seq(Files) /\ IsInjective(found) /\ Len(found) <= limits.records
    /\ consumed \in 0..limits.entries /\ at \in 1..Len(found) + 1 /\ failed \in BOOLEAN

\* Where the search is, and what of the files it has found.
Searched ==
    /\ pc = "top" => found = <<>>
    /\ pc = "sub" => ToSet(found) \cap Sub = {} /\ steady \subseteq Sub \cup ToSet(found)
    /\ pc \in {"look", "read", "done"} /\ limit = None => steady \subseteq ToSet(found)

\* Where the reading is.
Reached ==
    /\ DOMAIN taken = {found[i] : i \in 1..at - 1}
    /\ pc \in {"top", "sub"} => at = 1
    /\ pc = "read" => /\ at <= Len(found)
                      /\ found[at] \in steady => Len(disk[found[at]]) <= limits.file
    /\ pc = "done" => at = Len(found) + 1 \/ failed \/ readLimit # None

\* What was read is what is there, unless somebody changed it.
ReadTruly ==
    /\ \A f \in DOMAIN taken : FileOK(mode, taken[f]) /\ (f \in steady => taken[f] = disk[f])
    /\ DOMAIN kept = IF mode = "ledgers" THEN DOMAIN taken ELSE {}
    /\ \A f \in DOMAIN kept : \E room \in Int : kept[f] = Kept(taken[f], room)
    /\ (\A f \in DOMAIN kept : kept[f] = Valid(taken[f])) \/ (pc = "done" /\ readLimit # None)

WithinEvents == IsFiniteSet(KeptEvents) /\ Cardinality(KeptEvents) <= limits.events

FleetInv == FleetTyped /\ Searched /\ Reached /\ ReadTruly /\ WithinEvents

-----------------------------------------------------------------------------
(* Sorting *)

\* What holds for no least number holds for none.
LEMMA Least == ASSUME NEW T, T \subseteq Nat, T # {} PROVE \E x \in T : \A y \in T : ~(y < x)
<1>1. \E x \in T : \A y \in T : ~(<<y, x>> \in OpToRel(<, Nat))
  BY NatLessThanWellFounded, WFMin
<1> QED
  BY <1>1 DEF OpToRel

InOrderOf(s, S) ==
    /\ s \in [1..Cardinality(S) -> S] /\ ToSet(s) = S
    /\ \A i, j \in DOMAIN s : i < j => Before(s[i], s[j])

Orderly(S) == IsFiniteSet(S) /\ Cardinality(S) \in Nat /\ \E s : InOrderOf(s, S)

FirstFiles(k) == {Order[i] : i \in 1..k}

LEMMA OrderlyNext ==
  ASSUME NEW k \in 1..Len(Order), NEW S, S \subseteq FirstFiles(k),
         \A R : R \subseteq FirstFiles(k - 1) => Orderly(R)
  PROVE  Orderly(S)
<1> DEFINE last == Order[k]
<1>1. Len(Order) \in Nat /\ DOMAIN Order = 1..Len(Order) /\ k \in Nat /\ k - 1 \in Nat
  BY FleetAssumption
<1>2. S \ {last} \subseteq FirstFiles(k - 1)
  <2>1. ASSUME NEW f \in S \ {last} PROVE f \in FirstFiles(k - 1)
    <3>1. PICK i \in 1..k : f = Order[i]
      BY <2>1 DEF FirstFiles
    <3>2. i \in 1..k - 1
      BY <1>1, <2>1, <3>1
    <3> QED
      BY <3>1, <3>2 DEF FirstFiles
  <2> QED
    BY <2>1
<1>3. CASE last \notin S
  BY <1>2, <1>3
<1>4. CASE last \in S
  <2> DEFINE R == S \ {last}
             n == Cardinality(R)
  <2>1. Orderly(R)
    BY <1>2
  <2>2. PICK s : InOrderOf(s, R)
    BY <2>1 DEF Orderly
  <2>3. n \in Nat /\ IsFiniteSet(R)
    BY <2>1 DEF Orderly
  <2>4. S = R \cup {last} /\ last \notin R
    BY <1>4
  <2>5. IsFiniteSet(S) /\ Cardinality(S) = n + 1
    <3> HIDE DEF R
    <3>1. IsFiniteSet(R \cup {last}) /\ Cardinality(R \cup {last}) = Cardinality(R) + 1
      BY <2>3, <2>4, FS_AddElement
    <3> QED
      BY <2>4, <3>1
  <2> DEFINE t == [i \in 1..n + 1 |-> IF i = n + 1 THEN last ELSE s[i]]
  <2>6. s \in [1..n -> R] /\ {s[i] : i \in DOMAIN s} = R /\ \A i, j \in 1..n : i < j => Before(s[i], s[j])
    BY <2>2 DEF InOrderOf, ToSet
  <2>7. \A f \in R : Before(f, last)
    <3>1. ASSUME NEW f \in R PROVE Before(f, last)
      <4>1. PICK i \in 1..k - 1 : f = Order[i]
        BY <1>2, <3>1 DEF FirstFiles
      <4>2. i \in DOMAIN Order /\ k \in DOMAIN Order /\ i < k
        BY <1>1, <4>1
      <4> QED
        BY <4>1, <4>2 DEF Before
    <3> QED
      BY <3>1
  <2> HIDE DEF R, n, last
  <2>8. t \in [1..n + 1 -> S]
    <3>1. ASSUME NEW i \in 1..n + 1 PROVE t[i] \in S
      <4>1. CASE i = n + 1
        BY <2>4, <4>1
      <4>2. CASE i # n + 1
        <5>1. i \in 1..n
          BY <2>3, <4>2
        <5> QED
          BY <2>4, <2>6, <4>2, <5>1
      <4> QED
        BY <4>1, <4>2
    <3> QED
      BY <3>1
  <2>9. {t[i] : i \in DOMAIN t} = S
    <3>1. ASSUME NEW f \in S PROVE \E i \in 1..n + 1 : t[i] = f
      <4>1. CASE f = last
        <5>1. n + 1 \in 1..n + 1
          BY <2>3
        <5> QED
          BY <4>1, <5>1
      <4>2. CASE f # last
        <5>1. PICK i \in 1..n : s[i] = f
          BY <2>4, <2>6, <4>2
        <5>2. i \in 1..n + 1 /\ i # n + 1
          BY <2>3
        <5> QED
          BY <5>1, <5>2
      <4> QED
        BY <4>1, <4>2
    <3> QED
      BY <2>8, <3>1
  <2>10. ASSUME NEW i \in 1..n + 1, NEW j \in 1..n + 1, i < j PROVE Before(t[i], t[j])
    <3>1. i \in 1..n /\ t[i] = s[i] /\ s[i] \in R
      BY <2>3, <2>6, <2>10
    <3>2. CASE j = n + 1
      BY <2>7, <3>1, <3>2
    <3>3. CASE j # n + 1
      <4>1. j \in 1..n /\ t[j] = s[j]
        BY <2>3, <3>3
      <4> QED
        BY <2>6, <2>10, <3>1, <4>1
    <3> QED
      BY <3>2, <3>3
  <2>11. InOrderOf(t, S)
    <3>1. DOMAIN t = 1..n + 1
      OBVIOUS
    <3> HIDE DEF t
    <3> QED
      BY <2>5, <2>8, <2>9, <2>10, <3>1 DEF InOrderOf, ToSet
  <2> QED
    BY <2>3, <2>5, <2>11 DEF Orderly
<1> QED
  BY <1>3, <1>4

LEMMA AllOrderly == ASSUME NEW S, S \subseteq Files PROVE Orderly(S)
<1> DEFINE Wrong == {k \in 0..Len(Order) : \E R : R \subseteq FirstFiles(k) /\ ~Orderly(R)}
<1>1. Len(Order) \in Nat /\ Files = FirstFiles(Len(Order))
  BY FleetAssumption DEF Files, ToSet, FirstFiles
<1>2. ASSUME Wrong # {} PROVE FALSE
  <2>1. PICK k \in Wrong : \A y \in Wrong : ~(y < k)
    <3>1. Wrong \subseteq Nat
      BY <1>1
    <3> QED
      BY <1>2, <3>1, Least
  <2>2. PICK R : R \subseteq FirstFiles(k) /\ ~Orderly(R)
    BY <2>1
  <2>3. k # 0
    <3> SUFFICES ASSUME k = 0 PROVE FALSE
      OBVIOUS
    <3>1. R = {}
      BY <2>2 DEF FirstFiles
    <3>2. IsFiniteSet(R) /\ Cardinality(R) = 0
      BY <3>1, FS_EmptySet
    <3>3. InOrderOf(<<>>, R)
      BY <3>1, <3>2 DEF InOrderOf, ToSet
    <3> QED
      BY <2>2, <3>2, <3>3 DEF Orderly
  <2>4. k \in 1..Len(Order) /\ k - 1 \in 0..Len(Order) /\ k - 1 < k
    BY <1>1, <2>1, <2>3
  <2>5. \A Q : Q \subseteq FirstFiles(k - 1) => Orderly(Q)
    BY <2>1, <2>4
  <2> QED
    BY <2>2, <2>4, <2>5, OrderlyNext
<1> QED
  BY <1>1, <1>2

\* What InOrder gives is a sequence of just those files, each once.
LEMMA InOrderIs ==
  ASSUME NEW S, S \subseteq Files
  PROVE  /\ IsFiniteSet(S) /\ Cardinality(S) \in Nat
         /\ InOrder(S) \in Seq(Files) /\ Len(InOrder(S)) = Cardinality(S)
         /\ ToSet(InOrder(S)) = S /\ IsInjective(InOrder(S))
<1>1. Orderly(S)
  BY AllOrderly
<1>2. InOrderOf(InOrder(S), S)
  <2>1. \E s \in [1..Cardinality(S) -> S] :
          ToSet(s) = S /\ \A i, j \in DOMAIN s : i < j => Before(s[i], s[j])
    BY <1>1 DEF Orderly, InOrderOf
  <2> QED
    BY <2>1, Zenon DEF InOrder, InOrderOf
<1> DEFINE s == InOrder(S)
<1> HIDE DEF s
<1>3. s \in [1..Cardinality(S) -> S] /\ Cardinality(S) \in Nat
  BY <1>1, <1>2 DEF InOrderOf, Orderly, s
<1>4. s \in Seq(Files) /\ Len(s) = Cardinality(S)
  BY <1>3
<1>5. ASSUME NEW i \in DOMAIN s, NEW j \in DOMAIN s, s[i] = s[j] PROVE i = j
  <2>1. ~Before(s[i], s[i])
    BY FleetAssumption DEF Before, IsInjective
  <2>2. ~(i < j) /\ ~(j < i)
    BY <1>2, <1>5, <2>1 DEF InOrderOf, s
  <2> QED
    BY <1>3, <2>2
<1> QED
  BY <1>1, <1>2, <1>4, <1>5 DEF s, InOrderOf, Orderly, IsInjective
-----------------------------------------------------------------------------
(* Ledgers *)

\* The events that fit are the first ones, and they fit.
LEMMA KeptIs ==
  ASSUME NEW lines, Ledger(lines), NEW room \in Int
  PROVE  /\ Kept(lines, room) \subseteq Valid(lines) /\ IsFiniteSet(Kept(lines, room))
         /\ \A i \in Kept(lines, room), j \in Valid(lines) : j < i => j \in Kept(lines, room)
         /\ room >= 0 => Cardinality(Kept(lines, room)) <= room
<1> DEFINE K == Kept(lines, room)
           Upto(i) == {j \in Valid(lines) : j <= i}
<1>1. /\ Valid(lines) \subseteq 1..Len(lines) /\ Len(lines) \in Nat
      /\ IsFiniteSet(Valid(lines))
  <2>1. Valid(lines) \subseteq 1..Len(lines) /\ Len(lines) \in Nat
    BY DEF Valid, Ledger
  <2>2. IsFiniteSet(1..Len(lines))
    BY <2>1, FS_Interval
  <2> QED
    BY <2>1, <2>2, FS_Subset
<1>2. K = {i \in Valid(lines) : Cardinality(Upto(i)) <= room}
  BY DEF Kept
<1>3. \A i : IsFiniteSet(Upto(i)) /\ Cardinality(Upto(i)) \in Nat
  <2>1. ASSUME NEW i PROVE IsFiniteSet(Upto(i)) /\ Cardinality(Upto(i)) \in Nat
    <3>1. Upto(i) \subseteq Valid(lines)
      OBVIOUS
    <3>2. IsFiniteSet(Upto(i))
      BY <1>1, <3>1, FS_Subset
    <3> QED
      BY <3>2, FS_CardinalityType
  <2> QED
    BY <2>1
<1>4. ASSUME NEW i \in K, NEW j \in Valid(lines), j < i PROVE j \in K
  <2>1. Upto(j) \subseteq Upto(i)
    BY <1>1, <1>2, <1>4
  <2>2. Cardinality(Upto(j)) <= Cardinality(Upto(i))
    BY <1>3, <2>1, FS_Subset
  <2>3. Cardinality(Upto(i)) <= room
    BY <1>2
  <2> HIDE DEF Upto
  <2> QED
    BY <1>2, <1>3, <2>2, <2>3
<1>5. IsFiniteSet(K) /\ Cardinality(K) \in Nat
  <2>1. K \subseteq Valid(lines)
    BY <1>2
  <2>2. IsFiniteSet(K)
    BY <1>1, <2>1, FS_Subset
  <2> QED
    BY <2>2, FS_CardinalityType
<1>6. ASSUME room >= 0, K # {} PROVE Cardinality(K) <= room
  <2> DEFINE T == {Len(lines) - i : i \in K}
  <2>1. T \subseteq Nat /\ T # {}
    <3>1. \A i \in K : i \in 1..Len(lines)
      BY <1>1, <1>2
    <3>2. \A i \in K : Len(lines) - i \in Nat
      BY <1>1, <3>1
    <3> HIDE DEF K
    <3> QED
      BY <1>6, <3>2
  <2>2. PICK x \in T : \A y \in T : ~(y < x)
    BY <2>1, Least
  <2>3. PICK m \in K : x = Len(lines) - m
    BY <2>2
  <2>4. \A i \in K : i <= m
    <3>1. ASSUME NEW i \in K PROVE i <= m
      <4>1. Len(lines) - i \in T
        OBVIOUS
      <4>2. ~(Len(lines) - i < Len(lines) - m)
        BY <2>2, <2>3, <4>1
      <4>3. i \in Nat /\ m \in Nat
        BY <1>1, <1>2
      <4> QED
        BY <1>1, <4>2, <4>3
    <3> QED
      BY <3>1
  <2>5. K \subseteq Upto(m) /\ Cardinality(Upto(m)) <= room
    BY <1>2, <2>4
  <2>6. Cardinality(K) <= Cardinality(Upto(m))
    BY <1>3, <2>5, FS_Subset
  <2> HIDE DEF K, Upto
  <2> QED
    BY <1>3, <1>5, <2>5, <2>6
<1>7. K = {} => Cardinality(K) = 0
  BY FS_EmptySet
<1> QED
  BY <1>2, <1>4, <1>5, <1>6, <1>7

\* The number of events read, with one more ledger.
LEMMA KeptEventsNext ==
  ASSUME WithinEvents, NEW file, file \notin DOMAIN kept, NEW events, IsFiniteSet(events),
         Cardinality(events) <= Room, kept' = With(kept, file, events),
         limits' = limits, limits.events \in Nat
  PROVE  WithinEvents'
<1>1. KeptEvents' = KeptEvents \cup ({file} \X events)
  <2>1. DOMAIN kept' = DOMAIN kept \cup {file} /\ kept'[file] = events
        /\ \A f \in DOMAIN kept : kept'[f] = kept[f]
    BY DEF With
  <2> QED
    BY <2>1 DEF KeptEvents
<1>2. IsFiniteSet({file} \X events) /\ Cardinality({file} \X events) = Cardinality(events)
  <2>1. IsFiniteSet({file}) /\ Cardinality({file}) = 1
    BY FS_Singleton
  <2>2. IsFiniteSet({file} \X events)
        /\ Cardinality({file} \X events) = Cardinality({file}) * Cardinality(events)
    BY <2>1, FS_Product
  <2>3. Cardinality(events) \in Nat
    BY FS_CardinalityType
  <2> QED
    BY <2>1, <2>2, <2>3
<1>3. IsFiniteSet(KeptEvents) /\ Cardinality(KeptEvents) \in Nat /\ Cardinality(events) \in Nat
      /\ Cardinality(events) <= limits.events - Cardinality(KeptEvents)
  BY FS_CardinalityType DEF WithinEvents, Room
<1>4. /\ IsFiniteSet(KeptEvents \cup ({file} \X events))
      /\ Cardinality(KeptEvents \cup ({file} \X events)) =
           Cardinality(KeptEvents) + Cardinality({file} \X events)
           - Cardinality(KeptEvents \cap ({file} \X events))
  BY <1>2, <1>3, FS_Union
<1>5. Cardinality(KeptEvents \cap ({file} \X events)) \in Nat
  <2>1. IsFiniteSet(KeptEvents \cap ({file} \X events))
    BY <1>3, FS_Intersection
  <2> QED
    BY <2>1, FS_CardinalityType
<1>6. Cardinality(KeptEvents') <= limits.events
  BY <1>1, <1>2, <1>3, <1>4, <1>5
<1> QED
  BY <1>1, <1>4, <1>6 DEF WithinEvents
-----------------------------------------------------------------------------
(* The steps of a summary *)

LEMMA LimitsTyped ==
  ASSUME limits \in Limits
  PROVE  /\ limits.entries \in Nat /\ limits.records \in Nat /\ limits.file \in Nat
         /\ limits.read \in Nat /\ limits.events \in Nat
BY FleetAssumption

LEMMA ContentsOK ==
  ASSUME mode \in {"reports", "ledgers"}
  PROVE  \A c \in Contents(mode) \cup {Gone} : FileOK(mode, c)
<1>1. CASE mode = "ledgers"
  <2>1. \A c \in {<<>>, <<0>>, <<0, 1>>, <<Torn, 1>>} : Ledger(c)
    <3>1. Torn \in Nat /\ 1 \in 0..Torn /\ 0 \in 0..Torn /\ Torn \in 0..Torn /\ MaxLines \in Nat
          /\ 2 <= MaxLines
      BY FleetAssumption DEF Torn
    <3>2. Ledger(<<>>)
      BY <3>1 DEF Ledger
    <3>3. Ledger(<<0>>)
      BY <3>1 DEF Ledger
    <3>4. Ledger(<<0, 1>>)
      BY <3>1 DEF Ledger
    <3>5. Ledger(<<Torn, 1>>)
      BY <3>1 DEF Ledger
    <3> QED
      BY <3>2, <3>3, <3>4, <3>5
  <2> QED
    BY <1>1, <2>1 DEF Contents, Gone, FileOK
<1>2. CASE mode = "reports"
  <2> DEFINE Texts == Says \cup {"filling"}
  <2>1. \A x \in Says : <<x>> \in Seq(Texts)
    OBVIOUS
  <2>2. <<"PASS", "filling">> \in Seq(Texts) /\ <<>> \in Seq(Texts)
    BY DEF Says
  <2>3. \A c \in Contents(mode) \cup {Gone} : c \in Seq(Texts)
    <3> HIDE DEF Texts
    <3> QED
      BY <1>2, <2>1, <2>2 DEF Contents, Gone
  <2> QED
    BY <1>2, <2>3 DEF FileOK
<1> QED
  BY <1>1, <1>2

LEMMA FleetInitInv == FleetInit => FleetInv
<1> SUFFICES ASSUME FleetInit PROVE FleetInv
  OBVIOUS
<1>1. \A c \in Contents(mode) \cup {Gone} : FileOK(mode, c)
  BY ContentsOK DEF FleetInit
<1>2. FleetTyped
  <2>1. /\ found = <<>> /\ found \in Seq(Files) /\ IsInjective(found) /\ Len(found) = 0
    BY DEF FleetInit, IsInjective
  <2>2. limits \in Limits /\ limits.records \in Nat /\ limits.entries \in Nat
    BY LimitsTyped DEF FleetInit
  <2>3. DOMAIN disk = Files /\ \A f \in Files : FileOK(mode, disk[f])
    BY <1>1 DEF FleetInit
  <2>4. consumed \in 0..limits.entries /\ at \in 1..Len(found) + 1 /\ Len(found) <= limits.records
    BY <2>1, <2>2 DEF FleetInit
  <2>5. /\ mode \in {"reports", "ledgers"} /\ pc \in {"top", "sub", "look", "read", "done"}
        /\ failed \in BOOLEAN /\ steady \subseteq {f \in Files : disk[f] # Gone}
    BY DEF FleetInit
  <2> QED
    BY <2>1, <2>2, <2>3, <2>4, <2>5 DEF FleetTyped
<1>3. Searched /\ Reached
  BY DEF FleetInit, Searched, Reached
<1>4. ReadTruly
  BY DEF FleetInit, ReadTruly
<1>5. WithinEvents
  <2>1. KeptEvents = {}
    BY DEF FleetInit, KeptEvents
  <2>2. limits.events \in Nat
    BY LimitsTyped DEF FleetInit
  <2> QED
    BY <2>1, <2>2, FS_EmptySet DEF WithinEvents
<1> QED
  BY <1>2, <1>3, <1>4, <1>5 DEF FleetInv

LEMMA ChangeInv ==
  ASSUME FleetInv, NEW f \in Files, NEW lines, FileOK(mode, lines), Change(f, lines)
  PROVE  FleetInv'
<1>1. /\ pc' = pc /\ pc # "done" /\ disk' = [disk EXCEPT ![f] = lines] /\ steady' = steady \ {f}
      /\ mode' = mode /\ limits' = limits
  BY DEF Change, call
<1>2. /\ consumed' = consumed /\ found' = found /\ limit' = limit /\ at' = at /\ size' = size
      /\ bytes' = bytes /\ readLimit' = readLimit /\ failed' = failed /\ taken' = taken
      /\ kept' = kept
  BY DEF Change
<1>3. DOMAIN disk' = Files /\ \A g \in Files : disk'[g] = IF g = f THEN lines ELSE disk[g]
  BY <1>1 DEF FleetInv, FleetTyped
<1>5. FleetTyped'
  <2>1. \A g \in Files : FileOK(mode, disk'[g])
    BY <1>3 DEF FleetInv, FleetTyped
  <2>2. steady' \subseteq {g \in Files : disk'[g] # Gone}
    BY <1>1, <1>3 DEF FleetInv, FleetTyped
  <2> QED
    BY <1>1, <1>2, <1>3, <2>1, <2>2 DEF FleetInv, FleetTyped
<1>6. Searched'
  BY <1>1, <1>2 DEF FleetInv, Searched
<1>7. Reached'
  <2>1. ASSUME pc = "read", found[at] \in steady'
        PROVE  Len(disk'[found[at]]) <= limits.file
    BY <1>1, <1>3, <2>1 DEF FleetInv, FleetTyped, Reached
  <2> QED
    BY <1>1, <1>2, <2>1 DEF FleetInv, Reached
<1>8. ReadTruly'
  <2>1. ASSUME NEW g \in DOMAIN taken' PROVE FileOK(mode, taken'[g]) /\ (g \in steady' => taken'[g] = disk'[g])
    <3>1. FileOK(mode, taken[g]) /\ (g \in steady => taken[g] = disk[g])
      BY <1>2, <2>1 DEF FleetInv, ReadTruly
    <3>2. g \in steady' => g \in steady /\ disk'[g] = disk[g]
      BY <1>1, <1>3 DEF FleetInv, FleetTyped
    <3> QED
      BY <1>2, <3>1, <3>2
  <2>2. \A g \in DOMAIN kept' : \E room \in Int : kept'[g] = Kept(taken'[g], room)
    BY <1>2 DEF FleetInv, ReadTruly
  <2> QED
    BY <1>1, <1>2, <2>1, <2>2 DEF FleetInv, ReadTruly
<1>9. WithinEvents'
  BY <1>1, <1>2 DEF FleetInv, WithinEvents, KeptEvents
<1> QED
  BY <1>5, <1>6, <1>7, <1>8, <1>9 DEF FleetInv

LEMMA OthersInv == ASSUME FleetInv, Others PROVE FleetInv'
<1>1. PICK f \in Files :
         \/ \E lines \in Contents(mode) \cup {Gone} : lines # disk[f] /\ Change(f, lines)
         \/ /\ mode = "ledgers" /\ disk[f] # Gone /\ Len(disk[f]) < MaxLines
            /\ \E parent \in {0, Len(disk[f])} : Change(f, Append(disk[f], parent))
  BY DEF Others
<1>2. \A c \in Contents(mode) \cup {Gone} : FileOK(mode, c)
  BY ContentsOK DEF FleetInv, FleetTyped
<1>3. ASSUME mode = "ledgers", Len(disk[f]) < MaxLines, NEW parent \in {0, Len(disk[f])}
      PROVE  FileOK(mode, Append(disk[f], parent))
  <2> DEFINE old == disk[f]
             new == Append(old, parent)
  <2>1. Ledger(old)
    BY <1>3 DEF FleetInv, FleetTyped, FileOK
  <2>2. old \in Seq(0..Torn) /\ Len(old) \in Nat /\ Torn \in Nat /\ MaxLines \in Nat
        /\ parent \in 0..Torn /\ parent < Len(old) + 1
    BY <1>3, <2>1, FleetAssumption DEF Ledger, Torn
  <2> HIDE DEF old
  <2>3. new \in Seq(0..Torn) /\ Len(new) = Len(old) + 1 /\ new[Len(old) + 1] = parent
        /\ \A i \in 1..Len(old) : new[i] = old[i]
    BY <2>2
  <2>4. \A i \in 1..Len(old) : old[i] < i \/ old[i] = Torn
    BY <2>1, <2>2 DEF Ledger
  <2>5. Len(new) <= MaxLines
    BY <1>3, <2>2, <2>3 DEF old
  <2>6. ASSUME NEW i \in DOMAIN new PROVE new[i] < i \/ new[i] = Torn
    <3>1. i \in 1..Len(old) \/ i = Len(old) + 1
      BY <2>2, <2>3
    <3> QED
      BY <2>2, <2>3, <2>4, <3>1
  <2> HIDE DEF new
  <2>7. Ledger(new)
    BY <2>3, <2>5, <2>6 DEF Ledger
  <2> QED
    BY <1>3, <2>7 DEF FileOK, new, old
<1>4. CASE \E lines \in Contents(mode) \cup {Gone} : lines # disk[f] /\ Change(f, lines)
  BY <1>2, <1>4, ChangeInv
<1>5. CASE /\ mode = "ledgers" /\ disk[f] # Gone /\ Len(disk[f]) < MaxLines
           /\ \E parent \in {0, Len(disk[f])} : Change(f, Append(disk[f], parent))
  BY <1>3, <1>5, ChangeInv
<1> QED
  BY <1>1, <1>4, <1>5

\* Files that were found and files listed next are different files.
LEMMA JoinIs ==
  ASSUME NEW a \in Seq(Files), IsInjective(a), NEW b \in Seq(Files), IsInjective(b),
         ToSet(a) \cap ToSet(b) = {}
  PROVE  /\ a \o b \in Seq(Files) /\ IsInjective(a \o b) /\ Len(a \o b) = Len(a) + Len(b)
         /\ ToSet(a \o b) = ToSet(a) \cup ToSet(b)
<1> DEFINE c == a \o b
<1>1. /\ Len(a) \in Nat /\ Len(b) \in Nat /\ DOMAIN a = 1..Len(a) /\ DOMAIN b = 1..Len(b)
      /\ c \in Seq(Files) /\ Len(c) = Len(a) + Len(b) /\ DOMAIN c = 1..Len(a) + Len(b)
      /\ \A i \in 1..Len(a) + Len(b) : c[i] = IF i <= Len(a) THEN a[i] ELSE b[i - Len(a)]
  OBVIOUS
<1> HIDE DEF c
<1>2. ToSet(c) = ToSet(a) \cup ToSet(b)
  <2>1. ASSUME NEW i \in DOMAIN c PROVE c[i] \in ToSet(a) \cup ToSet(b)
    <3>1. CASE i <= Len(a)
      <4>1. c[i] = a[i] /\ i \in DOMAIN a
        BY <1>1, <3>1
      <4> QED
        BY <4>1 DEF ToSet
    <3>2. CASE ~(i <= Len(a))
      <4>1. c[i] = b[i - Len(a)] /\ i - Len(a) \in DOMAIN b
        BY <1>1, <3>2
      <4> QED
        BY <4>1 DEF ToSet
    <3> QED
      BY <3>1, <3>2
  <2>2. ASSUME NEW i \in DOMAIN a PROVE a[i] \in ToSet(c)
    <3>1. c[i] = a[i] /\ i \in DOMAIN c
      BY <1>1
    <3> QED
      BY <3>1 DEF ToSet
  <2>3. ASSUME NEW i \in DOMAIN b PROVE b[i] \in ToSet(c)
    <3>1. i + Len(a) \in DOMAIN c /\ ~(i + Len(a) <= Len(a)) /\ i + Len(a) - Len(a) = i
      BY <1>1
    <3>2. c[i + Len(a)] = b[i]
      BY <1>1, <3>1
    <3> QED
      BY <3>1, <3>2 DEF ToSet
  <2> QED
    BY <2>1, <2>2, <2>3 DEF ToSet
<1>3. ASSUME NEW i \in DOMAIN c, NEW j \in DOMAIN c, c[i] = c[j] PROVE i = j
  <2>1. \A k \in DOMAIN c : \/ k <= Len(a) /\ k \in DOMAIN a /\ c[k] = a[k] /\ c[k] \in ToSet(a)
                            \/ /\ ~(k <= Len(a)) /\ k - Len(a) \in DOMAIN b
                               /\ c[k] = b[k - Len(a)] /\ c[k] \in ToSet(b)
    <3>1. ASSUME NEW k \in DOMAIN c
          PROVE  \/ k <= Len(a) /\ k \in DOMAIN a /\ c[k] = a[k] /\ c[k] \in ToSet(a)
                 \/ /\ ~(k <= Len(a)) /\ k - Len(a) \in DOMAIN b
                    /\ c[k] = b[k - Len(a)] /\ c[k] \in ToSet(b)
      <4>1. CASE k <= Len(a)
        <5>1. k \in DOMAIN a /\ c[k] = a[k]
          BY <1>1, <4>1
        <5> QED
          BY <4>1, <5>1 DEF ToSet
      <4>2. CASE ~(k <= Len(a))
        <5>1. k - Len(a) \in DOMAIN b /\ c[k] = b[k - Len(a)]
          BY <1>1, <4>2
        <5> QED
          BY <4>2, <5>1 DEF ToSet
      <4> QED
        BY <4>1, <4>2
    <3> QED
      BY <3>1
  <2>2. CASE i <= Len(a)
    <3>1. j <= Len(a)
      BY <1>3, <2>1, <2>2
    <3> QED
      BY <1>3, <2>1, <2>2, <3>1 DEF IsInjective
  <2>3. CASE ~(i <= Len(a))
    <3>1. ~(j <= Len(a))
      BY <1>3, <2>1, <2>3
    <3>2. i - Len(a) = j - Len(a)
      BY <1>3, <2>1, <2>3, <3>1 DEF IsInjective
    <3> QED
      BY <1>1, <3>2
  <2> QED
    BY <2>2, <2>3
<1> QED
  BY <1>1, <1>2, <1>3 DEF c, IsInjective

\* The first of a sequence.
LEMMA FirstIs ==
  ASSUME NEW a \in Seq(Files), IsInjective(a), NEW m \in 0..Len(a)
  PROVE  /\ SubSeq(a, 1, m) \in Seq(Files) /\ IsInjective(SubSeq(a, 1, m))
         /\ Len(SubSeq(a, 1, m)) = m /\ ToSet(SubSeq(a, 1, m)) \subseteq ToSet(a)
         /\ m = Len(a) => SubSeq(a, 1, m) = a
<1> DEFINE b == SubSeq(a, 1, m)
<1>1. b \in Seq(Files) /\ Len(b) = m /\ DOMAIN b = 1..m /\ DOMAIN a = 1..Len(a) /\ Len(a) \in Nat
      /\ \A i \in 1..m : b[i] = a[i] /\ i \in DOMAIN a
  OBVIOUS
<1>2. m = Len(a) => b = a
  OBVIOUS
<1> HIDE DEF b
<1> QED
  BY <1>1, <1>2 DEF b, IsInjective, ToSet

\* A sequence is at least as long as it has elements.
LEMMA EnoughPlaces ==
  ASSUME NEW a \in Seq(Files)
  PROVE  Cardinality(ToSet(a)) <= Len(a)
<1>1. a \in Surjection(1..Len(a), ToSet(a))
  BY DEF Surjection, ToSet
<1>2. Len(a) \in Nat
  OBVIOUS
<1>3. IsFiniteSet(1..Len(a)) /\ Cardinality(1..Len(a)) = Len(a)
  BY <1>2, FS_Interval
<1>4. Cardinality(ToSet(a)) <= Cardinality(1..Len(a))
  BY <1>1, <1>3, FS_Surjection
<1> QED
  BY <1>3, <1>4

\* How the search goes on, without the cases.
Listed(reach, all, met) ==
    /\ all \in Seq(Files) /\ IsInjective(all) /\ Len(all) <= limits.records
    /\ ToSet(all) \subseteq ToSet(found) \cup Present
    /\ met = None => ToSet(all) = ToSet(found) \cup Present

LEMMA ListedIs ==
  ASSUME FleetInv, pc \in {"top", "sub"}, NEW reach, NEW all, NEW room, NEW met,
         reach = InOrder(IF pc = "top" /\ limits.depth = 0 THEN BeforeSub ELSE Present),
         room = limits.records - Len(found),
         all = found \o SubSeq(reach, 1, IF Len(reach) < room THEN Len(reach) ELSE room),
         met = None => Len(reach) <= room /\ ~(pc = "top" /\ limits.depth = 0)
  PROVE  Listed(reach, all, met)
<1> DEFINE S == IF pc = "top" /\ limits.depth = 0 THEN BeforeSub ELSE Present
           m == IF Len(reach) < room THEN Len(reach) ELSE room
           first == SubSeq(reach, 1, m)
<1>1. S \subseteq Present /\ Present \subseteq Files
  BY DEF BeforeSub, Present
<1>2. S \subseteq Files
  BY <1>1
<1>3. /\ reach \in Seq(Files) /\ Len(reach) = Cardinality(S) /\ Cardinality(S) \in Nat
      /\ ToSet(reach) = S /\ IsInjective(reach)
  BY <1>2, InOrderIs
<1>4. limits.records \in Nat /\ found \in Seq(Files) /\ IsInjective(found) /\ Len(found) \in Nat
      /\ Len(found) <= limits.records
  BY LimitsTyped DEF FleetInv, FleetTyped
<1>5. m \in 0..Len(reach) /\ m <= room /\ room \in Nat
  BY <1>3, <1>4
<1>6. /\ first \in Seq(Files) /\ IsInjective(first) /\ Len(first) = m
      /\ ToSet(first) \subseteq S /\ (m = Len(reach) => first = reach)
  <2> HIDE DEF m, S
  <2> QED
    BY <1>3, <1>5, FirstIs
<1>7. ToSet(found) \cap S = {}
  <2>1. CASE pc = "top"
    <3>1. found = <<>>
      BY <2>1 DEF FleetInv, Searched
    <3> QED
      BY <3>1 DEF ToSet
  <2>2. CASE pc = "sub"
    <3>1. Present \subseteq Sub /\ ToSet(found) \cap Sub = {}
      BY <2>2 DEF Present, FleetInv, Searched
    <3> QED
      BY <1>1, <3>1
  <2> QED
    BY <2>1, <2>2
<1>8. all = found \o first
  OBVIOUS
<1> HIDE DEF first, S
<1>9. /\ all \in Seq(Files) /\ IsInjective(all) /\ Len(all) = Len(found) + Len(first)
      /\ ToSet(all) = ToSet(found) \cup ToSet(first)
  <2>1. ToSet(found) \cap ToSet(first) = {}
    BY <1>6, <1>7
  <2> QED
    BY <1>4, <1>6, <1>8, <2>1, JoinIs
<1>10. Len(all) <= limits.records
  BY <1>4, <1>5, <1>6, <1>9
<1>11. ASSUME met = None PROVE ToSet(first) = Present
  <2>1. S = Present /\ Len(reach) <= room
    BY <1>11 DEF S
  <2>2. m = Len(reach)
    BY <1>3, <1>5, <2>1
  <2> QED
    BY <1>3, <1>6, <2>1, <2>2
<1> QED
  BY <1>1, <1>6, <1>9, <1>10, <1>11 DEF Listed

LEMMA ListDirectoryInv == ASSUME FleetInv, ListDirectory PROVE FleetInv'
<1> DEFINE deep == pc = "top" /\ limits.depth = 0
           reach == InOrder(IF pc = "top" /\ limits.depth = 0 THEN BeforeSub ELSE Present)
           room == limits.records - Len(found)
           entries == Cardinality(Present) + IF pc = "top" THEN 1 ELSE 0
           all == found \o SubSeq(reach, 1, IF Len(reach) < room THEN Len(reach) ELSE room)
           met == limit'
<1>1. /\ pc \in {"top", "sub"}
      /\ met = IF consumed + entries > limits.entries THEN "directory_entries"
               ELSE IF Len(reach) > room THEN "artifact_paths"
               ELSE IF deep THEN "nesting_depth" ELSE None
      /\ consumed' = IF met = "directory_entries" THEN limits.entries ELSE consumed + entries
      /\ pc' = IF pc = "top" /\ met = None THEN "sub" ELSE "look"
      /\ found' = CASE met = "directory_entries" -> found
                    [] pc = "sub" /\ met = None -> InOrder(ToSet(all))
                    [] OTHER -> all
  BY Zenon DEF ListDirectory
<1>2. /\ mode' = mode /\ limits' = limits /\ disk' = disk /\ at' = at /\ size' = size
      /\ bytes' = bytes /\ readLimit' = readLimit /\ failed' = failed /\ taken' = taken
      /\ kept' = kept /\ steady' = steady
  BY DEF ListDirectory, call
<1>3. /\ limits \in Limits /\ limits.entries \in Nat /\ limits.records \in Nat
      /\ consumed \in 0..limits.entries
  BY LimitsTyped DEF FleetInv, FleetTyped
<1>4. Present \subseteq Files /\ Cardinality(Present) \in Nat /\ entries \in Nat
  <2>1. Present \subseteq Files
    BY DEF Present
  <2> QED
    BY <2>1, InOrderIs
<1>5. met = None => Len(reach) <= room /\ ~deep
  <2>1. Len(reach) \in Nat /\ room \in Int
    <3>1. (IF pc = "top" /\ limits.depth = 0 THEN BeforeSub ELSE Present) \subseteq Files
      BY DEF BeforeSub, Present
    <3>2. Len(reach) \in Nat
      BY <3>1, InOrderIs
    <3> QED
      BY <1>3, <3>2 DEF FleetInv, FleetTyped
  <2> HIDE DEF reach, room, deep, entries
  <2>2. met = None => ~(Len(reach) > room) /\ ~deep
    BY <1>1 DEF None
  <2> QED
    BY <2>1, <2>2
<1>6. Listed(reach, all, met)
  <2> HIDE DEF met
  <2>1. PICK r, n, o : r = room /\ n = reach /\ o = all
    OBVIOUS
  <2> QED
    BY <1>1, <1>5, ListedIs
<1>7. met = None => consumed + entries <= limits.entries
  <2> HIDE DEF entries, reach, room, deep
  <2>1. met = None => ~(consumed + entries > limits.entries)
    BY <1>1 DEF None
  <2> QED
    BY <1>3, <1>4, <2>1
<1>8. consumed' \in 0..limits.entries
  <2> HIDE DEF entries, reach, room, deep
  <2>1. CASE consumed + entries > limits.entries
    <3>1. met = "directory_entries"
      BY <1>1, <2>1, Zenon
    <3> QED
      BY <1>1, <1>3, <3>1
  <2>2. CASE ~(consumed + entries > limits.entries)
    <3>1. consumed' = limits.entries \/ consumed' = consumed + entries
      BY <1>1, Zenon
    <3> QED
      BY <1>3, <1>4, <2>2, <3>1
  <2> QED
    BY <2>1, <2>2
<1> HIDE DEF deep, reach, room, entries
<1>9. /\ found' \in Seq(Files) /\ IsInjective(found') /\ Len(found') <= limits.records
      /\ met = None => ToSet(found') = ToSet(found) \cup Present
  <2>1. CASE met = "directory_entries"
    <3>1. found' = found /\ met # None
      BY <1>1, <2>1 DEF None
    <3> QED
      BY <3>1 DEF FleetInv, FleetTyped
  <2>2. CASE met # "directory_entries" /\ pc = "sub" /\ met = None
    <3>1. found' = InOrder(ToSet(all))
      BY <1>1, <2>2
    <3>2. ToSet(all) \subseteq Files
      BY <1>6 DEF Listed, ToSet
    <3>3. Cardinality(ToSet(all)) <= Len(all)
      BY <1>6, EnoughPlaces DEF Listed
    <3> HIDE DEF all
    <3>4. /\ found' \in Seq(Files) /\ IsInjective(found') /\ ToSet(found') = ToSet(all)
          /\ Len(found') = Cardinality(ToSet(all)) /\ Cardinality(ToSet(all)) \in Nat
      BY <3>1, <3>2, InOrderIs
    <3>5. Len(found') <= limits.records
      <4>1. Len(all) \in Nat
        BY <1>6 DEF Listed
      <4> QED
        BY <1>3, <1>6, <3>3, <3>4, <4>1 DEF Listed
    <3> QED
      BY <1>6, <3>4, <3>5 DEF Listed
  <2>3. CASE met # "directory_entries" /\ ~(pc = "sub" /\ met = None)
    <3>1. found' = all
      BY <1>1, <2>3
    <3> QED
      BY <1>6, <3>1 DEF Listed
  <2> QED
    BY <2>1, <2>2, <2>3
<1>10. at = 1 /\ pc' \in {"sub", "look"} /\ Len(found') \in Nat
  BY <1>1, <1>9 DEF FleetInv, Reached
<1>11. FleetTyped'
  <2>1. at' \in 1..Len(found') + 1
    BY <1>2, <1>10
  <2> QED
    BY <1>2, <1>8, <1>9, <1>10, <2>1 DEF FleetInv, FleetTyped
<1>12. Searched'
  <2>1. steady \subseteq {f \in Files : disk[f] # Gone}
    BY DEF FleetInv, FleetTyped
  <2>2. CASE pc' = "sub"
    <3>1. pc = "top" /\ met = None /\ found = <<>>
      BY <1>1, <2>2 DEF FleetInv, Searched
    <3>2. ToSet(found') = Present /\ Present \cap Sub = {} /\ steady \subseteq Sub \cup Present
      BY <1>9, <2>1, <3>1 DEF ToSet, Present
    <3> QED
      BY <1>2, <2>2, <3>2 DEF Searched
  <2>3. CASE pc' = "look"
    <3>1. ASSUME met = None PROVE steady \subseteq ToSet(found')
      <4>1. pc = "sub"
        BY <1>1, <2>3, <3>1
      <4>2. steady \subseteq Sub \cup ToSet(found) /\ steady \cap Sub \subseteq Present
        BY <2>1, <4>1 DEF FleetInv, Searched, Present
      <4> QED
        BY <1>9, <3>1, <4>2
    <3> QED
      BY <1>2, <2>3, <3>1 DEF Searched
  <2> QED
    BY <1>10, <2>2, <2>3
<1>13. Reached'
  <2>1. DOMAIN taken = {}
    BY <1>10 DEF FleetInv, Reached
  <2> QED
    BY <1>2, <1>10, <2>1 DEF Reached
<1>14. ReadTruly'
  BY <1>1, <1>2 DEF FleetInv, ReadTruly
<1>15. WithinEvents'
  BY <1>2 DEF FleetInv, WithinEvents, KeptEvents
<1> QED
  BY <1>11, <1>12, <1>13, <1>14, <1>15 DEF FleetInv

LEMMA LookInv == ASSUME FleetInv, Look PROVE FleetInv'
<1>1. /\ mode' = mode /\ limits' = limits /\ disk' = disk /\ at' = at /\ consumed' = consumed
      /\ found' = found /\ limit' = limit /\ bytes' = bytes /\ taken' = taken /\ kept' = kept
      /\ steady' = steady /\ pc = "look"
  BY DEF Look, call
<1>2. \/ at > Len(found) /\ pc' = "done" /\ failed' = failed
      \/ /\ ~(at > Len(found)) /\ failed' \in BOOLEAN
         /\ readLimit' = IF Len(disk[found[at]]) > limits.file THEN "individual_file_bytes"
                         ELSE IF bytes + Len(disk[found[at]]) > limits.read THEN "aggregate_read_bytes"
                         ELSE None
         /\ IF failed' \/ readLimit' # None THEN pc' = "done" ELSE pc' = "read"
  <2>1. CASE at > Len(found)
    BY <2>1 DEF Look, Stop
  <2>2. CASE ~(at > Len(found))
    <3>1. failed' = (Len(disk[found[at]]) = 0)
      BY <2>2, Zenon DEF Look
    <3>2. failed' \in BOOLEAN
      BY <3>1, Zenon
    <3> QED
      BY <2>2, <3>2, Zenon DEF Look, Stop
  <2> QED
    BY <2>1, <2>2
<1>3. at \in 1..Len(found) + 1 /\ Len(found) \in Nat /\ failed \in BOOLEAN
  BY DEF FleetInv, FleetTyped
<1>4. pc' \in {"read", "done"} /\ failed' \in BOOLEAN
  BY <1>2, <1>3
<1>5. pc' = "done" => at = Len(found) + 1 \/ failed' \/ readLimit' # None
  <2>1. CASE at > Len(found)
    BY <1>3, <2>1
  <2>2. CASE ~(at > Len(found))
    <3>1. IF failed' \/ readLimit' # None THEN pc' = "done" ELSE pc' = "read"
      BY <1>2, <2>2, Zenon
    <3> QED
      BY <1>4, <3>1
  <2> QED
    BY <2>1, <2>2
<1>6. ASSUME pc' = "read"
      PROVE  at <= Len(found) /\ (found[at] \in steady => Len(disk[found[at]]) <= limits.file)
  <2>1. ~(at > Len(found)) /\ readLimit' = None
    BY <1>2, <1>6
  <2>2. ~(Len(disk[found[at]]) > limits.file)
    <3>1. ASSUME Len(disk[found[at]]) > limits.file PROVE readLimit' = "individual_file_bytes"
      BY <1>2, <2>1, <3>1, Zenon
    <3> QED
      BY <2>1, <3>1 DEF None
  <2>3. at <= Len(found)
    BY <1>3, <2>1
  <2>4. Len(disk[found[at]]) \in Nat /\ limits.file \in Nat
    <3>1. found[at] \in Files /\ FileOK(mode, disk[found[at]]) /\ limits \in Limits
      BY <1>3, <2>3 DEF FleetInv, FleetTyped
    <3>2. Len(disk[found[at]]) \in Nat
      BY <3>1 DEF FileOK, Ledger
    <3> QED
      BY <3>1, <3>2, LimitsTyped
  <2> QED
    BY <2>2, <2>3, <2>4
<1>7. FleetTyped'
  BY <1>1, <1>4 DEF FleetInv, FleetTyped
<1>8. Searched'
  BY <1>1, <1>4 DEF FleetInv, Searched
<1>9. Reached'
  BY <1>1, <1>4, <1>5, <1>6 DEF FleetInv, Reached
<1>10. ReadTruly'
  BY <1>1 DEF FleetInv, ReadTruly
<1>11. WithinEvents'
  BY <1>1 DEF FleetInv, WithinEvents, KeptEvents
<1> QED
  BY <1>7, <1>8, <1>9, <1>10, <1>11 DEF FleetInv

\* The file that is read was not read before.
LEMMA ReadingIs ==
  ASSUME FleetInv, pc = "read"
  PROVE  /\ at \in 1..Len(found) /\ Len(found) \in Nat /\ found[at] \in Files
         /\ found[at] \notin DOMAIN taken /\ FileOK(mode, disk[found[at]])
         /\ {found[i] : i \in 1..at} = DOMAIN taken \cup {found[at]}
<1>1. at \in 1..Len(found) + 1 /\ Len(found) \in Nat /\ at <= Len(found)
      /\ found \in Seq(Files) /\ IsInjective(found)
      /\ DOMAIN taken = {found[i] : i \in 1..at - 1} /\ \A f \in Files : FileOK(mode, disk[f])
  BY DEF FleetInv, FleetTyped, Reached
<1>2. at \in 1..Len(found) /\ found[at] \in Files
  BY <1>1
<1>3. found[at] \notin DOMAIN taken
  <2>1. ASSUME NEW i \in 1..at - 1 PROVE found[i] # found[at]
    <3>1. i \in DOMAIN found /\ at \in DOMAIN found /\ i # at
      BY <1>1, <1>2
    <3> QED
      BY <1>1, <3>1 DEF IsInjective
  <2> QED
    BY <1>1, <2>1
<1>4. 1..at = (1..at - 1) \cup {at}
  BY <1>2
<1> QED
  BY <1>1, <1>2, <1>3, <1>4

LEMMA ReadLedgerInv == ASSUME FleetInv, ReadLedger PROVE FleetInv'
<1> DEFINE file == found[at]
           lines == disk[file]
           events == Kept(lines, Room)
           more == events # Valid(lines)
<1>1. /\ mode' = mode /\ limits' = limits /\ disk' = disk /\ at' = at + 1 /\ consumed' = consumed
      /\ found' = found /\ limit' = limit /\ failed' = failed /\ steady' = steady
      /\ pc = "read" /\ mode = "ledgers"
      /\ taken' = With(taken, file, lines) /\ kept' = With(kept, file, events)
  BY DEF ReadLedger, call
<1>2. /\ readLimit' = IF more THEN "events" ELSE None
      /\ pc' = IF more THEN "done" ELSE "look"
  BY Zenon DEF ReadLedger
<1>3. /\ at \in 1..Len(found) /\ Len(found) \in Nat /\ file \in Files
      /\ file \notin DOMAIN taken /\ FileOK(mode, lines)
      /\ {found[i] : i \in 1..at} = DOMAIN taken \cup {file}
  BY <1>1, ReadingIs
<1>4. Ledger(lines) /\ DOMAIN kept = DOMAIN taken
  BY <1>1, <1>3 DEF FileOK, FleetInv, ReadTruly
<1>5. Room \in Nat /\ limits.events \in Nat
  <2>1. limits \in Limits /\ WithinEvents
    BY DEF FleetInv, FleetTyped
  <2>2. Cardinality(KeptEvents) \in Nat /\ Cardinality(KeptEvents) <= limits.events
    BY <2>1, FS_CardinalityType DEF WithinEvents
  <2> QED
    BY <2>1, <2>2, LimitsTyped DEF Room
<1>6. IsFiniteSet(events) /\ Cardinality(events) <= Room
  BY <1>4, <1>5, KeptIs
<1>7. /\ DOMAIN taken' = DOMAIN taken \cup {file} /\ taken'[file] = lines
      /\ \A f \in DOMAIN taken : taken'[f] = taken[f]
  <2> HIDE DEF lines
  <2> QED
    BY <1>1, <1>3 DEF With
<1>8. /\ DOMAIN kept' = DOMAIN kept \cup {file} /\ kept'[file] = events
      /\ \A f \in DOMAIN kept : kept'[f] = kept[f]
  <2> HIDE DEF events
  <2> QED
    BY <1>1, <1>3, <1>4 DEF With
<1>9. (more /\ readLimit' # None /\ pc' = "done") \/ (~more /\ pc' = "look")
  <2> HIDE DEF more
  <2> QED
    BY <1>2 DEF None
<1>10. FleetTyped'
  <2>1. at + 1 \in 1..Len(found) + 1
    BY <1>3
  <2> QED
    BY <1>1, <1>9, <2>1 DEF FleetInv, FleetTyped
<1>11. Searched'
  <2>1. limit = None => steady \subseteq ToSet(found)
    BY <1>1 DEF FleetInv, Searched
  <2> QED
    BY <1>1, <1>9, <2>1 DEF Searched
<1>12. Reached'
  <2>1. at + 1 - 1 = at
    BY <1>3
  <2>2. DOMAIN taken' = {found'[i] : i \in 1..at' - 1}
    BY <1>1, <1>3, <1>7, <2>1
  <2> QED
    BY <1>9, <2>2 DEF Reached
<1>13. ReadTruly'
  <2>1. ASSUME NEW f \in DOMAIN taken'
        PROVE  FileOK(mode, taken'[f]) /\ (f \in steady => taken'[f] = disk[f])
    <3>1. CASE f = file
      BY <1>3, <1>7, <3>1
    <3>2. CASE f \in DOMAIN taken
      BY <1>7, <3>2 DEF FleetInv, ReadTruly
    <3> QED
      BY <1>7, <2>1, <3>1, <3>2
  <2>2. DOMAIN kept' = DOMAIN taken'
    BY <1>4, <1>7, <1>8
  <2>3. ASSUME NEW f \in DOMAIN kept' PROVE \E room \in Int : kept'[f] = Kept(taken'[f], room)
    <3>1. CASE f = file
      <4>1. kept'[f] = Kept(taken'[f], Room) /\ Room \in Int
        BY <1>5, <1>7, <1>8, <3>1
      <4> QED
        BY <4>1
    <3>2. CASE f \in DOMAIN kept
      <4>1. \E room \in Int : kept[f] = Kept(taken[f], room)
        BY <3>2 DEF FleetInv, ReadTruly
      <4>2. kept'[f] = kept[f] /\ taken'[f] = taken[f]
        BY <1>4, <1>7, <1>8, <3>2
      <4> QED
        BY <4>1, <4>2
    <3> QED
      BY <1>8, <2>3, <3>1, <3>2
  <2>4. (\A f \in DOMAIN kept' : kept'[f] = Valid(taken'[f])) \/ (pc' = "done" /\ readLimit' # None)
    <3>1. \A f \in DOMAIN kept : kept[f] = Valid(taken[f])
      BY <1>1 DEF FleetInv, ReadTruly
    <3>2. CASE ~more
      <4>1. kept'[file] = Valid(taken'[file])
        BY <1>7, <1>8, <3>2
      <4>2. \A f \in DOMAIN kept : kept'[f] = Valid(taken'[f])
        BY <1>4, <1>7, <1>8, <3>1
      <4> QED
        BY <1>8, <4>1, <4>2
    <3>3. CASE more
      BY <1>9, <3>3
    <3> QED
      BY <3>2, <3>3
  <2> QED
    BY <1>1, <2>1, <2>2, <2>3, <2>4 DEF ReadTruly
<1>14. WithinEvents'
  <2>1. WithinEvents /\ file \notin DOMAIN kept
    BY <1>3, <1>4 DEF FleetInv
  <2> HIDE DEF file, events
  <2> QED
    BY <1>1, <1>5, <1>6, <2>1, KeptEventsNext
<1> QED
  BY <1>10, <1>11, <1>12, <1>13, <1>14 DEF FleetInv

LEMMA ReadFailsInv == ASSUME FleetInv, ReadFails PROVE FleetInv'
<1>1. /\ mode' = mode /\ limits' = limits /\ disk' = disk /\ at' = at /\ consumed' = consumed
      /\ found' = found /\ limit' = limit /\ taken' = taken /\ kept' = kept /\ readLimit' = readLimit
      /\ steady' = steady /\ pc = "read" /\ pc' = "done" /\ failed' = TRUE
  BY DEF ReadFails, Stop, call
<1>2. FleetTyped'
  BY <1>1 DEF FleetInv, FleetTyped
<1>3. Searched'
  BY <1>1 DEF FleetInv, Searched
<1>4. Reached'
  BY <1>1 DEF FleetInv, Reached
<1>5. ReadTruly'
  BY <1>1 DEF FleetInv, ReadTruly
<1>6. WithinEvents'
  BY <1>1 DEF FleetInv, WithinEvents, KeptEvents
<1> QED
  BY <1>2, <1>3, <1>4, <1>5, <1>6 DEF FleetInv

LEMMA ReadReportInv == ASSUME FleetInv, ReadReport PROVE FleetInv'
<1> DEFINE file == found[at]
           lines == disk[file]
           unreadable == lines = Gone \/ Len(lines) > limits.file
           said == IF unreadable THEN <<"broken">> ELSE lines
<1>1. /\ mode' = mode /\ limits' = limits /\ disk' = disk /\ at' = at + 1 /\ consumed' = consumed
      /\ found' = found /\ limit' = limit /\ failed' = failed /\ steady' = steady /\ kept' = kept
      /\ readLimit' = readLimit /\ pc = "read" /\ pc' = "look" /\ mode = "reports"
      /\ taken' = With(taken, file, said)
  BY Zenon DEF ReadReport, call
<1>2. /\ at \in 1..Len(found) /\ Len(found) \in Nat /\ file \in Files
      /\ file \notin DOMAIN taken /\ FileOK(mode, lines)
      /\ {found[i] : i \in 1..at} = DOMAIN taken \cup {file}
  BY <1>1, ReadingIs
<1>3. FileOK(mode, said)
  <2>1. lines \in Seq(Says \cup {"filling"})
    BY <1>1, <1>2 DEF FileOK
  <2>2. <<"broken">> \in Seq(Says \cup {"filling"})
    BY DEF Says
  <2> HIDE DEF lines
  <2>3. said \in Seq(Says \cup {"filling"})
    BY <2>1, <2>2
  <2> QED
    BY <1>1, <2>3 DEF FileOK
<1>4. file \in steady => said = lines
  <2>1. file \in steady => lines # Gone /\ Len(lines) <= limits.file
    BY <1>1 DEF FleetInv, FleetTyped, Reached
  <2>2. Len(lines) \in Nat /\ limits.file \in Nat
    <3>1. limits.file \in Nat
      BY LimitsTyped DEF FleetInv, FleetTyped
    <3> QED
      BY <1>1, <1>2, <3>1 DEF FileOK
  <2> HIDE DEF lines
  <2>3. file \in steady => ~unreadable
    BY <2>1, <2>2
  <2> QED
    BY <2>3
<1>5. /\ DOMAIN taken' = DOMAIN taken \cup {file} /\ taken'[file] = said
      /\ \A f \in DOMAIN taken : taken'[f] = taken[f]
  <2> HIDE DEF said
  <2> QED
    BY <1>1, <1>2 DEF With
<1> HIDE DEF said
<1>6. FleetTyped'
  <2>1. at + 1 \in 1..Len(found) + 1
    BY <1>2
  <2> QED
    BY <1>1, <2>1 DEF FleetInv, FleetTyped
<1>7. Searched'
  <2>1. limit = None => steady \subseteq ToSet(found)
    BY <1>1 DEF FleetInv, Searched
  <2> QED
    BY <1>1, <2>1 DEF Searched
<1>8. Reached'
  <2>1. at + 1 - 1 = at
    BY <1>2
  <2>2. DOMAIN taken' = {found'[i] : i \in 1..at' - 1}
    BY <1>1, <1>2, <1>5, <2>1
  <2> QED
    BY <1>1, <2>2 DEF Reached
<1>9. ReadTruly'
  <2>1. ASSUME NEW f \in DOMAIN taken'
        PROVE  FileOK(mode, taken'[f]) /\ (f \in steady => taken'[f] = disk[f])
    <3>1. CASE f = file
      BY <1>3, <1>4, <1>5, <3>1
    <3>2. CASE f \in DOMAIN taken
      BY <1>5, <3>2 DEF FleetInv, ReadTruly
    <3> QED
      BY <1>5, <2>1, <3>1, <3>2
  <2>2. DOMAIN kept = {}
    BY <1>1 DEF FleetInv, ReadTruly
  <2> QED
    BY <1>1, <2>1, <2>2 DEF ReadTruly
<1>10. WithinEvents'
  BY <1>1 DEF FleetInv, WithinEvents, KeptEvents
<1> QED
  BY <1>6, <1>7, <1>8, <1>9, <1>10 DEF FleetInv

LEMMA FleetStepInv == ASSUME FleetInv, [FleetNext]_fleetVars PROVE FleetInv'
<1>1. CASE UNCHANGED fleetVars
  <2>1. /\ mode' = mode /\ limits' = limits /\ disk' = disk /\ pc' = pc /\ at' = at
        /\ consumed' = consumed /\ found' = found /\ limit' = limit /\ taken' = taken /\ kept' = kept
        /\ readLimit' = readLimit /\ failed' = failed /\ steady' = steady
    BY <1>1 DEF fleetVars, call
  <2>2. FleetTyped' /\ Searched'
    BY <2>1 DEF FleetInv, FleetTyped, Searched
  <2>3. Reached'
    BY <2>1 DEF FleetInv, Reached
  <2>4. ReadTruly'
    BY <2>1 DEF FleetInv, ReadTruly
  <2>5. WithinEvents'
    BY <2>1 DEF FleetInv, WithinEvents, KeptEvents
  <2> QED
    BY <2>2, <2>3, <2>4, <2>5 DEF FleetInv
<1> QED
  BY <1>1, ListDirectoryInv, LookInv, ReadLedgerInv, ReadFailsInv, ReadReportInv, OthersInv
  DEF FleetNext

-----------------------------------------------------------------------------
(* What the invariant says of a summary *)

LEMMA FleetTypes == ASSUME FleetInv PROVE FleetTypeOK
<1>1. DOMAIN taken \subseteq ToSet(found)
  <2>1. DOMAIN taken = {found[i] : i \in 1..at - 1} /\ at \in 1..Len(found) + 1 /\ Len(found) \in Nat
        /\ found \in Seq(Files)
    BY DEF FleetInv, FleetTyped, Reached
  <2>2. \A i \in 1..at - 1 : i \in DOMAIN found
    BY <2>1
  <2> QED
    BY <2>1, <2>2 DEF ToSet
<1>2. DOMAIN kept \subseteq DOMAIN taken
  BY DEF FleetInv, ReadTruly
<1>3. Room \in 0..limits.events
  <2>1. limits.events \in Nat
    BY LimitsTyped DEF FleetInv, FleetTyped
  <2>2. Cardinality(KeptEvents) \in Nat /\ Cardinality(KeptEvents) <= limits.events
    BY FS_CardinalityType DEF FleetInv, WithinEvents
  <2> QED
    BY <2>1, <2>2 DEF Room
<1>4. consumed <= limits.entries
  <2>1. limits.entries \in Nat /\ consumed \in 0..limits.entries
    BY LimitsTyped DEF FleetInv, FleetTyped
  <2> QED
    BY <2>1
<1> QED
  BY <1>1, <1>2, <1>3, <1>4 DEF FleetInv, FleetTyped, FleetTypeOK

LEMMA CompleteIsWhole == ASSUME FleetInv PROVE CompleteMissesNothing
<1> SUFFICES ASSUME pc = "done", Complete, NEW f \in steady
             PROVE  /\ f \in DOMAIN taken
                    /\ IF mode = "ledgers" THEN kept[f] = Valid(disk[f]) ELSE f \in Counted(disk[f][1])
  BY DEF CompleteMissesNothing
<1>1. f \in DOMAIN taken
  <2>1. f \in ToSet(found)
    BY DEF FleetInv, Searched, Complete
  <2>2. at = Len(found) + 1 /\ Len(found) \in Nat /\ DOMAIN found = 1..Len(found)
    BY DEF FleetInv, Reached, FleetTyped, Complete
  <2>3. at - 1 = Len(found)
    BY <2>2
  <2> QED
    BY <2>1, <2>2, <2>3 DEF FleetInv, Reached, ToSet
<1>2. taken[f] = disk[f] /\ disk[f] # Gone
  BY <1>1 DEF FleetInv, ReadTruly, FleetTyped
<1>3. CASE mode = "ledgers"
  <2>1. f \in DOMAIN kept
    BY <1>1, <1>3 DEF FleetInv, ReadTruly
  <2>2. kept[f] = Valid(taken[f])
    BY <2>1 DEF FleetInv, ReadTruly, Complete
  <2> QED
    BY <1>1, <1>2, <1>3, <2>2
<1>4. CASE mode # "ledgers"
  <2>1. f \in Counted(disk[f][1])
    BY <1>1, <1>2 DEF Counted
  <2> QED
    BY <1>1, <1>4, <2>1
<1> QED
  BY <1>3, <1>4

LEMMA MissingAreMissing == ASSUME FleetInv PROVE MissingIsMissing
<1> SUFFICES ASSUME NEW f \in DOMAIN kept, NEW i \in MissingParents(f) PROVE taken[f][i] = Torn
  BY DEF MissingIsMissing
<1>1. Ledger(taken[f])
  <2>1. mode = "ledgers" /\ f \in DOMAIN taken
    BY DEF FleetInv, ReadTruly
  <2> QED
    BY <2>1 DEF FleetInv, ReadTruly, FileOK
<1>2. PICK room \in Int : kept[f] = Kept(taken[f], room)
  BY DEF FleetInv, ReadTruly
<1>3. PICK k \in kept[f] : i = taken[f][k]
  BY DEF MissingParents
<1>4. i \notin kept[f] /\ i # 0
  BY DEF MissingParents
<1>5. kept[f] \subseteq Valid(taken[f])
      /\ \A a \in kept[f], b \in Valid(taken[f]) : b < a => b \in kept[f]
  BY <1>1, <1>2, KeptIs
<1>6. k \in DOMAIN taken[f] /\ taken[f][k] # Torn
  BY <1>3, <1>5 DEF Valid
<1>7. i \in DOMAIN taken[f] /\ i < k
  <2>1. taken[f] \in Seq(0..Torn) /\ i < k /\ Torn \in Nat
    BY <1>1, <1>3, <1>6, FleetAssumption DEF Ledger, Torn
  <2>2. i \in 0..Torn /\ k \in 1..Len(taken[f]) /\ Len(taken[f]) \in Nat
    BY <1>3, <1>6, <2>1
  <2> QED
    BY <1>4, <2>1, <2>2
<1>8. i \notin Valid(taken[f])
  BY <1>3, <1>4, <1>5, <1>7
<1> QED
  BY <1>7, <1>8 DEF Valid

\* A summary that calls itself complete counts every file that was there all
\* the time with what it says, and every event of it, and no summary reports
\* a parent as missing that is in its ledger (fleet.py), for any files, limits
\* and changes by others.
THEOREM SummariesStayTrue == FleetSpec => []SummaryIsTrue
<1>1. FleetInit => FleetInv
  BY FleetInitInv
<1>2. FleetInv /\ [FleetNext]_fleetVars => FleetInv'
  BY FleetStepInv
<1>3. FleetInv => SummaryIsTrue
  BY FleetTypes, CompleteIsWhole, MissingAreMissing DEF SummaryIsTrue
<1> QED
  BY <1>1, <1>2, <1>3, PTL DEF FleetSpec
=============================================================================
