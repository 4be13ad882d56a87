---------------------------- MODULE ReviewProofs ----------------------------
(***************************************************************************)
(* Theorems about ChangeReview, for any requests, changes, packets, policy *)
(* files, permissions and number of edits made by others during a review.  *)
(***************************************************************************)
EXTENDS ChangeReview, SequenceTheorems, WellFoundedInduction, TLAPS

-----------------------------------------------------------------------------
(* Findings that no later stage of a review takes away *)

\* No permission is for it and no policy ignores it.
Stays(f) ==
    /\ f.id \notin Suppressible
    /\ \A l \in Ledgers : \A e \in l.entries : ~Permits(e, f)

Fatal(f) == f.sev = "error" /\ Stays(f)

LEMMA OtherIdsStay == ASSUME NEW f, f.id \notin Overridable PROVE Stays(f)
<1>1. "new_file" \in Overridable
  BY DEF Overridable
<1> QED
  BY <1>1 DEF Stays, Suppressible, Permits

LEMMA ErrorsFail ==
  ASSUME NEW S, NEW f \in S, f.sev = "error"
  PROVE  VerdictOf(S) = "FAIL"
BY DEF VerdictOf

LEMMA WarningsDoNotPass ==
  ASSUME NEW S, NEW f \in S, f.sev \in {"error", "warn"}
  PROVE  VerdictOf(S) # "PASS"
BY DEF VerdictOf

LEMMA VerdictTyped == \A S : VerdictOf(S) \in {"PASS", "WARN", "FAIL"}
BY DEF VerdictOf

\* What is known of one error or warning that the code makes.
LEMMA ErrorIs ==
  ASSUME NEW id, NEW cat, NEW path, NEW evidence
  PROVE  /\ Error(id, cat, path, evidence).id = id
         /\ Error(id, cat, path, evidence).sev = "error"
         /\ Warn(id, cat, path, evidence).id = id
         /\ Warn(id, cat, path, evidence).sev = "warn"
BY DEF Error, Warn, Finding

LEMMA UnresolvedIsFatal == Fatal(Unresolved)
<1>1. Unresolved.id = "policy_resolution_failed" /\ Unresolved.sev = "error"
  BY ErrorIs DEF Unresolved
<1>2. "policy_resolution_failed" \notin Overridable
  BY DEF Overridable
<1> QED
  BY <1>1, <1>2, OtherIdsStay DEF Fatal

LEMMA FailingIsFatal ==
  ASSUME NEW id, NEW cat, id \notin Overridable
  PROVE  /\ Failing(id, cat).verdict = "FAIL" /\ Failing(id, cat).complete = TRUE
         /\ Failing(id, cat).policy = FALSE
         /\ Failing(id, cat).overrides = {} /\ Failing(id, cat).ignored = {}
         /\ Failing(id, cat).verdict = VerdictOf(Failing(id, cat).findings)
         /\ \E f \in Failing(id, cat).findings : Fatal(f)
<1> DEFINE e == Error(id, cat, NoPath, NoPath)
<1>1. Fatal(e)
  BY ErrorIs, OtherIdsStay DEF Fatal
<1>2. VerdictOf({e}) = "FAIL"
  BY ErrorIs, ErrorsFail
<1> QED
  BY <1>1, <1>2 DEF Failing, Report

-----------------------------------------------------------------------------
(* What each stage does to a report *)

IsReport(r) ==
    r \in [findings : {r.findings}, verdict : {VerdictOf(r.findings)}, complete : BOOLEAN,
           policy : BOOLEAN, overrides : {r.overrides}, ignored : {r.ignored}]

LEMMA RebuiltIs ==
  ASSUME NEW r, NEW S, IsReport(r)
  PROVE  /\ IsReport(Rebuilt(r, S))
         /\ Rebuilt(r, S).findings = S
         /\ Rebuilt(r, S).complete = r.complete /\ Rebuilt(r, S).policy = r.policy
         /\ Rebuilt(r, S).overrides = r.overrides /\ Rebuilt(r, S).ignored = r.ignored
BY DEF Rebuilt, IsReport

LEMMA ReportIs ==
  ASSUME NEW S
  PROVE  /\ IsReport(Report(S)) /\ Report(S).findings = S /\ Report(S).complete = TRUE
         /\ Report(S).policy = FALSE /\ Report(S).overrides = {} /\ Report(S).ignored = {}
BY DEF Report, IsReport

LEMMA WithRulesIs ==
  ASSUME NEW r, NEW known, NEW change, IsReport(r), ~r.policy
  PROVE  LET after == WithRules(r, known, change)
         IN  /\ IsReport(after) /\ after.policy = TRUE /\ after.complete = r.complete
             /\ after.overrides = r.overrides /\ after.ignored = r.ignored
             /\ r.findings \subseteq after.findings
             /\ ~Passes(result) => Unresolved \in after.findings
             /\ Passes(result) => RuleFindings(packet, known, change, result) \subseteq after.findings
<1> DEFINE found == IF ~Passes(result) THEN {Unresolved}
                    ELSE RuleFindings(packet, known, change, result)
           base == IF found = {} THEN r ELSE Rebuilt(r, r.findings \cup found)
<1>1. WithRules(r, known, change) = [base EXCEPT !.policy = TRUE]
  BY DEF WithRules
<1>2. /\ IsReport(base) /\ base.findings = r.findings \cup found /\ base.complete = r.complete
      /\ base.overrides = r.overrides /\ base.ignored = r.ignored
  BY RebuiltIs
<1> HIDE DEF base
<1>3. LET after == [base EXCEPT !.policy = TRUE]
      IN  /\ IsReport(after) /\ after.policy = TRUE /\ after.complete = base.complete
          /\ after.overrides = base.overrides /\ after.ignored = base.ignored
          /\ after.findings = base.findings
  BY <1>2 DEF IsReport
<1> QED
  BY <1>1, <1>2, <1>3

LEMMA WithPermissionsIs ==
  ASSUME NEW r, IsReport(r), r.overrides = {}, ledger \in Ledgers
  PROVE  LET after == WithPermissions(r)
         IN  /\ IsReport(after) /\ after.policy = r.policy /\ after.ignored = r.ignored
             /\ \A f \in r.findings : Stays(f) => f \in after.findings
             /\ \A f \in r.findings \ after.findings :
                    \E o \in after.overrides :
                        o.finding = f /\ o.entry \in ledger.entries /\ Permits(o.entry, f)
             /\ ~ledger.readable => ~after.complete /\ Unresolved \in after.findings
             /\ ledger.readable => after.complete = r.complete
<1> DEFINE Of(f) == {e \in ledger.entries : Permits(e, f)}
           permitted == {f \in r.findings : Of(f) # {}}
           taken == {[entry |-> CHOOSE e \in Of(f) : TRUE, finding |-> f] : f \in permitted}
           after == WithPermissions(r)
<1>1. CASE ~ledger.readable
  <2> DEFINE more == Rebuilt(r, r.findings \cup {Unresolved})
  <2>1. after = [more EXCEPT !.complete = FALSE]
    BY <1>1 DEF WithPermissions
  <2>2. /\ IsReport(more) /\ more.findings = r.findings \cup {Unresolved}
        /\ more.policy = r.policy /\ more.ignored = r.ignored
    BY RebuiltIs
  <2> HIDE DEF more
  <2>3. LET done == [more EXCEPT !.complete = FALSE]
        IN  /\ IsReport(done) /\ done.findings = more.findings /\ done.complete = FALSE
            /\ done.policy = more.policy /\ done.ignored = more.ignored
    BY <2>2 DEF IsReport
  <2> QED
    BY <1>1, <2>1, <2>2, <2>3
<1>2. CASE ledger.readable /\ permitted = {}
  BY <1>2 DEF WithPermissions
<1>3. CASE ledger.readable /\ permitted # {}
  <2> DEFINE fewer == Rebuilt(r, (r.findings \ permitted) \cup {Noted})
  <2>1. after = [fewer EXCEPT !.overrides = taken]
    BY <1>3 DEF WithPermissions
  <2>2. /\ IsReport(fewer) /\ fewer.findings = (r.findings \ permitted) \cup {Noted}
        /\ fewer.policy = r.policy /\ fewer.ignored = r.ignored /\ fewer.complete = r.complete
    BY RebuiltIs
  <2> HIDE DEF fewer, taken
  <2>3. LET done == [fewer EXCEPT !.overrides = taken]
        IN  /\ IsReport(done) /\ done.findings = fewer.findings /\ done.complete = fewer.complete
            /\ done.policy = fewer.policy /\ done.ignored = fewer.ignored /\ done.overrides = taken
    BY <2>2 DEF IsReport
  <2>4. ASSUME NEW f \in permitted
        PROVE  \E o \in taken :
                   o.finding = f /\ o.entry \in ledger.entries /\ Permits(o.entry, f)
    <3> DEFINE e == CHOOSE x \in Of(f) : TRUE
               o == [entry |-> e, finding |-> f]
    <3>1. e \in ledger.entries /\ Permits(e, f)
      OBVIOUS
    <3>2. o \in taken
      BY DEF taken
    <3> HIDE DEF e
    <3>3. o.finding = f /\ o.entry = e
      OBVIOUS
    <3> QED
      BY <3>1, <3>2, <3>3
  <2>5. \A f \in r.findings : Stays(f) => f \notin permitted
    BY DEF Stays
  <2> HIDE DEF permitted, Of, after
  <2> QED
    BY <1>3, <2>1, <2>2, <2>3, <2>4, <2>5 DEF after
<1> QED
  BY <1>1, <1>2, <1>3

LEMMA WithConfigIs ==
  ASSUME NEW r, IsReport(r), r.ignored = {}
  PROVE  LET after == WithConfig(r)
         IN  /\ IsReport(after) /\ after.policy = r.policy /\ after.overrides = r.overrides
             /\ after.complete = r.complete
             /\ \A f \in r.findings :
                    Stays(f) \/ f.id \notin Suppressible => f \in after.findings
             /\ \A f \in r.findings \ after.findings : f \in after.ignored
<1> DEFINE config == Config(file)
           ignored == {f \in r.findings : Ignored(f, config)}
           kept == (r.findings \ ignored) \cup (IF ignored = {} THEN {} ELSE {Noted})
                   \cup (IF config.warned
                         THEN {Warn("policy_config_warning", "policy", NoPath, NoPath)} ELSE {})
           base == Rebuilt(r, kept)
<1>1. WithConfig(r) = [base EXCEPT !.ignored = ignored]
  BY DEF WithConfig
<1>2. \A f \in r.findings : Stays(f) \/ f.id \notin Suppressible => f \notin ignored
  BY DEF Stays, Ignored
<1>3. r.findings \ kept \subseteq ignored /\ r.findings \ ignored \subseteq kept
  OBVIOUS
<1> HIDE DEF ignored, kept
<1>4. /\ IsReport(base) /\ base.findings = kept /\ base.complete = r.complete
      /\ base.policy = r.policy /\ base.overrides = r.overrides
  BY RebuiltIs
<1> HIDE DEF base
<1>5. LET done == [base EXCEPT !.ignored = ignored]
      IN  /\ IsReport(done) /\ done.findings = base.findings /\ done.complete = base.complete
          /\ done.policy = base.policy /\ done.overrides = base.overrides /\ done.ignored = ignored
  BY <1>4 DEF IsReport
<1> QED
  BY <1>1, <1>2, <1>3, <1>4, <1>5

-----------------------------------------------------------------------------
(* The inductive invariant *)

Before == {"request", "root", "resolve", "diff", "untracked", "guard", "baseline", "build",
           "tree", "judge"}
Finishing == {"rules", "local", "config", "after", "done"}

FatalFound == \E f \in report.findings : Fatal(f)

IsResult(r) ==
    r \in [organization : Rules, repository : Rules,
           effective : {Effective(r.organization, r.repository)}, errors : {r.errors}]

IsPatch(p) ==
    /\ p \in [changes : Seq(Changes(p)), badhunk : BOOLEAN, binary : SUBSET (Paths \cup {NoPath})]
    /\ \A c \in Changes(p) : c.lines \in Nat

Typed ==
    /\ TypeOK /\ IsReport(report) /\ IsResult(result) /\ IsPatch(patch)
    /\ next \subseteq {"incomplete", "known", "stale"}

\* The stages come in their order, and each finds what it makes still empty.
StagesInOrder ==
    /\ pc \in Before \cup {"rules"} => ~report.policy
    /\ pc \in Before \cup {"rules", "local"} => report.overrides = {}
    /\ pc \in Before \cup {"rules", "local", "config"} => report.ignored = {}
    /\ pc \in {"local", "config"} => AuthorityError \notin result.errors
    /\ AuthorityError \in result.errors => report.overrides = {} /\ report.ignored = {}

\* What could not be acquired has failed the review for good.
TroubleFails ==
    /\ trouble # {} => pc \in Finishing /\ FatalFound
    /\ trouble \cap {"limit", "links", "ledger"} # {} =>
         ~report.complete \/ (pc # "done" /\ "incomplete" \in next /\ "stale" \notin next)
    /\ ~report.complete \/ "incomplete" \in next => FatalFound

\* A policy that does not resolve is among the findings once it was applied.
PolicyCounts ==
    /\ report.policy /\ ~Passes(result) => Unresolved \in report.findings
    /\ pc \in {"local", "config", "after"} => report.policy
    /\ pc = "done" /\ ~report.policy => FatalFound
    /\ pc \in (Before \cup {"rules"}) \ {"request", "root", "resolve"} \/ report.policy =>
         result.organization = PackRules(request.pack)

Touches(p) == \E c \in Changes(p) : {c.path, c.old} \cap PolicyPaths # {}

\* Past its guard the review knows of a change of the policy.
Guarded ==
    /\ Acquired /\ Touches(patch)
    /\ pc \in {"baseline", "build", "tree", "judge", "rules"} \/ report.policy
    => AuthorityError \in result.errors

Base == IF request.source = "range" THEN packet.files ELSE {}
NoLinks == [collisions |-> {}, incomplete |-> {}]

\* Everything found about the change is in the report or on record.
JudgedWhole ==
    /\ ~Blank(patch) /\ "known" \in next /\ baseline \in {"present", "stale"}
    /\ baseline = "stale" => "stale" \in next /\ (pc = "done" => Stale \in report.findings)
    /\ \A f \in Judged(packet, Base, patch, NoLinks) :
         f \in report.findings \cup report.ignored \cup {o.finding : o \in report.overrides}

Answered ==
    /\ pc \in Before => next = {}
    /\ pc = "build" => Blank(patch)
    /\ pc \in {"tree", "judge"} => Blank(patch) \/ baseline \in {"present", "stale"}
    /\ pc \in Finishing => FatalFound \/ (Blank(patch) /\ "known" \notin next) \/ JudgedWhole

IInv == Typed /\ StagesInOrder /\ TroubleFails /\ PolicyCounts /\ Guarded /\ Answered

-----------------------------------------------------------------------------
(* How the policy of a review is made *)

LEMMA NoRulesTyped == NoRules \in Rules
BY DEF NoRules, Rules, Flag

LEMMA ParsedTyped == ASSUME NEW written, Written(written) PROVE Parsed(written) \in Rules
<1>1. PICK rules \in Rules : \A rule \in RuleNames : written[rule] \in {rules[rule], Bad}
  BY DEF Written
<1>2. \A rule \in RuleNames : Parsed(written)[rule] \in {rules[rule], NoRules[rule]}
  BY <1>1 DEF Parsed, Kept
<1>3. RuleNames = {"block_dependency_additions", "block_secret_patterns", "protected_paths",
                   "require_tests_for", "max_changed_lines", "package_manager"}
  BY DEF RuleNames, FlagRules, PathRules
<1>4. Parsed(written) = [rule \in RuleNames |-> Parsed(written)[rule]]
  BY DEF Parsed
<1> DEFINE p == Parsed(written)
<1> HIDE DEF p
<1>5. /\ p.block_dependency_additions \in Flag /\ p.block_secret_patterns \in Flag
      /\ p.protected_paths \in SUBSET Globs /\ p.require_tests_for \in SUBSET Globs
      /\ p.max_changed_lines \in Limits \cup {Unset}
      /\ p.package_manager \in PackageManagers \cup {Unset}
  BY <1>1, <1>2, <1>3, NoRulesTyped DEF Rules, p
<1>6. p = [rule \in RuleNames |-> p[rule]]
  BY <1>4 DEF p
<1>7. p \in Rules
  BY <1>3, <1>5, <1>6 DEF Rules
<1> QED
  BY <1>7 DEF p

LEMMA EffectiveTyped == ASSUME NEW o \in Rules, NEW r \in Rules PROVE Effective(o, r) \in Rules
<1>1. Stricter(o.max_changed_lines, r.max_changed_lines) \in Limits \cup {Unset}
  BY DEF Stricter, Rules
<1>2. /\ o.protected_paths \cup r.protected_paths \in SUBSET Globs
      /\ o.require_tests_for \cup r.require_tests_for \in SUBSET Globs
  BY DEF Rules
<1>3. (IF Conflicting(o, r) THEN Unset
       ELSE IF o.package_manager # Unset THEN o.package_manager
       ELSE r.package_manager) \in PackageManagers \cup {Unset}
  BY DEF Rules
<1>4. /\ (o.block_dependency_additions = TRUE \/ r.block_dependency_additions = TRUE) \in Flag
      /\ (o.block_secret_patterns = TRUE \/ r.block_secret_patterns = TRUE) \in Flag
  BY DEF Flag
<1> QED
  BY <1>1, <1>2, <1>3, <1>4 DEF Effective, Rules

LEMMA PackRulesTyped ==
  ASSUME NEW pack, pack.form = "read" => Written(pack.written)
  PROVE  PackRules(pack) \in Rules
BY ParsedTyped, NoRulesTyped DEF PackRules

LEMMA ResolveIs ==
  ASSUME NEW pack, pack.form = "read" => Written(pack.written), NEW mode,
         NEW f, f.form = "read" => Written(f.written)
  PROVE  LET policy == Resolve(pack, mode, f, TRUE)
         IN  /\ IsResult(policy) /\ policy.organization = PackRules(pack)
<1> DEFINE v == Validation(f)
           r == IF v.valid THEN v.rules ELSE NoRules
           policy == Resolve(pack, mode, f, TRUE)
<1>1. v.rules \in Rules
  BY ParsedTyped, NoRulesTyped DEF Validation
<1>2. r \in Rules
  BY <1>1, NoRulesTyped
<1> HIDE DEF r, v
<1>3. /\ policy = [organization |-> policy.organization, repository |-> policy.repository,
                   effective |-> policy.effective, errors |-> policy.errors]
      /\ policy.organization = PackRules(pack) /\ policy.repository = r
      /\ policy.effective = Effective(policy.organization, policy.repository)
  BY DEF Resolve, v, r
<1> HIDE DEF policy
<1>4. IsResult(policy)
  BY <1>2, <1>3, PackRulesTyped DEF IsResult
<1> QED
  BY <1>3, <1>4 DEF policy

LEMMA GuardIs ==
  ASSUME NEW r, IsResult(r), NEW S
  PROVE  /\ IsResult(Guard(r, S)) /\ Guard(r, S).organization = r.organization
         /\ r.errors \subseteq Guard(r, S).errors
         /\ S # {} => AuthorityError \in Guard(r, S).errors
BY DEF Guard, IsResult

LEMMA ResultTyped == ASSUME NEW r, IsResult(r) PROVE r.effective \in Rules
BY EffectiveTyped DEF IsResult

LEMMA NoPackResolves ==
  ASSUME NEW mode
  PROVE  IsResult(Resolve(NoPack, mode, [form |-> "absent"], TRUE))
<1>1. NoPack.form # "read" /\ [form |-> "absent"].form # "read"
  BY DEF NoPack
<1> QED
  BY <1>1, ResolveIs

\* What the change proposes of the policy is seen by the guard.
LEMMA ProposedSees ==
  ASSUME NEW p, NEW answers, Touches(p)
  PROVE  Proposed(p, answers) # {}
BY DEF Touches, Proposed

-----------------------------------------------------------------------------
(* The steps keep the invariant *)

LEMMA EmptyPatchTyped == IsPatch(EmptyPatch) /\ ~Touches(EmptyPatch) /\ Blank(EmptyPatch)
<1>1. Changes(EmptyPatch) = {} /\ EmptyPatch.changes = <<>>
  BY DEF Changes, EmptyPatch
<1> QED
  BY <1>1 DEF IsPatch, EmptyPatch, Touches, Blank

LEMMA Begins == Init => IInv
<1> SUFFICES ASSUME Init PROVE IInv
  OBVIOUS
<1> DEFINE first == Resolve(NoPack, "optional", [form |-> "absent"], TRUE)
<1>1. /\ pc = "request" /\ request \in Requests /\ packet \in Packets /\ file \in Files
      /\ ledger \in Ledgers /\ edits = 0 /\ baseline = "present" /\ patch = EmptyPatch
      /\ result = first /\ report = Report({}) /\ next = {} /\ trouble = {}
  BY DEF Init
<1>2. IsResult(first)
  BY NoPackResolves
<1> HIDE DEF first
<1>3. IsReport(report) /\ report.complete = TRUE /\ report.policy = FALSE
      /\ report.overrides = {} /\ report.ignored = {}
  BY <1>1, ReportIs
<1>4. TypeOK
  BY <1>1, <1>2, <1>3, ResultTyped, VerdictTyped, ReviewAssumption
     DEF TypeOK, Phases, BaselineStates, IsReport
<1>5. Typed
  BY <1>1, <1>2, <1>3, <1>4, EmptyPatchTyped DEF Typed
<1>6. StagesInOrder /\ TroubleFails /\ PolicyCounts
  BY <1>1, <1>3 DEF StagesInOrder, TroubleFails, PolicyCounts, Before
<1>7. Guarded /\ Answered
  BY <1>1, <1>3, EmptyPatchTyped DEF Guarded, Answered, Finishing
<1> QED
  BY <1>5, <1>6, <1>7 DEF IInv

\* The review returns before it asked for the policy.
LEMMA ReturnInv ==
  ASSUME IInv, NEW id, NEW cat, id \notin Overridable, pc \in {"request", "root"},
         Return(Failing(id, cat)), trouble' \in {trouble, trouble \cup {"root"}}
  PROVE  IInv'
<1>1. /\ pc' = "done" /\ request' = request /\ packet' = packet /\ file' = file
      /\ ledger' = ledger /\ edits' = edits /\ baseline' = baseline /\ patch' = patch
      /\ result' = result /\ next' = next /\ report' = Failing(id, cat)
  BY DEF Return, Still, world
<1>2. /\ IsReport(report)' /\ report'.complete = TRUE /\ report'.policy = FALSE
      /\ report'.overrides = {} /\ report'.ignored = {} /\ FatalFound'
  BY <1>1, FailingIsFatal, ReportIs DEF Failing, FatalFound
<1>3. trouble = {}
  BY DEF IInv, TroubleFails, Finishing
<1>4. Typed'
  BY <1>1, <1>2, <1>3, VerdictTyped DEF IInv, Typed, TypeOK, Phases, IsReport, IsResult, IsPatch, Changes
<1>5. StagesInOrder' /\ TroubleFails' /\ PolicyCounts'
  BY <1>1, <1>2, <1>3 DEF StagesInOrder, TroubleFails, PolicyCounts, Before, Finishing, FatalFound
<1>6. Guarded' /\ Answered'
  BY <1>1, <1>2 DEF Guarded, Answered, FatalFound, Before
<1> QED
  BY <1>4, <1>5, <1>6 DEF IInv

LEMMA GitIdsStay == \A id \in GitErrors \cup {"no_git_repo"} : id \notin Overridable
BY DEF GitErrors, Overridable

LEMMA MoveInv ==
  ASSUME IInv, pc \in Before, pc' \in Before, UNCHANGED <<request, packet, file, ledger, edits>>,
         report' = report, next' = next, trouble' = trouble, IsResult(result)', IsPatch(patch)',
         baseline' \in BaselineStates,
         pc' \notin {"request", "root", "resolve"} => result'.organization = PackRules(request.pack),
         Touches(patch') /\ pc' \in {"baseline", "build", "tree", "judge"} => AuthorityError \in result'.errors,
         pc' = "build" => Blank(patch'),
         pc' \in {"tree", "judge"} => Blank(patch') \/ baseline' \in {"present", "stale"}
  PROVE  IInv'
<1>1. Typed'
  <2>1. pc' \in Phases
    BY DEF Before, Phases
  <2>2. result'.effective \in Rules
    BY ResultTyped DEF IsResult
  <2> QED
    BY <2>1, <2>2 DEF IInv, Typed, TypeOK, IsReport
<1>2. trouble = {} /\ ~report.policy
  BY DEF IInv, TroubleFails, Before, Finishing, StagesInOrder
<1>3. StagesInOrder'
  BY DEF IInv, StagesInOrder, Before
<1>4. TroubleFails'
  BY <1>2 DEF IInv, TroubleFails, FatalFound
<1>5. PolicyCounts'
  BY <1>2 DEF PolicyCounts, Before
<1>6. Guarded'
  BY <1>2 DEF Guarded, Before
<1>7. Answered'
  BY DEF IInv, Answered, Before, Finishing
<1> QED
  BY <1>1, <1>3, <1>4, <1>5, <1>6, <1>7 DEF IInv

\* The review gets to its policy with a report that is not of a change it judged.
LEMMA FinishInv ==
  ASSUME IInv, pc \in Before \ {"request", "root", "resolve"}, NEW r, NEW after, Finish(r, after),
         IsReport(r), r.complete = TRUE, r.policy = FALSE, r.overrides = {}, r.ignored = {},
         after \subseteq {"incomplete"}, trouble' \subseteq {"limit", "diff"},
         "limit" \in trouble' => "incomplete" \in after,
         after # {} => \E f \in r.findings : Fatal(f),
         trouble' # {} => \E f \in r.findings : Fatal(f),
         patch' \in {patch, EmptyPatch}, baseline' \in BaselineStates,
         Acquired' /\ Touches(patch') => AuthorityError \in result.errors,
         (\E f \in r.findings : Fatal(f)) \/ (Blank(patch') /\ "known" \notin after)
  PROVE  IInv'
<1>1. /\ pc' = "rules" /\ report' = r /\ next' = after /\ request' = request /\ packet' = packet
      /\ file' = file /\ ledger' = ledger /\ edits' = edits /\ result' = result
  BY DEF Finish, Still, world
<1>2. Typed'
  <2>1. IsPatch(patch)'
    BY EmptyPatchTyped DEF IInv, Typed, IsPatch, Changes
  <2>2. IsResult(result)'
    BY <1>1 DEF IInv, Typed, IsResult
  <2> QED
    BY <1>1, <2>1, <2>2, VerdictTyped DEF IInv, Typed, TypeOK, Phases, IsReport
<1>3. StagesInOrder'
  BY <1>1 DEF StagesInOrder, Before
<1>4. TroubleFails'
  BY <1>1 DEF TroubleFails, FatalFound, Finishing
<1>5. PolicyCounts'
  BY <1>1 DEF IInv, PolicyCounts, Before
<1>6. Guarded'
  BY <1>1 DEF Guarded
<1>7. Answered'
  BY <1>1 DEF Answered, Finishing, FatalFound, Before
<1> QED
  BY <1>2, <1>3, <1>4, <1>5, <1>6, <1>7 DEF IInv

LEMMA NothingWrongYet == ASSUME IInv, pc \in Before PROVE trouble = {} /\ ~report.policy /\ Acquired
BY DEF IInv, TroubleFails, Before, Finishing, StagesInOrder, Acquired

LEMMA CheckRequestInv == ASSUME IInv, CheckRequest PROVE IInv'
<1>1. CASE request.refs = "one"
  <2>1. Return(Failing("git_diff_failed", "git")) /\ trouble' = trouble /\ pc = "request"
    BY <1>1 DEF CheckRequest
  <2>2. "git_diff_failed" \notin Overridable
    BY DEF Overridable
  <2> QED
    BY <2>1, <2>2, ReturnInv
<1>2. CASE request.refs # "one"
  <2>1. /\ pc = "request" /\ pc' = "root" /\ UNCHANGED <<request, packet, file, ledger, edits>>
        /\ report' = report /\ next' = next /\ trouble' = trouble /\ result' = result
        /\ patch' = patch /\ baseline' = baseline
    BY <1>2 DEF CheckRequest, Still, world
  <2>2. IsResult(result)' /\ IsPatch(patch)' /\ baseline' \in BaselineStates
    BY <2>1 DEF IInv, Typed, TypeOK, IsResult, IsPatch, Changes
  <2> QED
    BY <2>1, <2>2, MoveInv DEF Before
<1> QED
  BY <1>1, <1>2

LEMMA FindRootInv == ASSUME IInv, FindRoot PROVE IInv'
<1>1. CASE pc' = "resolve" /\ Still(<<baseline, patch, result, report, next, trouble>>)
  <2>1. /\ pc = "root" /\ pc' = "resolve" /\ UNCHANGED <<request, packet, file, ledger, edits>>
        /\ report' = report /\ next' = next /\ trouble' = trouble /\ result' = result
        /\ patch' = patch /\ baseline' = baseline
    BY <1>1 DEF FindRoot, Still, world
  <2>2. IsResult(result)' /\ IsPatch(patch)' /\ baseline' \in BaselineStates
    BY <2>1 DEF IInv, Typed, TypeOK, IsResult, IsPatch, Changes
  <2> QED
    BY <2>1, <2>2, MoveInv DEF Before
<1>2. ASSUME NEW id \in GitErrors \cup {"no_git_repo"}, Return(Failing(id, "git")),
             trouble' = trouble \cup {"root"}
      PROVE  IInv'
  <2>1. pc = "root"
    BY DEF FindRoot
  <2>2. id \notin Overridable
    BY GitIdsStay
  <2> QED
    BY <1>2, <2>1, <2>2, ReturnInv
<1> QED
  BY <1>1, <1>2 DEF FindRoot

LEMMA ResolvePolicyInv == ASSUME IInv, ResolvePolicy PROVE IInv'
<1> DEFINE policy(answers) == ResolveGuarded(request.pack, request.mode, file, TRUE,
                                             Proposed(EmptyPatch, answers))
<1>1. /\ pc = "resolve" /\ UNCHANGED <<request, packet, file, ledger, edits>>
      /\ report' = report /\ next' = next /\ trouble' = trouble /\ baseline' = baseline
  BY DEF ResolvePolicy, Still, world
<1>2. ASSUME NEW answers
      PROVE  IsResult(policy(answers)) /\ policy(answers).organization = PackRules(request.pack)
  <2> DEFINE first == Resolve(request.pack, request.mode, file, TRUE)
  <2>1. IsResult(first) /\ first.organization = PackRules(request.pack)
    BY ResolveIs, ReviewAssumption DEF IInv, Typed, TypeOK
  <2> HIDE DEF first
  <2>2. policy(answers) = Guard(first, Proposed(EmptyPatch, answers))
    BY DEF ResolveGuarded, first
  <2> HIDE DEF policy
  <2> QED
    BY <2>1, <2>2, GuardIs
<1>3. baseline' \in BaselineStates
  BY <1>1 DEF IInv, Typed, TypeOK
<1>4. PICK answers \in BOOLEAN :
        IF request.source = "patch"
        THEN \E change \in Patches : /\ patch' = change /\ pc' = "guard"
                                     /\ result' = Guard(policy(answers), Proposed(change, answers))
        ELSE pc' = "diff" /\ result' = policy(answers) /\ UNCHANGED patch
  BY DEF ResolvePolicy
<1> HIDE DEF policy
<1>5. ASSUME NEW change \in Patches, patch' = change, pc' = "guard",
             result' = Guard(policy(answers), Proposed(change, answers))
      PROVE  IInv'
  <2>1. IsPatch(patch)'
    BY <1>5, ReviewAssumption DEF IsPatch, Changes
  <2>2. IsResult(result)' /\ result'.organization = PackRules(request.pack)
    BY <1>2, <1>5, GuardIs DEF IsResult
  <2> QED
    BY <1>1, <1>3, <1>5, <2>1, <2>2, MoveInv DEF Before
<1>6. CASE pc' = "diff" /\ result' = policy(answers) /\ UNCHANGED patch
  <2>1. IsPatch(patch)' /\ IsResult(result)' /\ result'.organization = PackRules(request.pack)
    BY <1>2, <1>6 DEF IInv, Typed, IsPatch, Changes, IsResult
  <2> QED
    BY <1>1, <1>3, <1>6, <2>1, MoveInv DEF Before
<1> QED
  BY <1>4, <1>5, <1>6

LEMMA GitErrorIsFatal ==
  ASSUME NEW id \in GitErrors, NEW cat
  PROVE  \E f \in Failing(id, cat).findings : Fatal(f)
BY GitIdsStay, FailingIsFatal

LEMMA FailingIs ==
  ASSUME NEW id, NEW cat
  PROVE  /\ IsReport(Failing(id, cat)) /\ Failing(id, cat).complete = TRUE
         /\ Failing(id, cat).policy = FALSE
         /\ Failing(id, cat).overrides = {} /\ Failing(id, cat).ignored = {}
BY ReportIs DEF Failing

LEMMA AcquireDiffInv == ASSUME IInv, AcquireDiff PROVE IInv'
<1>1. pc = "diff" /\ trouble = {} /\ pc \in Before \ {"request", "root", "resolve"}
  BY NothingWrongYet DEF AcquireDiff, Before
<1>2. CASE /\ \E change \in Patches \cup {EmptyPatch} : patch' = change
           /\ pc' = IF request.source = "worktree" THEN "untracked" ELSE "guard"
           /\ Still(<<baseline, result, report, next, trouble>>)
  <2>1. /\ UNCHANGED <<request, packet, file, ledger, edits>> /\ pc' \in {"untracked", "guard"}
        /\ report' = report /\ next' = next /\ trouble' = trouble /\ baseline' = baseline
        /\ result' = result
    BY <1>2 DEF Still, world
  <2>2. PICK change \in Patches \cup {EmptyPatch} : patch' = change
    BY <1>2
  <2>3. IsPatch(patch)'
    <3>1. IsPatch(change)
      BY <2>2, EmptyPatchTyped, ReviewAssumption DEF IsPatch
    <3> QED
      BY <2>2, <3>1 DEF IsPatch, Changes
  <2>4. baseline' \in BaselineStates /\ IsResult(result)'
    BY <2>1 DEF IInv, Typed, TypeOK, IsResult
  <2>5. result'.organization = PackRules(request.pack)
    BY <1>1, <2>1 DEF IInv, PolicyCounts
  <2> QED
    BY <1>1, <2>1, <2>3, <2>4, <2>5, MoveInv DEF Before
<1>3. CASE /\ trouble' = trouble \cup {"limit"} /\ UNCHANGED <<baseline, patch>>
           /\ Finish(Failing("git_diff_failed", "git"), {"incomplete"})
  <2>1. "git_diff_failed" \in GitErrors /\ baseline' \in BaselineStates /\ patch' = patch
    BY <1>3 DEF GitErrors, IInv, Typed, TypeOK
  <2>2. trouble' = {"limit"} /\ ~Acquired'
    BY <1>1, <1>3 DEF Acquired
  <2> QED
    BY <1>1, <1>3, <2>1, <2>2, GitErrorIsFatal, FailingIs, FinishInv
<1>4. ASSUME trouble' = trouble \cup {"diff"}, UNCHANGED <<baseline, patch>>,
             NEW id \in GitErrors, Finish(Failing(id, "git"), {})
      PROVE  IInv'
  <2>1. baseline' \in BaselineStates /\ patch' = patch
    BY <1>4 DEF IInv, Typed, TypeOK
  <2>2. trouble' = {"diff"} /\ ~Acquired'
    BY <1>1, <1>4 DEF Acquired
  <2> QED
    BY <1>1, <1>4, <2>1, <2>2, GitErrorIsFatal, FailingIs, FinishInv
<1> QED
  BY <1>2, <1>3, <1>4 DEF AcquireDiff

\* The changes of two patches, one after the other.
LEMMA Joined ==
  ASSUME NEW p, IsPatch(p), NEW extra, NEW S, extra \in Seq(S), \A c \in S : c.lines \in Nat
  PROVE  IsPatch([p EXCEPT !.changes = @ \o extra])
<1> DEFINE both == p.changes \o extra
           q == [p EXCEPT !.changes = @ \o extra]
           T == Changes(p) \cup S
<1>1. p.changes \in Seq(T) /\ extra \in Seq(T) /\ \A c \in T : c.lines \in Nat
  BY SeqMonotonic DEF IsPatch
<1>2. both \in Seq(T)
  BY <1>1, ConcatProperties
<1>3. /\ q.changes = both /\ q.badhunk \in BOOLEAN /\ q.binary \in SUBSET (Paths \cup {NoPath})
      /\ q = [changes |-> q.changes, badhunk |-> q.badhunk, binary |-> q.binary]
  <2>1. q = [p EXCEPT !.changes = both]
    OBVIOUS
  <2> HIDE DEF q, both
  <2>2. p \in [changes : Seq(Changes(p)), badhunk : BOOLEAN, binary : SUBSET (Paths \cup {NoPath})]
    BY DEF IsPatch
  <2> QED
    BY <2>1, <2>2
<1> HIDE DEF q, both
<1>4. Changes(q) = {both[i] : i \in DOMAIN both}
  BY <1>3 DEF Changes
<1>5. Changes(q) \subseteq T
  BY <1>2, <1>4, ElementOfSeq, LenProperties
<1>6. both \in Seq(Changes(q))
  <2>1. \A i \in 1..Len(both) : both[i] \in Changes(q)
    BY <1>2, <1>4, LenProperties
  <2>2. both \in [1..Len(both) -> Changes(q)] /\ Len(both) \in Nat
    BY <1>2, <2>1, LenProperties
  <2> QED
    BY <2>2, SeqDef
<1>7. IsPatch(q)
  BY <1>1, <1>3, <1>5, <1>6 DEF IsPatch
<1> QED
  BY <1>7 DEF q

LEMMA AcquireUntrackedInv == ASSUME IInv, AcquireUntracked PROVE IInv'
<1>1. pc = "untracked" /\ trouble = {} /\ pc \in Before \ {"request", "root", "resolve"}
  BY NothingWrongYet DEF AcquireUntracked, Before
<1>2. ASSUME NEW extra \in {<<>>} \cup {p.changes : p \in Patches},
             patch' = [patch EXCEPT !.changes = @ \o extra],
             pc' = "guard", Still(<<baseline, result, report, next, trouble>>)
      PROVE  IInv'
  <2>1. /\ UNCHANGED <<request, packet, file, ledger, edits>>
        /\ report' = report /\ next' = next /\ trouble' = trouble /\ baseline' = baseline
        /\ result' = result
    BY <1>2 DEF Still, world
  <2>2. \E S : extra \in Seq(S) /\ \A c \in S : c.lines \in Nat
    <3>1. CASE extra = <<>>
      <4>1. extra \in Seq({}) /\ \A c \in {} : c.lines \in Nat
        BY <3>1
      <4> QED
        BY <4>1
    <3>2. ASSUME NEW p \in Patches, extra = p.changes
          PROVE  \E S : extra \in Seq(S) /\ \A c \in S : c.lines \in Nat
      <4>1. extra \in Seq(Changes(p)) /\ \A c \in Changes(p) : c.lines \in Nat
        BY <3>2, ReviewAssumption
      <4> QED
        BY <4>1
    <3> QED
      BY <3>1, <3>2
  <2>3. IsPatch(patch')
    BY <1>2, <2>2, Joined DEF IInv, Typed
  <2>4. IsPatch(patch)' /\ baseline' \in BaselineStates /\ IsResult(result)'
    BY <2>1, <2>3 DEF IInv, Typed, TypeOK, IsResult, IsPatch, Changes
  <2>5. result'.organization = PackRules(request.pack)
    BY <1>1, <2>1 DEF IInv, PolicyCounts
  <2> QED
    BY <1>1, <1>2, <2>1, <2>4, <2>5, MoveInv DEF Before
<1>3. CASE /\ trouble' = trouble \cup {"limit"} /\ patch' = EmptyPatch /\ UNCHANGED baseline
           /\ Finish(Failing("git_diff_failed", "git"), {"incomplete"})
  <2>1. "git_diff_failed" \in GitErrors /\ baseline' \in BaselineStates
    BY <1>3 DEF GitErrors, IInv, Typed, TypeOK
  <2>2. trouble' = {"limit"} /\ ~Acquired'
    BY <1>1, <1>3 DEF Acquired
  <2> QED
    BY <1>1, <1>3, <2>1, <2>2, GitErrorIsFatal, FailingIs, FinishInv
<1> QED
  BY <1>2, <1>3 DEF AcquireUntracked

LEMMA GuardDiffInv == ASSUME IInv, GuardDiff PROVE IInv'
<1>1. /\ pc = "guard" /\ pc' = "baseline" /\ UNCHANGED <<request, packet, file, ledger, edits>>
      /\ report' = report /\ next' = next /\ trouble' = trouble /\ baseline' = baseline
      /\ patch' = patch
  BY DEF GuardDiff, Still, world
<1>2. PICK answers \in BOOLEAN : result' = Guard(result, Proposed(patch, answers))
  BY DEF GuardDiff
<1>3. IsResult(result') /\ result'.organization = result.organization
  BY <1>2, GuardIs DEF IInv, Typed
<1>4. result.organization = PackRules(request.pack)
  BY <1>1 DEF IInv, PolicyCounts, Before
<1>5. Touches(patch') => AuthorityError \in result'.errors
  BY <1>1, <1>2, GuardIs, ProposedSees DEF IInv, Typed, Touches
<1>6. IsResult(result)' /\ IsPatch(patch)' /\ baseline' \in BaselineStates
  BY <1>1, <1>3 DEF IInv, Typed, TypeOK, IsResult, IsPatch, Changes
<1> QED
  BY <1>1, <1>3, <1>4, <1>5, <1>6, MoveInv DEF Before

BaselineIds == {"baseline_corrupt", "baseline_missing", "baseline_failed"}

LEMMA BaselineFails ==
  ASSUME NEW id \in BaselineIds, NEW cat
  PROVE  \E f \in Failing(id, cat).findings : Fatal(f)
<1>1. id \notin Overridable
  BY DEF BaselineIds, Overridable
<1> QED
  BY <1>1, FailingIsFatal

\* What is known from the guard of the change on.
LEMMA PastGuard ==
  ASSUME IInv, pc \in {"baseline", "build", "tree", "judge"}
  PROVE  /\ pc \in Before \ {"request", "root", "resolve"} /\ trouble = {}
         /\ result.organization = PackRules(request.pack)
         /\ Touches(patch) => AuthorityError \in result.errors
<1>1. pc \in Before \ {"request", "root", "resolve"}
  BY DEF Before
<1>2. trouble = {} /\ Acquired
  BY <1>1, NothingWrongYet
<1> QED
  BY <1>1, <1>2 DEF IInv, PolicyCounts, Guarded

LEMMA ReadBaselineInv == ASSUME IInv, ReadBaseline PROVE IInv'
<1>1. pc = "baseline" /\ patch' = patch /\ trouble' = trouble /\ trouble = {}
  BY PastGuard DEF ReadBaseline
<1>2. Touches(patch') => AuthorityError \in result.errors
  BY <1>1, PastGuard DEF Touches, Changes
<1>3. PICK state \in BaselineStates, dirty \in BOOLEAN :
         /\ baseline' = state
         /\ CASE state = "corrupt" -> Finish(Failing("baseline_corrupt", "baseline"), {})
              [] state = "missing" ->
                   IF request.ci \/ ~Blank(patch) \/ dirty \/ ~request.init
                   THEN Finish(Failing("baseline_missing", "baseline"), {})
                   ELSE pc' = "build" /\ Still(<<result, report, next>>)
              [] OTHER -> pc' = "tree" /\ Still(<<result, report, next>>)
  BY DEF ReadBaseline
<1>4. ASSUME NEW id \in BaselineIds, Finish(Failing(id, "baseline"), {}) PROVE IInv'
  BY <1>1, <1>2, <1>3, <1>4, PastGuard, BaselineFails, FailingIs, FinishInv
<1>5. CASE /\ \/ Blank(patch) /\ pc' = "build"
              \/ state \in {"present", "stale"} /\ pc' = "tree"
           /\ Still(<<result, report, next>>)
  <2>1. /\ UNCHANGED <<request, packet, file, ledger, edits>>
        /\ report' = report /\ next' = next /\ result' = result
    BY <1>5 DEF Still, world
  <2>2. IsResult(result)' /\ IsPatch(patch)'
    BY <1>1, <2>1 DEF IInv, Typed, IsResult, IsPatch, Changes
  <2>3. Blank(patch') \/ baseline' \in {"present", "stale"}
    BY <1>1, <1>3, <1>5 DEF Blank
  <2>4. /\ result'.organization = PackRules(request.pack)
        /\ Touches(patch') => AuthorityError \in result'.errors
        /\ pc' \in Before /\ pc' \in {"build", "tree"} /\ (pc' = "build" => Blank(patch'))
    BY <1>1, <1>2, <1>5, <2>1, PastGuard DEF Before, Blank
  <2> QED
    BY <1>1, <1>3, <2>1, <2>2, <2>3, <2>4, PastGuard, MoveInv
<1>6. CASE state = "corrupt"
  BY <1>3, <1>4, <1>6 DEF BaselineIds
<1>7. CASE state = "missing"
  <2>1. \/ Finish(Failing("baseline_missing", "baseline"), {})
        \/ Blank(patch) /\ pc' = "build" /\ Still(<<result, report, next>>)
    BY <1>3, <1>7
  <2>2. CASE Finish(Failing("baseline_missing", "baseline"), {})
    <3>1. "baseline_missing" \in BaselineIds
      BY DEF BaselineIds
    <3> QED
      BY <1>4, <2>2, <3>1
  <2>3. CASE Blank(patch) /\ pc' = "build" /\ Still(<<result, report, next>>)
    BY <1>5, <2>3
  <2> QED
    BY <2>1, <2>2, <2>3
<1>8. CASE state \in {"present", "stale"}
  BY <1>3, <1>5, <1>8
<1> QED
  BY <1>6, <1>7, <1>8 DEF BaselineStates

LEMMA BuildBaselineInv == ASSUME IInv, BuildBaseline PROVE IInv'
<1>1. pc = "build" /\ patch' = patch /\ trouble' = trouble /\ trouble = {} /\ Blank(patch)
  BY PastGuard DEF BuildBaseline, IInv, Answered
<1>2. Touches(patch') => AuthorityError \in result.errors
  BY <1>1, PastGuard DEF Touches, Changes
<1>3. CASE pc' = "tree" /\ baseline' \in BaselineStates /\ Still(<<result, report, next>>)
  <2>1. /\ UNCHANGED <<request, packet, file, ledger, edits>>
        /\ report' = report /\ next' = next /\ result' = result
    BY <1>3 DEF Still, world
  <2>2. IsResult(result)' /\ IsPatch(patch)' /\ Blank(patch')
    BY <1>1, <2>1 DEF IInv, Typed, IsResult, IsPatch, Changes, Blank
  <2>3. /\ result'.organization = PackRules(request.pack)
        /\ Touches(patch') => AuthorityError \in result'.errors
    BY <1>1, <1>2, <2>1, PastGuard
  <2> QED
    BY <1>1, <1>3, <2>1, <2>2, <2>3, PastGuard, MoveInv DEF Before
<1>4. CASE /\ UNCHANGED baseline
           /\ Finish(Report({Warn("baseline_locked", "tooling", NoPath, NoPath)}), {})
  <2>1. baseline' \in BaselineStates /\ Blank(patch')
    BY <1>1, <1>4 DEF IInv, Typed, TypeOK, Blank
  <2> QED
    BY <1>1, <1>2, <1>4, <2>1, PastGuard, ReportIs, FinishInv
<1>5. CASE UNCHANGED baseline /\ Finish(Failing("baseline_failed", "baseline"), {})
  <2>1. baseline' \in BaselineStates /\ "baseline_failed" \in BaselineIds
    BY <1>5 DEF IInv, Typed, TypeOK, BaselineIds
  <2> QED
    BY <1>1, <1>2, <1>5, <2>1, PastGuard, BaselineFails, FailingIs, FinishInv
<1> QED
  BY <1>3, <1>4, <1>5 DEF BuildBaseline

LEMMA ReadBaseTreeInv == ASSUME IInv, ReadBaseTree PROVE IInv'
<1>1. pc = "tree" /\ patch' = patch /\ baseline' = baseline /\ trouble = {}
  BY PastGuard DEF ReadBaseTree
<1>2. baseline' \in BaselineStates /\ (Blank(patch') \/ baseline' \in {"present", "stale"})
  BY <1>1 DEF IInv, Typed, TypeOK, Answered, Blank
<1>3. CASE pc' = "judge" /\ Still(<<result, report, next, trouble>>)
  <2>1. /\ UNCHANGED <<request, packet, file, ledger, edits>>
        /\ report' = report /\ next' = next /\ result' = result /\ trouble' = trouble
    BY <1>3 DEF Still, world
  <2>2. IsResult(result)' /\ IsPatch(patch)'
    BY <1>1, <2>1 DEF IInv, Typed, IsResult, IsPatch, Changes
  <2>3. /\ result'.organization = PackRules(request.pack)
        /\ Touches(patch') => AuthorityError \in result'.errors
    BY <1>1, <2>1, PastGuard DEF Touches, Changes
  <2> QED
    BY <1>1, <1>2, <1>3, <2>1, <2>2, <2>3, PastGuard, MoveInv DEF Before
<1>4. ASSUME NEW kind \in {"limit", "diff"}, NEW after \in {{"incomplete"}, {}},
             trouble' = trouble \cup {kind}, kind = "limit" => after = {"incomplete"},
             Finish(Failing("git_diff_failed", "git"), after)
      PROVE  IInv'
  <2>1. trouble' = {kind} /\ ~Acquired' /\ "git_diff_failed" \in GitErrors
    BY <1>1, <1>4 DEF Acquired, GitErrors
  <2> QED
    BY <1>1, <1>2, <1>4, <2>1, PastGuard, GitErrorIsFatal, FailingIs, FinishInv
<1>5. CASE /\ request.source = "range" /\ trouble' = trouble \cup {"limit"}
           /\ Finish(Failing("git_diff_failed", "git"), {"incomplete"})
  BY <1>4, <1>5
<1>6. CASE /\ request.source = "range" /\ trouble' = trouble \cup {"diff"}
           /\ Finish(Failing("git_diff_failed", "git"), {})
  BY <1>4, <1>6
<1> QED
  BY <1>3, <1>5, <1>6 DEF ReadBaseTree

\* Without a finding of the inspection of links, the judgment is no less.
LEMMA JudgedGrows ==
  ASSUME NEW k, NEW base, NEW p, NEW links
  PROVE  Judged(k, base, p, NoLinks) \subseteq Judged(k, base, p, links)
<1>1. LinkFindings(NoLinks) = {}
  BY DEF LinkFindings, NoLinks
<1> QED
  BY <1>1 DEF Judged

LEMMA PartialIsFatal ==
  ASSUME NEW k, NEW base, NEW p, NEW links, Partial(p, links)
  PROVE  \E f \in Judged(k, base, p, links) : Fatal(f)
<1>1. PICK path \in links.incomplete : TRUE
  BY DEF Partial
<1> DEFINE f == Error("symlink_worktree_inspection_incomplete", "filesystem", path, path)
<1>2. "symlink_worktree_inspection_incomplete" \notin Overridable
  BY DEF Overridable
<1>3. Fatal(f)
  BY <1>2, ErrorIs, OtherIdsStay DEF Fatal
<1>4. f \in LinkFindings(links)
  BY DEF LinkFindings
<1> HIDE DEF f
<1>5. f \in Judged(k, base, p, links)
  BY <1>4 DEF Judged, Partial
<1> QED
  BY <1>3, <1>5

LEMMA JudgeInv == ASSUME IInv, Judge PROVE IInv'
<1>1. pc = "judge" /\ ~Blank(patch) /\ patch' = patch /\ baseline' = baseline /\ trouble = {}
  BY PastGuard DEF Judge
<1>2. PICK links \in Links, contract \in Contracts, executions \in Executions :
         LET found == Judged(packet, Base, patch, links)
         IN /\ Finish([Report(found \cup contract \cup executions)
                          EXCEPT !.complete = ~Partial(patch, links)],
                      IF baseline = "stale" THEN {"known", "stale"} ELSE {"known"})
            /\ trouble' = trouble \cup (IF Partial(patch, links) THEN {"links"} ELSE {})
  BY DEF Judge, Base
<1> DEFINE all == Judged(packet, Base, patch, links) \cup contract \cup executions
           r == [Report(all) EXCEPT !.complete = ~Partial(patch, links)]
           after == IF baseline = "stale" THEN {"known", "stale"} ELSE {"known"}
<1>3. /\ pc' = "rules" /\ report' = r /\ next' = after /\ request' = request /\ packet' = packet
      /\ file' = file /\ ledger' = ledger /\ edits' = edits /\ result' = result
      /\ trouble' = IF Partial(patch, links) THEN {"links"} ELSE {}
  BY <1>1, <1>2 DEF Finish, Still, world
<1>4. /\ IsReport(r) /\ r.findings = all /\ r.policy = FALSE /\ r.overrides = {} /\ r.ignored = {}
      /\ r.complete = ~Partial(patch, links)
  <2> DEFINE whole == Report(all)
  <2>1. /\ IsReport(whole) /\ whole.findings = all /\ whole.policy = FALSE
        /\ whole.overrides = {} /\ whole.ignored = {}
    BY ReportIs
  <2>2. (~Partial(patch, links)) \in BOOLEAN
    BY DEF Partial
  <2> HIDE DEF whole
  <2> QED
    BY <2>1, <2>2 DEF IsReport, whole
<1>5. Partial(patch, links) => FatalFound'
  <2>1. ASSUME Partial(patch, links) PROVE \E f \in all : Fatal(f)
    BY <2>1, PartialIsFatal
  <2> HIDE DEF all, r
  <2> QED
    BY <1>3, <1>4, <2>1 DEF FatalFound
<1>6. \A f \in Judged(packet, Base, patch, NoLinks) : f \in all
  BY JudgedGrows
<1>7. after \subseteq {"incomplete", "known", "stale"} /\ "known" \in after /\ "incomplete" \notin after
      /\ (baseline = "stale" => "stale" \in after)
  OBVIOUS
<1> HIDE DEF all, r, after
<1>8. Typed'
  <2>1. IsReport(report)' /\ report'.verdict \in {"PASS", "WARN", "FAIL"} /\ report'.complete \in BOOLEAN
    BY <1>3, <1>4, VerdictTyped DEF IsReport
  <2>2. trouble' \subseteq {"links"}
    BY <1>3
  <2> QED
    BY <1>1, <1>3, <1>7, <2>1, <2>2 DEF IInv, Typed, TypeOK, Phases, IsResult, IsPatch, Changes
<1>9. StagesInOrder'
  BY <1>3, <1>4 DEF StagesInOrder, Before
<1>10. TroubleFails'
  BY <1>3, <1>4, <1>5, <1>7 DEF TroubleFails, FatalFound, Finishing
<1>11. PolicyCounts'
  BY <1>1, <1>3, <1>4, PastGuard DEF PolicyCounts, Before
<1>12. Guarded'
  BY <1>1, <1>3, PastGuard DEF Guarded, Touches, Changes
<1>13. JudgedWhole'
  <2>1. baseline \in {"present", "stale"}
    BY <1>1 DEF IInv, Answered
  <2> QED
    BY <1>1, <1>3, <1>4, <1>6, <1>7, <2>1 DEF JudgedWhole, Base, Blank
<1> QED
  BY <1>3, <1>8, <1>9, <1>10, <1>11, <1>12, <1>13 DEF IInv, Answered, Before

LEMMA NothingToJudgeInv == ASSUME IInv, NothingToJudge PROVE IInv'
<1> DEFINE found == {Finding("no_diff", "info", "diff", NoPath, NoPath)}
                       \cup (IF baseline = "stale" THEN {Stale} ELSE {})
           first == Report(found)
           last == WithRules(first, FALSE, patch)
<1>1. /\ pc = "judge" /\ Blank(patch) /\ pc' = "done" /\ report' = last
      /\ request' = request /\ packet' = packet
      /\ file' = file /\ ledger' = ledger /\ edits' = edits /\ result' = result
      /\ trouble' = trouble /\ next' = next /\ patch' = patch /\ baseline' = baseline
  BY DEF NothingToJudge, Still, world
<1>2. /\ IsReport(first) /\ first.complete = TRUE /\ first.policy = FALSE
      /\ first.overrides = {} /\ first.ignored = {}
  BY ReportIs
<1> HIDE DEF first
<1>3. /\ IsReport(last) /\ last.policy = TRUE /\ last.complete = TRUE
      /\ last.overrides = {} /\ last.ignored = {}
      /\ ~Passes(result) => Unresolved \in last.findings
  BY <1>2, WithRulesIs
<1> HIDE DEF last
<1>4. trouble = {} /\ Acquired
  BY <1>1, NothingWrongYet DEF Before
<1>5. Typed'
  <2>1. IsReport(report)' /\ report'.verdict \in {"PASS", "WARN", "FAIL"} /\ report'.complete \in BOOLEAN
    BY <1>1, <1>3, VerdictTyped DEF IsReport
  <2> QED
    BY <1>1, <2>1 DEF IInv, Typed, TypeOK, Phases, IsResult, IsPatch, Changes
<1>6. StagesInOrder' /\ TroubleFails'
  BY <1>1, <1>3, <1>4 DEF IInv, Answered, StagesInOrder, TroubleFails, Before
<1>7. PolicyCounts'
  BY <1>1, <1>3, PastGuard DEF PolicyCounts, Before, Passes
<1>8. Guarded'
  BY <1>1, PastGuard DEF Guarded, Touches, Changes
<1>9. "known" \notin next
  BY <1>1 DEF IInv, Answered, Before
<1> QED
  BY <1>1, <1>5, <1>6, <1>7, <1>8, <1>9 DEF IInv, Answered, Blank, Before

LEMMA ApplyRulesInv == ASSUME IInv, ApplyRules PROVE IInv'
<1> DEFINE judged == IF Acquired THEN patch ELSE EmptyPatch
           after == WithRules(report, "known" \in next, judged)
<1>1. /\ pc = "rules" /\ report' = after
      /\ pc' = IF AuthorityError \in result.errors THEN "after" ELSE "local"
      /\ request' = request /\ packet' = packet /\ file' = file /\ ledger' = ledger
      /\ edits' = edits /\ result' = result /\ trouble' = trouble /\ next' = next
      /\ patch' = patch /\ baseline' = baseline
  BY DEF ApplyRules, Still, world
<1>2. IsReport(report) /\ ~report.policy /\ report.overrides = {} /\ report.ignored = {}
  BY <1>1 DEF IInv, Typed, StagesInOrder
<1> HIDE DEF judged
<1>3. /\ IsReport(after) /\ after.policy = TRUE /\ after.complete = report.complete
      /\ after.overrides = {} /\ after.ignored = {}
      /\ report.findings \subseteq after.findings
      /\ ~Passes(result) => Unresolved \in after.findings
  BY <1>2, WithRulesIs
<1> HIDE DEF after
<1>4. FatalFound => FatalFound'
  BY <1>1, <1>3 DEF FatalFound
<1>5. Typed'
  <2>1. IsReport(report)' /\ report'.verdict \in {"PASS", "WARN", "FAIL"} /\ report'.complete \in BOOLEAN
    BY <1>1, <1>3, VerdictTyped DEF IsReport
  <2> QED
    BY <1>1, <2>1 DEF IInv, Typed, TypeOK, Phases, IsResult, IsPatch, Changes
<1>6. StagesInOrder'
  BY <1>1, <1>3 DEF StagesInOrder, Before
<1>7. TroubleFails'
  BY <1>1, <1>3, <1>4 DEF IInv, TroubleFails, Finishing
<1>8. PolicyCounts'
  BY <1>1, <1>3 DEF IInv, PolicyCounts, Before, Passes
<1>9. Guarded'
  BY <1>1 DEF IInv, Guarded, Acquired, Touches, Changes
<1>10. JudgedWhole => JudgedWhole'
  BY <1>1, <1>2, <1>3 DEF JudgedWhole, Base, Blank
<1>11. Answered'
  BY <1>1, <1>4, <1>10 DEF IInv, Answered, Before, Finishing, Blank
<1> QED
  BY <1>5, <1>6, <1>7, <1>8, <1>9, <1>11 DEF IInv

LEMMA ApplyLocalInv == ASSUME IInv, ApplyLocal PROVE IInv'
<1> DEFINE after == WithPermissions(report)
<1>1. /\ pc = "local" /\ report' = after /\ pc' = "config"
      /\ trouble' = trouble \cup (IF ledger.readable THEN {} ELSE {"ledger"})
      /\ request' = request /\ packet' = packet /\ file' = file /\ ledger' = ledger
      /\ edits' = edits /\ result' = result /\ next' = next
      /\ patch' = patch /\ baseline' = baseline
  BY DEF ApplyLocal, Still, world
<1>2. IsReport(report) /\ report.policy /\ report.overrides = {} /\ report.ignored = {} /\ ledger \in Ledgers
  BY <1>1 DEF IInv, Typed, TypeOK, StagesInOrder, PolicyCounts
<1>3. /\ IsReport(after) /\ after.policy = report.policy /\ after.ignored = report.ignored
      /\ \A f \in report.findings : Stays(f) => f \in after.findings
      /\ \A f \in report.findings \ after.findings :
             \E o \in after.overrides : o.finding = f /\ o.entry \in ledger.entries
      /\ ~ledger.readable => ~after.complete /\ Unresolved \in after.findings
      /\ ledger.readable => after.complete = report.complete
  BY <1>2, WithPermissionsIs
<1> HIDE DEF after
<1>4. (FatalFound => FatalFound') /\ (~ledger.readable => FatalFound')
  BY <1>1, <1>3, UnresolvedIsFatal DEF FatalFound, Fatal
<1>5. Typed'
  <2>1. IsReport(report)' /\ report'.verdict \in {"PASS", "WARN", "FAIL"} /\ report'.complete \in BOOLEAN
    BY <1>1, <1>3, VerdictTyped DEF IsReport
  <2>2. trouble' \subseteq {"root", "limit", "diff", "links", "ledger"}
    BY <1>1 DEF IInv, Typed, TypeOK
  <2> QED
    BY <1>1, <2>1, <2>2 DEF IInv, Typed, TypeOK, Phases, IsResult, IsPatch, Changes
<1>6. StagesInOrder'
  BY <1>1, <1>2, <1>3 DEF IInv, StagesInOrder, Before
<1>7. TroubleFails'
  <2>1. CASE ledger.readable
    BY <1>1, <1>3, <1>4, <2>1 DEF IInv, TroubleFails, Finishing
  <2>2. CASE ~ledger.readable
    BY <1>1, <1>3, <1>4, <2>2 DEF TroubleFails, Finishing
  <2> QED
    BY <2>1, <2>2
<1>8. PolicyCounts'
  BY <1>1, <1>2, <1>3, UnresolvedIsFatal DEF IInv, PolicyCounts, Before, Passes, Fatal
<1>9. Guarded'
  BY <1>1, <1>2 DEF IInv, Guarded, Acquired, Touches, Changes
<1>10. JudgedWhole => JudgedWhole'
  <2>1. \A f \in report.findings : f \in after.findings \cup {o.finding : o \in after.overrides}
    BY <1>3
  <2> QED
    BY <1>1, <1>2, <2>1 DEF JudgedWhole, Base, Blank
<1>11. Answered'
  BY <1>1, <1>4, <1>10 DEF IInv, Answered, Before, Finishing, Blank
<1> QED
  BY <1>5, <1>6, <1>7, <1>8, <1>9, <1>11 DEF IInv

LEMMA ApplyConfigInv == ASSUME IInv, ApplyConfig PROVE IInv'
<1> DEFINE after == WithConfig(report)
<1>1. /\ pc = "config" /\ report' = after /\ pc' = "after"
      /\ request' = request /\ packet' = packet /\ file' = file /\ ledger' = ledger
      /\ edits' = edits /\ result' = result /\ next' = next /\ trouble' = trouble
      /\ patch' = patch /\ baseline' = baseline
  BY DEF ApplyConfig, Still, world
<1>2. IsReport(report) /\ report.policy /\ report.ignored = {} /\ AuthorityError \notin result.errors
  BY <1>1 DEF IInv, Typed, StagesInOrder, PolicyCounts
<1>3. /\ IsReport(after) /\ after.policy = report.policy /\ after.overrides = report.overrides
      /\ after.complete = report.complete
      /\ \A f \in report.findings : Stays(f) => f \in after.findings
      /\ \A f \in report.findings \ after.findings : f \in after.ignored
  BY <1>2, WithConfigIs
<1> HIDE DEF after
<1>4. FatalFound => FatalFound'
  BY <1>1, <1>3 DEF FatalFound, Fatal
<1>5. Typed'
  <2>1. IsReport(report)' /\ report'.verdict \in {"PASS", "WARN", "FAIL"} /\ report'.complete \in BOOLEAN
    BY <1>1, <1>3, VerdictTyped DEF IsReport
  <2> QED
    BY <1>1, <2>1 DEF IInv, Typed, TypeOK, Phases, IsResult, IsPatch, Changes
<1>6. StagesInOrder'
  BY <1>1, <1>2, <1>3 DEF IInv, StagesInOrder, Before
<1>7. TroubleFails'
  BY <1>1, <1>3, <1>4 DEF IInv, TroubleFails, Finishing
<1>8. PolicyCounts'
  BY <1>1, <1>2, <1>3, UnresolvedIsFatal DEF IInv, PolicyCounts, Before, Passes, Fatal
<1>9. Guarded'
  BY <1>1, <1>2 DEF IInv, Guarded, Acquired, Touches, Changes
<1>10. JudgedWhole => JudgedWhole'
  <2>1. \A f \in report.findings : f \in after.findings \cup after.ignored
    BY <1>3
  <2> QED
    BY <1>1, <1>2, <1>3, <2>1 DEF JudgedWhole, Base, Blank
<1>11. Answered'
  BY <1>1, <1>4, <1>10 DEF IInv, Answered, Before, Finishing, Blank
<1> QED
  BY <1>5, <1>6, <1>7, <1>8, <1>9, <1>11 DEF IInv

LEMMA AfterInv == ASSUME IInv, After PROVE IInv'
<1> DEFINE more == Rebuilt(report, report.findings \cup {Stale})
<1>1. /\ pc = "after" /\ pc' = "done"
      /\ report' = IF "stale" \in next THEN more
                   ELSE IF "incomplete" \in next THEN [report EXCEPT !.complete = FALSE]
                   ELSE report
      /\ request' = request /\ packet' = packet /\ file' = file /\ ledger' = ledger
      /\ edits' = edits /\ result' = result /\ next' = next /\ trouble' = trouble
      /\ patch' = patch /\ baseline' = baseline
  BY DEF After, Still, world
<1> HIDE DEF more
<1>2. IsReport(report) /\ report.policy
  BY <1>1 DEF IInv, Typed, PolicyCounts
<1>3. /\ IsReport(report') /\ report'.policy = report.policy
      /\ report'.overrides = report.overrides /\ report'.ignored = report.ignored
      /\ report.findings \subseteq report'.findings
      /\ "stale" \in next => Stale \in report'.findings /\ report'.complete = report.complete
      /\ "stale" \notin next /\ "incomplete" \in next => report'.complete = FALSE
      /\ "stale" \notin next /\ "incomplete" \notin next => report'.complete = report.complete
  <2>1. CASE "stale" \in next
    <3>1. report' = more
      BY <1>1, <2>1
    <3> USE DEF more
    <3>2. /\ IsReport(more) /\ more.policy = report.policy /\ more.complete = report.complete
          /\ more.findings = report.findings \cup {Stale}
          /\ more.overrides = report.overrides /\ more.ignored = report.ignored
      BY <1>2, RebuiltIs
    <3> HIDE DEF more
    <3> QED
      BY <2>1, <3>1, <3>2
  <2>2. CASE "stale" \notin next /\ "incomplete" \in next
    <3> DEFINE part == [report EXCEPT !.complete = FALSE]
    <3>1. report' = part
      BY <1>1, <2>2
    <3>2. /\ IsReport(part) /\ part.policy = report.policy /\ part.findings = report.findings
          /\ part.overrides = report.overrides /\ part.ignored = report.ignored
          /\ part.complete = FALSE
      BY <1>2 DEF IsReport
    <3> HIDE DEF part
    <3> QED
      BY <2>2, <3>1, <3>2
  <2>3. CASE "stale" \notin next /\ "incomplete" \notin next
    BY <1>1, <1>2, <2>3
  <2> QED
    BY <2>1, <2>2, <2>3
<1>4. FatalFound => FatalFound'
  BY <1>3 DEF FatalFound
<1>5. Typed'
  <2>1. IsReport(report)' /\ report'.verdict \in {"PASS", "WARN", "FAIL"} /\ report'.complete \in BOOLEAN
    BY <1>3, VerdictTyped DEF IsReport
  <2>2. /\ pc' = "done" /\ request' = request /\ packet' = packet /\ file' = file /\ ledger' = ledger
        /\ edits' = edits /\ result' = result /\ next' = next /\ trouble' = trouble
        /\ patch' = patch /\ baseline' = baseline
    BY <1>1
  <2> QED
    BY <2>1, <2>2 DEF IInv, Typed, TypeOK, Phases, IsResult, IsPatch, Changes
<1>6. StagesInOrder'
  BY <1>1, <1>3 DEF IInv, StagesInOrder, Before
<1>7. TroubleFails'
  BY <1>1, <1>3, <1>4 DEF IInv, TroubleFails, Finishing
<1>8. PolicyCounts'
  BY <1>1, <1>2, <1>3 DEF IInv, PolicyCounts, Before, Passes
<1>9. Guarded'
  BY <1>1, <1>2 DEF IInv, Guarded, Acquired, Touches, Changes
<1>10. JudgedWhole => JudgedWhole'
  BY <1>1, <1>3 DEF JudgedWhole, Base, Blank
<1>11. Answered'
  BY <1>1, <1>4, <1>10 DEF IInv, Answered, Before, Finishing, Blank
<1> QED
  BY <1>5, <1>6, <1>7, <1>8, <1>9, <1>11 DEF IInv

\* Somebody edits the policy file or the permissions: the review notices only
\* when it reads them.
LEMMA EditInv == ASSUME IInv, Edit PROVE IInv'
<1>1. /\ pc' = pc /\ request' = request /\ packet' = packet /\ baseline' = baseline
      /\ patch' = patch /\ result' = result /\ report' = report /\ next' = next
      /\ trouble' = trouble /\ edits' = edits + 1 /\ edits < MaxEdits
      /\ file' \in Files /\ ledger' \in Ledgers
  BY DEF Edit, world, IInv, Typed, TypeOK
<1>2. edits' \in 0..MaxEdits
  BY <1>1, ReviewAssumption DEF IInv, Typed, TypeOK
<1>3. Typed'
  BY <1>1, <1>2 DEF IInv, Typed, TypeOK, IsReport, IsResult, IsPatch, Changes
<1>4. StagesInOrder' /\ TroubleFails' /\ PolicyCounts'
  BY <1>1 DEF IInv, StagesInOrder, TroubleFails, PolicyCounts, FatalFound, Passes
<1>5. Guarded'
  BY <1>1 DEF IInv, Guarded, Acquired, Touches, Changes
<1>6. FatalFound' = FatalFound /\ JudgedWhole' = JudgedWhole
  BY <1>1 DEF FatalFound, JudgedWhole, Base, Blank
<1>7. Answered'
  BY <1>1, <1>6 DEF IInv, Answered, Blank
<1> QED
  BY <1>3, <1>4, <1>5, <1>7 DEF IInv

LEMMA StutterInv == ASSUME IInv, UNCHANGED vars PROVE IInv'
<1>1. /\ pc' = pc /\ request' = request /\ packet' = packet /\ baseline' = baseline
      /\ patch' = patch /\ result' = result /\ report' = report /\ next' = next
      /\ trouble' = trouble /\ edits' = edits /\ file' = file /\ ledger' = ledger
  BY DEF vars
<1>2. Typed'
  BY <1>1 DEF IInv, Typed, TypeOK, IsReport, IsResult, IsPatch, Changes
<1>3. StagesInOrder' /\ TroubleFails' /\ PolicyCounts'
  BY <1>1 DEF IInv, StagesInOrder, TroubleFails, PolicyCounts, FatalFound, Passes
<1>4. Guarded'
  BY <1>1 DEF IInv, Guarded, Acquired, Touches, Changes
<1>5. FatalFound' = FatalFound /\ JudgedWhole' = JudgedWhole
  BY <1>1 DEF FatalFound, JudgedWhole, Base, Blank
<1>6. Answered'
  BY <1>1, <1>5 DEF IInv, Answered, Blank
<1> QED
  BY <1>2, <1>3, <1>4, <1>6 DEF IInv

LEMMA StepInv == ASSUME IInv, [Next]_vars PROVE IInv'
BY CheckRequestInv, FindRootInv, ResolvePolicyInv, AcquireDiffInv, AcquireUntrackedInv,
   GuardDiffInv, ReadBaselineInv, BuildBaselineInv, ReadBaseTreeInv, NothingToJudgeInv,
   JudgeInv, ApplyRulesInv, ApplyLocalInv, ApplyConfigInv, AfterInv, EditInv, StutterInv
   DEF Next, Step, Returned

LEMMA Invariance == Spec => []IInv
<1>1. Init => IInv
  BY Begins
<1>2. IInv /\ [Next]_vars => IInv'
  BY StepInv
<1> QED
  BY <1>1, <1>2, PTL DEF Spec

\* Every variable of a review holds a value of its kind.
THEOREM ReviewTyped == Spec => []TypeOK
<1>1. IInv => TypeOK
  BY DEF IInv, Typed
<1> QED
  BY <1>1, Invariance, PTL

-----------------------------------------------------------------------------
(* What a review promises *)

LEMMA FatalFails == ASSUME IInv, FatalFound PROVE report.verdict = "FAIL"
<1>1. report.verdict = VerdictOf(report.findings)
  BY DEF IInv, Typed, IsReport
<1> QED
  BY <1>1, ErrorsFail DEF FatalFound, Fatal

LEMMA UnresolvedFails ==
  ASSUME IInv, report.policy, ~Passes(result)
  PROVE  FatalFound
BY UnresolvedIsFatal DEF IInv, PolicyCounts, FatalFound

LEMMA Partiality == ASSUME IInv PROVE PartialNeverPasses
<1>1. ASSUME Done, trouble # {} PROVE report.verdict = "FAIL"
  BY <1>1, FatalFails DEF IInv, TroubleFails
<1>2. ASSUME Done, trouble \cap {"limit", "links", "ledger"} # {} PROVE ~report.complete
  BY <1>2 DEF IInv, TroubleFails, Done
<1> QED
  BY <1>1, <1>2 DEF PartialNeverPasses

LEMMA Earning == ASSUME IInv PROVE PassIsEarned
<1> SUFFICES ASSUME Done, report.verdict = "PASS"
             PROVE  /\ Passes(result) /\ report.complete
                    /\ ~Blank(patch) =>
                         /\ baseline = "present"
                         /\ \A f \in Judged(packet, Base, patch, NoLinks) :
                              f \in report.findings \cup report.ignored \cup {o.finding : o \in report.overrides}
  BY Partiality DEF PassIsEarned, Base, NoLinks, IInv, Typed
<1>1. ~FatalFound
  BY FatalFails
<1>2. Passes(result)
  BY <1>1, UnresolvedFails DEF IInv, PolicyCounts, Done
<1>3. report.complete
  BY <1>1 DEF IInv, TroubleFails
<1>4. Blank(patch) \/ JudgedWhole
  BY <1>1 DEF IInv, Answered, Finishing, Done
<1>5. JudgedWhole => baseline = "present"
  <2>1. report.verdict = VerdictOf(report.findings)
    BY DEF IInv, Typed, IsReport
  <2>2. Stale \notin report.findings
    <3>1. Stale.sev = "warn"
      BY ErrorIs DEF Stale
    <3> QED
      BY <2>1, <3>1, WarningsDoNotPass
  <2> QED
    BY <2>2 DEF JudgedWhole, Done
<1> QED
  BY <1>2, <1>3, <1>4, <1>5 DEF JudgedWhole

\* A review that passes had all its evidence, a policy that resolved and a
\* baseline that is not stale, and accounts for everything it found; one whose
\* evidence is partial fails and says so.
THEOREM PassesAreEarned == Spec => []PassIsEarned
<1>1. IInv => PassIsEarned
  BY Earning
<1> QED
  BY <1>1, Invariance, PTL

LEMMA Governing == ASSUME IInv PROVE PolicyChangeGovernsNothing
<1> SUFFICES ASSUME Governed, Touches(patch)
             PROVE  report.verdict = "FAIL" /\ report.overrides = {} /\ report.ignored = {}
  BY DEF PolicyChangeGovernsNothing, Touches
<1>1. AuthorityError \in result.errors
  BY DEF IInv, Guarded, Governed
<1>2. report.verdict = "FAIL"
  BY <1>1, UnresolvedFails, FatalFails DEF Governed, Passes
<1> QED
  BY <1>1, <1>2 DEF IInv, StagesInOrder

\* A change of the policy fails its own review, and no permission or ignored
\* path takes a finding of it away.
THEOREM PolicyChangesFail == Spec => []PolicyChangeGovernsNothing
<1>1. IInv => PolicyChangeGovernsNothing
  BY Governing
<1> QED
  BY <1>1, Invariance, PTL

LEMMA LosesNothing ==
  ASSUME IInv, [Next]_vars, pc \in {"rules", "local", "config", "after"}
  PROVE  NothingLost \/ report' = report
<1>1. IsReport(report)
  BY DEF IInv, Typed
<1>2. CASE ApplyRules
  <2>1. ~report.policy /\ report' = WithRules(report, "known" \in next, IF Acquired THEN patch ELSE EmptyPatch)
    BY <1>2 DEF ApplyRules, IInv, StagesInOrder
  <2> QED
    BY <1>1, <2>1, WithRulesIs DEF NothingLost
<1>3. CASE ApplyLocal
  <2>1. /\ report.overrides = {} /\ ledger \in Ledgers /\ report' = WithPermissions(report)
    BY <1>3 DEF ApplyLocal, IInv, StagesInOrder, Typed, TypeOK
  <2>2. /\ report'.ignored = report.ignored
        /\ \A f \in report.findings \ report'.findings :
               \E o \in report'.overrides : o.finding = f /\ o.entry \in ledger.entries
    BY <1>1, <2>1, WithPermissionsIs
  <2> QED
    BY <2>1, <2>2 DEF NothingLost, Accounted
<1>4. CASE ApplyConfig
  <2>1. report.ignored = {} /\ report' = WithConfig(report)
    BY <1>4 DEF ApplyConfig, IInv, StagesInOrder
  <2>2. /\ report'.overrides = report.overrides
        /\ \A f \in report.findings \ report'.findings : f \in report'.ignored
    BY <1>1, <2>1, WithConfigIs
  <2> QED
    BY <2>1, <2>2 DEF NothingLost, Accounted
<1>5. CASE After
  <2> DEFINE more == Rebuilt(report, report.findings \cup {Stale})
             part == [report EXCEPT !.complete = FALSE]
  <2>1. report' \in {more, part, report}
    BY <1>5 DEF After
  <2>2. /\ more.overrides = report.overrides /\ more.ignored = report.ignored
        /\ more.findings = report.findings \cup {Stale}
    BY <1>1, RebuiltIs
  <2>3. /\ part.overrides = report.overrides /\ part.ignored = report.ignored
        /\ part.findings = report.findings
    BY <1>1 DEF IsReport
  <2> HIDE DEF more, part
  <2> QED
    BY <2>1, <2>2, <2>3 DEF NothingLost
<1>6. CASE Edit
  BY <1>6 DEF Edit
<1>7. CASE UNCHANGED vars
  BY <1>7 DEF vars
<1> QED
  BY <1>2, <1>3, <1>4, <1>5, <1>6, <1>7
     DEF Next, Step, Returned, CheckRequest, FindRoot, ResolvePolicy, AcquireDiff,
         AcquireUntracked, GuardDiff, ReadBaseline, BuildBaseline, ReadBaseTree, NothingToJudge, Judge

\* A finding leaves a report only into the record of what was permitted or
\* ignored, and that record stays.
THEOREM FindingsDoNotVanish == Spec => NothingVanishes
<1>1. IInv /\ [Next]_vars => [(pc \in {"rules", "local", "config", "after"}) => NothingLost]_report
  BY LosesNothing
<1> QED
  BY <1>1, Invariance, PTL DEF Spec, NothingVanishes

-----------------------------------------------------------------------------
(* The lines of a change are counted in whole numbers *)

\* What holds for no least number holds for none.
LEMMA Least == ASSUME NEW T, T \subseteq Nat, T # {} PROVE \E x \in T : \A y \in T : ~(y < x)
<1>1. \E x \in T : \A y \in T : ~(<<y, x>> \in OpToRel(<, Nat))
  BY NatLessThanWellFounded, WFMin
<1> QED
  BY <1>1 DEF OpToRel

Sums(g, S, changes) ==
    g = [s \in SUBSET S |->
           IF s = {} THEN 0
           ELSE IF changes[Max(s)].unsafe THEN g[s \ {Max(s)}]
           ELSE g[s \ {Max(s)}] + changes[Max(s)].lines]

LEMMA ChangedLinesIs ==
  ASSUME NEW changes
  PROVE  ChangedLines(changes) = (CHOOSE g : Sums(g, DOMAIN changes, changes))[DOMAIN changes]
BY Zenon DEF ChangedLines, FoldLeft, MapThenFoldSet, Sums

LEMMA MaxIs ==
  ASSUME NEW n \in Nat, NEW s \in SUBSET (1..(n + 1)), n + 1 \in s
  PROVE  Max(s) = n + 1
<1>1. \A y \in s : n + 1 >= y
  OBVIOUS
<1>2. Max(s) \in s /\ \A y \in s : Max(s) >= y
  BY <1>1 DEF Max
<1> DEFINE m == Max(s)
<1>3. m \in s /\ m >= n + 1
  BY <1>2
<1> HIDE DEF m
<1>4. m \in Int /\ n + 1 >= m
  BY <1>1, <1>3
<1>5. m = n + 1
  BY <1>3, <1>4
<1> QED
  BY <1>5 DEF m

\* A sum over the first changes extends to one over one more.
LEMMA SumExtends ==
  ASSUME NEW changes, NEW n \in Nat, NEW g, Sums(g, 1..n, changes)
  PROVE  \E h : Sums(h, 1..(n + 1), changes)
<1> DEFINE Next1(s) == IF changes[n + 1].unsafe THEN g[s \ {n + 1}]
                       ELSE g[s \ {n + 1}] + changes[n + 1].lines
           h == [s \in SUBSET (1..(n + 1)) |-> IF n + 1 \in s THEN Next1(s) ELSE g[s]]
           Value(s) == IF s = {} THEN 0
                       ELSE IF changes[Max(s)].unsafe THEN h[s \ {Max(s)}]
                       ELSE h[s \ {Max(s)}] + changes[Max(s)].lines
<1>1. ASSUME NEW s \in SUBSET (1..(n + 1)) PROVE h[s] = Value(s)
  <2>1. CASE n + 1 \in s
    <3>1. Max(s) = n + 1 /\ s # {}
      BY <2>1, MaxIs
    <3>2. s \ {n + 1} \in SUBSET (1..(n + 1)) /\ n + 1 \notin s \ {n + 1}
      OBVIOUS
    <3>3. h[s \ {n + 1}] = g[s \ {n + 1}]
      BY <3>2
    <3> QED
      BY <2>1, <3>1, <3>3
  <2>2. CASE n + 1 \notin s
    <3>1. s \in SUBSET (1..n)
      BY <2>2
    <3>2. h[s] = g[s]
      BY <2>2
    <3>3. g[s] = IF s = {} THEN 0
                 ELSE IF changes[Max(s)].unsafe THEN g[s \ {Max(s)}]
                 ELSE g[s \ {Max(s)}] + changes[Max(s)].lines
      BY <3>1 DEF Sums
    <3>4. s \ {Max(s)} \in SUBSET (1..(n + 1)) /\ n + 1 \notin s \ {Max(s)}
      BY <2>2
    <3>5. h[s \ {Max(s)}] = g[s \ {Max(s)}]
      BY <3>4
    <3> QED
      BY <3>2, <3>3, <3>5
  <2> QED
    BY <2>1, <2>2
<1>2. h = [s \in SUBSET (1..(n + 1)) |-> Value(s)]
  <2> HIDE DEF Value
  <2> QED
    BY <1>1
<1>3. Sums(h, 1..(n + 1), changes)
  BY <1>2, Zenon DEF Sums
<1> QED
  BY <1>3

LEMMA SumsExist == ASSUME NEW changes, NEW n \in Nat PROVE \E g : Sums(g, 1..n, changes)
<1> DEFINE T == {m \in Nat : ~ \E g : Sums(g, 1..m, changes)}
<1>1. 0 \notin T
  <2> DEFINE g == [s \in SUBSET (1..0) |-> 0]
  <2>1. SUBSET (1..0) = {{}}
    OBVIOUS
  <2>2. g = [s \in SUBSET (1..0) |->
              IF s = {} THEN 0
              ELSE IF changes[Max(s)].unsafe THEN g[s \ {Max(s)}]
              ELSE g[s \ {Max(s)}] + changes[Max(s)].lines]
    BY <2>1
  <2>3. Sums(g, 1..0, changes)
    BY <2>2, Zenon DEF Sums
  <2> QED
    BY <2>3
<1>2. ASSUME NEW m \in T PROVE m - 1 \in T /\ m - 1 < m
  <2>1. m \in Nat \ {0}
    BY <1>1
  <2>2. m - 1 \in Nat /\ (m - 1) + 1 = m /\ m - 1 < m
    BY <2>1
  <2>3. ~ \E g : Sums(g, 1..(m - 1), changes)
    <3> SUFFICES ASSUME NEW g, Sums(g, 1..(m - 1), changes) PROVE FALSE
      OBVIOUS
    <3>1. \E h : Sums(h, 1..((m - 1) + 1), changes)
      BY <2>2, SumExtends
    <3> QED
      BY <2>2, <3>1
  <2> QED
    BY <2>2, <2>3
<1>3. T = {}
  <2> SUFFICES ASSUME T # {} PROVE FALSE
    OBVIOUS
  <2>1. PICK m \in T : \A y \in T : ~(y < m)
    BY Least
  <2> HIDE DEF T
  <2> QED
    BY <1>2, <2>1
<1> QED
  BY <1>3

LEMMA SumsAreNat ==
  ASSUME NEW changes, NEW n \in Nat, NEW g, Sums(g, 1..n, changes),
         \A i \in 1..n : changes[i].lines \in Nat
  PROVE  g[1..n] \in Nat
<1> DEFINE T == {m \in Nat : m <= n /\ \E s \in SUBSET (1..m) : g[s] \notin Nat}
<1>1. \A s \in SUBSET (1..n) :
        g[s] = IF s = {} THEN 0
               ELSE IF changes[Max(s)].unsafe THEN g[s \ {Max(s)}]
               ELSE g[s \ {Max(s)}] + changes[Max(s)].lines
  BY DEF Sums
<1>2. ASSUME NEW m \in T PROVE m - 1 \in T /\ m - 1 < m
  <2>1. PICK s \in SUBSET (1..m) : g[s] \notin Nat
    OBVIOUS
  <2>2. s \in SUBSET (1..n) /\ m <= n /\ m \in Nat
    OBVIOUS
  <2>3. s # {}
    <3>1. s = {} => g[s] = 0
      BY <1>1, <2>2
    <3> QED
      BY <2>1, <3>1
  <2>4. m # 0
    <3>1. 1..0 = {}
      OBVIOUS
    <3> QED
      BY <2>3, <3>1
  <2>5. m - 1 \in Nat /\ (m - 1) + 1 = m /\ m - 1 < m /\ m - 1 <= n
    BY <2>2, <2>4
  <2>6. \E t \in SUBSET (1..(m - 1)) : g[t] \notin Nat
    <3>1. CASE m \in s
      <4>1. Max(s) = m
        BY <2>5, <3>1, MaxIs
      <4>2. s \ {m} \in SUBSET (1..(m - 1)) /\ changes[m].lines \in Nat
        BY <2>2, <2>5, <3>1
      <4>3. \/ g[s] = g[s \ {m}]
            \/ g[s] = g[s \ {m}] + changes[m].lines
        BY <1>1, <2>2, <2>3, <4>1
      <4>4. g[s \ {m}] \notin Nat
        BY <2>1, <4>2, <4>3
      <4> QED
        BY <4>2, <4>4
    <3>2. CASE m \notin s
      BY <2>1, <2>5, <3>2
    <3> QED
      BY <3>1, <3>2
  <2> QED
    BY <2>5, <2>6
<1>3. T = {}
  <2> SUFFICES ASSUME T # {} PROVE FALSE
    OBVIOUS
  <2>1. PICK m \in T : \A y \in T : ~(y < m)
    BY Least
  <2> HIDE DEF T
  <2> QED
    BY <1>2, <2>1
<1> QED
  BY <1>3

\* _policy_changed_line_count: however many changes there are.
LEMMA LinesAreNat == ASSUME NEW p, IsPatch(p) PROVE ChangedLines(p.changes) \in Nat
<1> DEFINE changes == p.changes
           n == Len(changes)
<1>1. changes \in Seq(Changes(p)) /\ n \in Nat /\ DOMAIN changes = 1..n
  BY LenProperties DEF IsPatch
<1>2. \A i \in 1..n : changes[i].lines \in Nat
  BY <1>1, ElementOfSeq DEF IsPatch
<1> HIDE DEF n, changes
<1>3. Sums(CHOOSE g : Sums(g, 1..n, changes), 1..n, changes)
  BY <1>1, SumsExist
<1>4. (CHOOSE g : Sums(g, 1..n, changes))[1..n] \in Nat
  BY <1>1, <1>2, <1>3, SumsAreNat
<1>5. ChangedLines(changes) \in Nat
  BY <1>1, <1>4, ChangedLinesIs
<1> QED
  BY <1>5 DEF changes

-----------------------------------------------------------------------------
(* Rules of the organization *)

Alone(o) ==
    [organization |-> o, repository |-> NoRules, effective |-> Effective(o, NoRules), errors |-> {}]

LEMMA OfPolicyIs ==
  ASSUME NEW id, NEW path, NEW evidence, NEW authority
  PROVE  /\ OfPolicy(id, path, evidence, authority).id = id
         /\ OfPolicy(id, path, evidence, authority).sev = "error"
         /\ OfPolicy(id, path, evidence, authority).cat = "policy"
         /\ OfPolicy(id, path, evidence, authority).path = path
BY DEF OfPolicy, Error, Finding

LEMMA OrganizationsAreNotEligible ==
  ASSUME NEW id, NEW path, NEW evidence, NEW authority, authority # "repository"
  PROVE  ~OfPolicy(id, path, evidence, authority).eligible
<1> DEFINE mine == (authority = "repository")
           f == [Error(id, "policy", path, evidence) EXCEPT !.authority = authority, !.eligible = mine]
<1>1. OfPolicy(id, path, evidence, authority) = f
  BY DEF OfPolicy
<1>2. ~mine
  OBVIOUS
<1> HIDE DEF mine
<1>3. f.eligible = mine
  BY DEF Error, Finding
<1> HIDE DEF f
<1> QED
  BY <1>1, <1>2, <1>3

\* What an organization rules is not for anybody here to permit.
LEMMA OrganizationsAreFatal ==
  ASSUME NEW id, NEW path, NEW evidence, NEW authority, id \notin Suppressible,
         authority # "repository"
  PROVE  Fatal(OfPolicy(id, path, evidence, authority))
<1>1. PICK f : f = OfPolicy(id, path, evidence, authority)
  OBVIOUS
<1>2. f.id = id /\ f.sev = "error" /\ f.cat = "policy" /\ ~f.eligible
  BY <1>1, OfPolicyIs, OrganizationsAreNotEligible
<1>3. \A e : ~Permits(e, f)
  BY <1>2 DEF Permits
<1>4. Fatal(f)
  BY <1>2, <1>3 DEF Fatal, Stays
<1> QED
  BY <1>1, <1>4

LEMMA OrganizationSpeaks ==
  ASSUME NEW S, "organization" \in S
  PROVE  FromSources(S) # "repository"
BY DEF FromSources

LEMMA GlobsOfOrganization ==
  ASSUME NEW r, NEW rule, NEW globs, NEW g \in globs, g \in r.organization[rule]
  PROVE  AuthorityOfGlobs(r, rule, globs) # "repository"
<1> DEFINE Of(h) == Holders(r, rule, LAMBDA v : h \in v)
           all == UNION {Of(h) : h \in globs}
<1>1. "organization" \in Of(g)
  BY DEF Holders
<1>2. AuthorityOfGlobs(r, rule, globs) = FromSources(all)
  BY Zenon DEF AuthorityOfGlobs
<1> HIDE DEF Of
<1>3. "organization" \in all
  BY <1>1
<1> HIDE DEF all
<1> QED
  BY <1>2, <1>3, OrganizationSpeaks

LEMMA RuleOfOrganization ==
  ASSUME NEW r, NEW rule, r.organization[rule] = r.effective[rule]
  PROVE  AuthorityOf(r, rule) # "repository"
<1>1. "organization" \in Holders(r, rule, LAMBDA v : v = r.effective[rule])
  BY DEF Holders
<1> QED
  BY <1>1, OrganizationSpeaks DEF AuthorityOf

\* The rules of a policy, each by itself, for what a change does.
Heeded(patch1) == {c \in Changes(patch1) : ~c.unsafe}
Hits(globs, p) == {g \in globs : p \in Matches[g]}
PathsOf(patch1) == {c.path : c \in Heeded(patch1)}
                   \cup {c.old : c \in {d \in Heeded(patch1) : d.op = "rename"}}
KeptOf(patch1) == {c.path : c \in {d \in Heeded(patch1) : d.op # "delete"}}
AddedOf(k, patch1) == (UNION {c.declares : c \in {d \in Heeded(patch1) : d.applies}}) \ Declared(k)

GlobFinding(id, rule, p, r) ==
    OfPolicy(id, p, Hits(r.effective[rule], p), AuthorityOfGlobs(r, rule, Hits(r.effective[rule], p)))
RuleFinding(id, rule, p, evidence, r) == OfPolicy(id, p, evidence, AuthorityOf(r, rule))
LimitFinding(r) == RuleFinding("policy_change_limit", "max_changed_lines", NoPath, "lines", r)

ByProtection(patch1, r) ==
    {GlobFinding("policy_protected_path", "protected_paths", p, r) :
        p \in {q \in PathsOf(patch1) : Hits(r.effective.protected_paths, q) # {}}}
ByManager(patch1, r) ==
    {RuleFinding("policy_package_manager", "package_manager", p, "pnpm", r) :
        p \in {q \in KeptOf(patch1) \cap Lockfiles : r.effective.package_manager = "pnpm"}}
ByLimit(patch1, r) ==
    IF r.effective.max_changed_lines # Unset
       /\ ChangedLines(patch1.changes) > r.effective.max_changed_lines
    THEN {LimitFinding(r)} ELSE {}
ByTests(patch1, r) ==
    {GlobFinding("policy_test_required", "require_tests_for", p, r) :
        p \in {q \in {c.path : c \in Heeded(patch1)} \ TestPaths :
                  KeptOf(patch1) \cap TestPaths = {} /\ Hits(r.effective.require_tests_for, q) # {}}}
BySecrets(patch1, r) ==
    {RuleFinding("policy_secret_pattern", "block_secret_patterns", c.path, NoPath, r) :
        c \in {d \in Heeded(patch1) : d.secret /\ r.effective.block_secret_patterns}}
ByAdditions(k, known, patch1, r) ==
    {RuleFinding("policy_dependency_addition", "block_dependency_additions", NoPath, d, r) :
        d \in {e \in AddedOf(k, patch1) : known /\ r.effective.block_dependency_additions
                                          /\ \A c \in Heeded(patch1) : ~(c.manifest /\ ~c.applies)}}

LEMMA RuleFindingsAre ==
  ASSUME NEW k, NEW known, NEW p, NEW r
  PROVE  RuleFindings(k, known, p, r) =
           ByProtection(p, r) \cup ByManager(p, r) \cup ByLimit(p, r) \cup ByTests(p, r)
           \cup BySecrets(p, r) \cup ByAdditions(k, known, p, r)
BY Zenon DEF RuleFindings, ByProtection, ByManager, ByLimit, ByTests, BySecrets, ByAdditions,
             GlobFinding, RuleFinding, LimitFinding, Heeded, Hits, PathsOf, KeptOf, AddedOf

LEMMA EffectiveIs ==
  ASSUME NEW o, NEW r
  PROVE  /\ Effective(o, r).block_secret_patterns =>
              o.block_secret_patterns = TRUE \/ r.block_secret_patterns = TRUE
         /\ o.block_secret_patterns = TRUE => Effective(o, r).block_secret_patterns = TRUE
         /\ Effective(o, r).block_dependency_additions =>
              o.block_dependency_additions = TRUE \/ r.block_dependency_additions = TRUE
         /\ o.block_dependency_additions = TRUE => Effective(o, r).block_dependency_additions = TRUE
         /\ Effective(o, r).max_changed_lines = Stricter(o.max_changed_lines, r.max_changed_lines)
         /\ Effective(o, r).package_manager =
              IF Conflicting(o, r) THEN Unset
              ELSE IF o.package_manager # Unset THEN o.package_manager ELSE r.package_manager
<1> DEFINE secrets == (o.block_secret_patterns = TRUE \/ r.block_secret_patterns = TRUE)
           additions == (o.block_dependency_additions = TRUE \/ r.block_dependency_additions = TRUE)
           manager == IF Conflicting(o, r) THEN Unset
                      ELSE IF o.package_manager # Unset THEN o.package_manager
                      ELSE r.package_manager
           limit == Stricter(o.max_changed_lines, r.max_changed_lines)
           e == [block_dependency_additions |-> additions, block_secret_patterns |-> secrets,
                 protected_paths |-> o.protected_paths \cup r.protected_paths,
                 require_tests_for |-> o.require_tests_for \cup r.require_tests_for,
                 max_changed_lines |-> limit, package_manager |-> manager]
<1>1. Effective(o, r) = e
  BY Zenon DEF Effective
<1>2. secrets \in BOOLEAN /\ additions \in BOOLEAN
  OBVIOUS
<1>3. /\ o.block_secret_patterns = TRUE => secrets
      /\ secrets => o.block_secret_patterns = TRUE \/ r.block_secret_patterns = TRUE
      /\ o.block_dependency_additions = TRUE => additions
      /\ additions => o.block_dependency_additions = TRUE \/ r.block_dependency_additions = TRUE
  OBVIOUS
<1> HIDE DEF secrets, additions, manager, limit
<1>4. /\ e.block_secret_patterns = secrets /\ e.block_dependency_additions = additions
      /\ e.max_changed_lines = limit /\ e.package_manager = manager
  OBVIOUS
<1> HIDE DEF e
<1>5. /\ e.block_secret_patterns => o.block_secret_patterns = TRUE \/ r.block_secret_patterns = TRUE
      /\ o.block_secret_patterns = TRUE => e.block_secret_patterns = TRUE
      /\ e.block_dependency_additions =>
           o.block_dependency_additions = TRUE \/ r.block_dependency_additions = TRUE
      /\ o.block_dependency_additions = TRUE => e.block_dependency_additions = TRUE
  BY <1>2, <1>3, <1>4, Zenon
<1> QED
  BY <1>1, <1>4, <1>5, Zenon DEF manager, limit

LEMMA ValuesAre ==
  ASSUME NEW o, NEW r
  PROVE  /\ Effective(o, r).max_changed_lines = Stricter(o.max_changed_lines, r.max_changed_lines)
         /\ Effective(o, r).package_manager =
              IF Conflicting(o, r) THEN Unset
              ELSE IF o.package_manager # Unset THEN o.package_manager ELSE r.package_manager
BY EffectiveIs, Zenon

LEMMA AloneIs ==
  ASSUME NEW o
  PROVE  /\ Alone(o).organization = o /\ Alone(o).effective = Effective(o, NoRules)
         /\ Alone(o).effective.protected_paths = o.protected_paths
         /\ Alone(o).effective.require_tests_for = o.require_tests_for
BY DEF Alone, Effective, NoRules

LEMMA UnsetIsNoValue ==
  Unset # TRUE /\ Unset # FALSE /\ Unset # "pnpm" /\ Unset \notin Limits
BY PolicyAssumption DEF PackageManagers

LEMMA ProtectionHolds ==
  ASSUME NEW p, NEW r, r.effective = Effective(r.organization, r.repository),
         ByProtection(p, Alone(r.organization)) # {}
  PROVE  \E f \in ByProtection(p, r) : Fatal(f)
<1>1. PICK q \in PathsOf(p) : Hits(r.organization.protected_paths, q) # {}
  BY AloneIs DEF ByProtection
<1>2. PICK g \in Hits(r.organization.protected_paths, q) : TRUE
  BY <1>1
<1>3. g \in Hits(r.effective.protected_paths, q) /\ g \in r.organization.protected_paths
  BY <1>2 DEF Hits, Effective
<1> DEFINE f == GlobFinding("policy_protected_path", "protected_paths", q, r)
<1>4. f \in ByProtection(p, r)
  BY <1>3 DEF ByProtection
<1>5. Fatal(f)
  <2>1. AuthorityOfGlobs(r, "protected_paths", Hits(r.effective["protected_paths"], q)) # "repository"
    BY <1>3, GlobsOfOrganization
  <2>2. "policy_protected_path" \notin Suppressible
    BY DEF Suppressible
  <2> QED
    BY <2>1, <2>2, OrganizationsAreFatal DEF GlobFinding
<1> QED
  BY <1>4, <1>5

LEMMA TestsHold ==
  ASSUME NEW p, NEW r, r.effective = Effective(r.organization, r.repository),
         ByTests(p, Alone(r.organization)) # {}
  PROVE  \E f \in ByTests(p, r) : Fatal(f)
<1>1. PICK q \in {c.path : c \in Heeded(p)} \ TestPaths :
         KeptOf(p) \cap TestPaths = {} /\ Hits(r.organization.require_tests_for, q) # {}
  BY AloneIs DEF ByTests
<1>2. PICK g \in Hits(r.organization.require_tests_for, q) : TRUE
  BY <1>1
<1>3. g \in Hits(r.effective.require_tests_for, q) /\ g \in r.organization.require_tests_for
  BY <1>2 DEF Hits, Effective
<1> DEFINE f == GlobFinding("policy_test_required", "require_tests_for", q, r)
<1>4. f \in ByTests(p, r)
  BY <1>1, <1>3 DEF ByTests
<1>5. Fatal(f)
  <2>1. AuthorityOfGlobs(r, "require_tests_for", Hits(r.effective["require_tests_for"], q)) # "repository"
    BY <1>3, GlobsOfOrganization
  <2>2. "policy_test_required" \notin Suppressible
    BY DEF Suppressible
  <2> QED
    BY <2>1, <2>2, OrganizationsAreFatal DEF GlobFinding
<1> QED
  BY <1>4, <1>5

LEMMA PlainIsFatal ==
  ASSUME NEW id, NEW rule, NEW path, NEW evidence, NEW r, id \notin Suppressible,
         r.organization[rule] = r.effective[rule]
  PROVE  Fatal(RuleFinding(id, rule, path, evidence, r))
BY RuleOfOrganization, OrganizationsAreFatal DEF RuleFinding

LEMMA ManagerHolds ==
  ASSUME NEW p, NEW r, r.effective = Effective(r.organization, r.repository),
         r.organization \in Rules, r.repository \in Rules,
         ByManager(p, Alone(r.organization)) # {}
  PROVE  \E f \in ByManager(p, r) : Fatal(f)
<1>1. PICK q \in KeptOf(p) \cap Lockfiles : Alone(r.organization).effective.package_manager = "pnpm"
  BY DEF ByManager
<1>2. r.organization.package_manager = "pnpm"
  BY <1>1, AloneIs, ValuesAre DEF NoRules, Conflicting
<1>3. r.effective.package_manager = "pnpm"
  BY <1>2, UnsetIsNoValue, ValuesAre DEF Conflicting, Rules, PackageManagers
<1> DEFINE f == RuleFinding("policy_package_manager", "package_manager", q, "pnpm", r)
<1>4. f \in ByManager(p, r)
  BY <1>3 DEF ByManager
<1>5. Fatal(f)
  <2>1. "policy_package_manager" \notin Suppressible
    BY DEF Suppressible
  <2> QED
    BY <1>2, <1>3, <2>1, PlainIsFatal
<1> QED
  BY <1>4, <1>5

\* What is over the organization's limit is over the one in effect.
LEMMA LimitHolds ==
  ASSUME NEW p, IsPatch(p), NEW r, r.effective = Effective(r.organization, r.repository),
         r.organization \in Rules, r.repository \in Rules,
         ByLimit(p, Alone(r.organization)) # {}
  PROVE  LimitFinding(r) \in ByLimit(p, r)
<1> DEFINE n == ChangedLines(p.changes)
           o == r.organization.max_changed_lines
           here == r.repository.max_changed_lines
           limit == r.effective.max_changed_lines
<1>1. n \in Nat
  BY LinesAreNat
<1>2. o \in Limits \cup {Unset} /\ here \in Limits \cup {Unset} /\ Limits \subseteq Nat \ {0}
  BY PolicyAssumption DEF Rules
<1>3. limit = Stricter(o, here)
  BY ValuesAre
<1>4. Alone(r.organization).effective.max_changed_lines = o
  BY AloneIs, ValuesAre DEF NoRules, Stricter
<1>5. o # Unset /\ n > o
  BY <1>4 DEF ByLimit
<1> HIDE DEF n, o, here, limit
<1>6. limit # Unset /\ n > limit
  BY <1>1, <1>2, <1>3, <1>5 DEF Stricter
<1> QED
  BY <1>6 DEF ByLimit, n, limit

LEMMA FlagsHold ==
  ASSUME NEW r, r.effective = Effective(r.organization, r.repository)
  PROVE  /\ Alone(r.organization).effective.block_secret_patterns =>
              /\ r.effective.block_secret_patterns
              /\ r.organization.block_secret_patterns = r.effective.block_secret_patterns
         /\ Alone(r.organization).effective.block_dependency_additions =>
              /\ r.effective.block_dependency_additions
              /\ r.organization.block_dependency_additions = r.effective.block_dependency_additions
<1> DEFINE o == r.organization
<1>1. Alone(o).effective = Effective(o, NoRules)
  BY AloneIs
<1>2. NoRules.block_secret_patterns # TRUE /\ NoRules.block_dependency_additions # TRUE
  BY UnsetIsNoValue DEF NoRules
<1>3. Effective(o, NoRules).block_secret_patterns => o.block_secret_patterns = TRUE
  BY <1>2, EffectiveIs, Zenon
<1>4. Effective(o, NoRules).block_dependency_additions => o.block_dependency_additions = TRUE
  BY <1>2, EffectiveIs, Zenon
<1>5. o.block_secret_patterns = TRUE => r.effective.block_secret_patterns = TRUE
  BY EffectiveIs, Zenon
<1>6. o.block_dependency_additions = TRUE => r.effective.block_dependency_additions = TRUE
  BY EffectiveIs, Zenon
<1> QED
  BY <1>1, <1>3, <1>4, <1>5, <1>6, Zenon

LEMMA SecretsHold ==
  ASSUME NEW p, NEW r, r.effective = Effective(r.organization, r.repository),
         r.organization \in Rules, BySecrets(p, Alone(r.organization)) # {}
  PROVE  \E f \in BySecrets(p, r) : Fatal(f)
<1>1. PICK c \in Heeded(p) : c.secret /\ Alone(r.organization).effective.block_secret_patterns
  BY DEF BySecrets
<1>2. /\ r.effective.block_secret_patterns
      /\ r.organization.block_secret_patterns = r.effective.block_secret_patterns
  BY <1>1, FlagsHold
<1> DEFINE f == RuleFinding("policy_secret_pattern", "block_secret_patterns", c.path, NoPath, r)
<1>3. f \in BySecrets(p, r)
  BY <1>1, <1>2 DEF BySecrets
<1>4. "policy_secret_pattern" \notin Suppressible
  BY DEF Suppressible
<1>5. Fatal(f)
  BY <1>2, <1>4, PlainIsFatal
<1> QED
  BY <1>3, <1>5

LEMMA AdditionsHold ==
  ASSUME NEW k, NEW known, NEW p, NEW r, r.effective = Effective(r.organization, r.repository),
         r.organization \in Rules, ByAdditions(k, known, p, Alone(r.organization)) # {}
  PROVE  \E f \in ByAdditions(k, known, p, r) : Fatal(f)
<1>1. PICK d \in AddedOf(k, p) :
         known /\ Alone(r.organization).effective.block_dependency_additions
         /\ \A c \in Heeded(p) : ~(c.manifest /\ ~c.applies)
  BY DEF ByAdditions
<1>2. /\ r.effective.block_dependency_additions
      /\ r.organization.block_dependency_additions = r.effective.block_dependency_additions
  BY <1>1, FlagsHold
<1> DEFINE f == RuleFinding("policy_dependency_addition", "block_dependency_additions", NoPath, d, r)
<1>3. f \in ByAdditions(k, known, p, r)
  BY <1>1, <1>2 DEF ByAdditions
<1>4. "policy_dependency_addition" \notin Suppressible
  BY DEF Suppressible
<1>5. Fatal(f)
  BY <1>2, <1>4, PlainIsFatal
<1> QED
  BY <1>3, <1>5

\* What the organization alone would find is found: it is fatal, or it is the limit.
LEMMA OrganizationCovers ==
  ASSUME NEW k, NEW known, NEW p, IsPatch(p), NEW r, IsResult(r),
         NEW g \in RuleFindings(k, known, p, Alone(r.organization))
  PROVE  \/ \E f \in RuleFindings(k, known, p, r) : Fatal(f)
         \/ g.id = "policy_change_limit" /\ LimitFinding(r) \in RuleFindings(k, known, p, r)
<1> DEFINE o == Alone(r.organization)
<1>1. r.effective = Effective(r.organization, r.repository) /\ r.organization \in Rules /\ r.repository \in Rules
  BY DEF IsResult
<1>2. \/ ByProtection(p, o) # {} \/ ByManager(p, o) # {} \/ g \in ByLimit(p, o)
      \/ ByTests(p, o) # {} \/ BySecrets(p, o) # {} \/ ByAdditions(k, known, p, o) # {}
  BY RuleFindingsAre
<1>3. CASE g \in ByLimit(p, o)
  <2>1. g = LimitFinding(o)
    BY <1>3 DEF ByLimit
  <2>2. g.id = "policy_change_limit"
    BY <2>1, OfPolicyIs DEF LimitFinding, RuleFinding
  <2>3. LimitFinding(r) \in ByLimit(p, r)
    BY <1>1, <1>3, LimitHolds
  <2> QED
    BY <2>2, <2>3, RuleFindingsAre
<1>4. CASE g \notin ByLimit(p, o)
  <2>1. \E f \in ByProtection(p, r) \cup ByManager(p, r) \cup ByTests(p, r)
                  \cup BySecrets(p, r) \cup ByAdditions(k, known, p, r) : Fatal(f)
    BY <1>1, <1>2, <1>4, ProtectionHolds, ManagerHolds, TestsHold, SecretsHold, AdditionsHold
  <2> QED
    BY <2>1, RuleFindingsAre
<1> QED
  BY <1>3, <1>4

\* The limit in effect is exceeded, and either the report says so or a permission
\* for the empty path took what it said.
LimitHeld == LimitFinding(result) \in report.findings \/ LimitLifted

\* Once the rules were applied, what the organization alone would find has failed
\* the review for good, but for its limit on changed lines.
OrganizationHeld ==
    report.policy /\ Acquired =>
        \/ FatalFound
        \/ \A g \in RuleFindings(packet, "known" \in next, patch, Alone(PackRules(request.pack))) :
              g.id = "policy_change_limit" /\ LimitHeld

\* The finding of a limit is permitted by nothing but a path entry without a path,
\* and only when the organization's limit is not the one in effect.
LEMMA LimitPermitted ==
  ASSUME NEW r, NEW e, Permits(e, LimitFinding(r))
  PROVE  /\ e.scope = "path" /\ e.value = NoPath
         /\ r.organization.max_changed_lines # r.effective.max_changed_lines
<1> DEFINE f == LimitFinding(r)
<1>1. f.id = "policy_change_limit" /\ f.cat = "policy" /\ f.path = NoPath
  BY OfPolicyIs DEF LimitFinding, RuleFinding
<1>2. r.organization["max_changed_lines"] = r.effective["max_changed_lines"] => ~f.eligible
  BY RuleOfOrganization, OrganizationsAreNotEligible DEF LimitFinding, RuleFinding
<1> HIDE DEF f
<1>3. Permits(e, f)
  BY DEF f
<1>4. f.eligible /\ e.scope = "path" /\ f.path = e.value
  BY <1>1, <1>3 DEF Permits, InScope, ByDependency, ByCommand
<1> QED
  BY <1>1, <1>2, <1>4

LEMMA LimitStays ==
  ASSUME LimitHeld, result' = result, report.overrides \subseteq report'.overrides,
         LimitFinding(result) \in report.findings =>
             LimitFinding(result) \in report'.findings \/ LimitLifted'
  PROVE  LimitHeld'
<1>1. LimitLifted => LimitLifted'
  BY DEF LimitLifted
<1> QED
  BY <1>1 DEF LimitHeld

\* The stages after the rules take no fatal finding away, nor the one of the limit
\* but by that permission, and look at no other change.
LEMMA FatalStays ==
  ASSUME IInv, [Next]_vars, report.policy
  PROVE  /\ FatalFound => FatalFound'
         /\ LimitHeld => LimitHeld'
         /\ request' = request /\ packet' = packet /\ patch' = patch /\ next' = next
         /\ trouble \subseteq trouble'
<1>1. pc \in {"local", "config", "after", "done"} /\ IsReport(report)
  BY DEF IInv, StagesInOrder, Typed, TypeOK, Before, Phases
<1>2. CASE ApplyLocal
  <2>1. /\ report.overrides = {} /\ ledger \in Ledgers /\ report' = WithPermissions(report)
        /\ request' = request /\ packet' = packet /\ patch' = patch /\ next' = next
        /\ trouble \subseteq trouble' /\ result' = result
    BY <1>2 DEF ApplyLocal, Still, world, IInv, StagesInOrder, Typed, TypeOK
  <2>2. \A f \in report.findings : Stays(f) => f \in report'.findings
    BY <1>1, <2>1, WithPermissionsIs
  <2>3. ASSUME LimitFinding(result) \in report.findings \ report'.findings
        PROVE  LimitLifted'
    <3>1. PICK o \in report'.overrides :
            o.finding = LimitFinding(result) /\ Permits(o.entry, LimitFinding(result))
      BY <1>1, <2>1, <2>3, WithPermissionsIs
    <3>2. /\ o.entry.scope = "path" /\ o.entry.value = NoPath
          /\ result.organization.max_changed_lines # result.effective.max_changed_lines
      BY <3>1, LimitPermitted
    <3>3. o.finding.id = "policy_change_limit"
      BY <3>1, OfPolicyIs DEF LimitFinding, RuleFinding
    <3> QED
      BY <2>1, <3>2, <3>3 DEF LimitLifted
  <2>4. LimitHeld => LimitHeld'
    BY <2>1, <2>3, LimitStays
  <2> QED
    BY <2>1, <2>2, <2>4 DEF FatalFound, Fatal
<1>3. CASE ApplyConfig
  <2>1. /\ report.ignored = {} /\ report' = WithConfig(report)
        /\ request' = request /\ packet' = packet /\ patch' = patch /\ next' = next
        /\ trouble' = trouble /\ result' = result
    BY <1>3 DEF ApplyConfig, Still, world, IInv, StagesInOrder
  <2>2. /\ report'.overrides = report.overrides
        /\ \A f \in report.findings : Stays(f) \/ f.id \notin Suppressible => f \in report'.findings
    BY <1>1, <2>1, WithConfigIs
  <2>3. LimitFinding(result).id \notin Suppressible
    BY OfPolicyIs DEF LimitFinding, RuleFinding, Suppressible
  <2>4. LimitHeld => LimitHeld'
    BY <2>1, <2>2, <2>3, LimitStays
  <2> QED
    BY <2>1, <2>2, <2>4 DEF FatalFound, Fatal
<1>4. CASE After
  <2>1. /\ request' = request /\ packet' = packet /\ patch' = patch /\ next' = next
        /\ trouble' = trouble /\ result' = result
    BY <1>4 DEF After, Still, world
  <2>2. report.findings \subseteq report'.findings /\ report'.overrides = report.overrides
    <3>1. "stale" \in next => report' = Rebuilt(report, report.findings \cup {Stale})
      BY <1>4 DEF After
    <3>2. CASE "stale" \in next
      BY <1>1, <3>1, <3>2, RebuiltIs
    <3>3. CASE "stale" \notin next
      <4>1. report' = [report EXCEPT !.complete = FALSE] \/ report' = report
        BY <1>4, <3>3 DEF After
      <4>2. /\ [report EXCEPT !.complete = FALSE].findings = report.findings
            /\ [report EXCEPT !.complete = FALSE].overrides = report.overrides
        BY <1>1 DEF IsReport
      <4> QED
        BY <4>1, <4>2
    <3> QED
      BY <3>2, <3>3
  <2>3. LimitHeld => LimitHeld'
    BY <2>1, <2>2, LimitStays
  <2> QED
    BY <2>1, <2>2, <2>3 DEF FatalFound
<1>5. CASE Edit
  BY <1>5 DEF Edit, world, FatalFound, LimitHeld, LimitLifted
<1>6. CASE UNCHANGED vars
  BY <1>6 DEF vars, FatalFound, LimitHeld, LimitLifted
<1> QED
  BY <1>1, <1>2, <1>3, <1>4, <1>5, <1>6
     DEF Next, Step, Returned, CheckRequest, FindRoot, ResolvePolicy, AcquireDiff,
         AcquireUntracked, GuardDiff, ReadBaseline, BuildBaseline, ReadBaseTree, NothingToJudge,
         Judge, ApplyRules

\* The one place where a report learns of the policy.
LEMMA RulesHeld ==
  ASSUME IInv, NEW r, IsReport(r), ~r.policy, NEW known,
         result.organization = PackRules(request.pack),
         NEW g \in RuleFindings(packet, known, patch, Alone(PackRules(request.pack)))
  PROVE  LET found == WithRules(r, known, patch).findings
         IN  \/ \E f \in found : Fatal(f)
             \/ g.id = "policy_change_limit" /\ LimitFinding(result) \in found
<1>1. CASE ~Passes(result)
  BY <1>1, WithRulesIs, UnresolvedIsFatal
<1>2. CASE Passes(result)
  <2>1. \/ \E f \in RuleFindings(packet, known, patch, result) : Fatal(f)
        \/ /\ g.id = "policy_change_limit"
           /\ LimitFinding(result) \in RuleFindings(packet, known, patch, result)
    BY OrganizationCovers DEF IInv, Typed
  <2>2. RuleFindings(packet, known, patch, result) \subseteq WithRules(r, known, patch).findings
    BY <1>2, WithRulesIs
  <2> QED
    BY <2>1, <2>2
<1> QED
  BY <1>1, <1>2

LEMMA HeldStep ==
  ASSUME IInv, OrganizationHeld, [Next]_vars
  PROVE  OrganizationHeld'
<1> DEFINE k == ("known" \in next)
           o == Alone(PackRules(request.pack))
<1>1. CASE report.policy
  <2>1. /\ FatalFound => FatalFound'
        /\ LimitHeld => LimitHeld'
        /\ request' = request /\ packet' = packet /\ patch' = patch /\ next' = next
        /\ trouble \subseteq trouble'
    BY <1>1, FatalStays
  <2>2. Acquired' => Acquired
    BY <2>1 DEF Acquired
  <2>3. RuleFindings(packet, k, patch, o)' = RuleFindings(packet, k, patch, o)
    BY <2>1
  <2> QED
    BY <1>1, <2>1, <2>2, <2>3 DEF OrganizationHeld
<1>2. CASE ~report.policy /\ ApplyRules
  <2>1. /\ report' = WithRules(report, k, IF Acquired THEN patch ELSE EmptyPatch)
        /\ request' = request /\ packet' = packet /\ patch' = patch /\ next' = next
        /\ trouble' = trouble /\ result' = result /\ pc = "rules"
    BY <1>2 DEF ApplyRules, Still, world
  <2>2. IsReport(report) /\ result.organization = PackRules(request.pack)
    BY <2>1 DEF IInv, Typed, PolicyCounts
  <2>3. ASSUME Acquired, NEW g \in RuleFindings(packet, k, patch, o)
        PROVE  FatalFound' \/ (g.id = "policy_change_limit" /\ LimitHeld')
    <3> HIDE DEF k
    <3>1. \/ \E f \in WithRules(report, k, patch).findings : Fatal(f)
          \/ /\ g.id = "policy_change_limit"
             /\ LimitFinding(result) \in WithRules(report, k, patch).findings
      BY <1>2, <2>2, <2>3, RulesHeld
    <3>2. report' = WithRules(report, k, patch)
      BY <2>1, <2>3
    <3> QED
      BY <2>1, <3>1, <3>2 DEF FatalFound, LimitHeld
  <2>4. RuleFindings(packet, k, patch, o)' = RuleFindings(packet, k, patch, o) /\ Acquired' = Acquired
    BY <2>1 DEF Acquired
  <2> HIDE DEF k, o
  <2> QED
    BY <2>3, <2>4, Zenon DEF OrganizationHeld, k, o
<1>3. CASE ~report.policy /\ NothingToJudge
  <2> DEFINE found == {Finding("no_diff", "info", "diff", NoPath, NoPath)}
                      \cup (IF baseline = "stale" THEN {Stale} ELSE {})
             first == Report(found)
  <2>1. /\ report' = WithRules(first, FALSE, patch)
        /\ request' = request /\ packet' = packet /\ patch' = patch /\ next' = next
        /\ trouble' = trouble /\ result' = result /\ pc = "judge"
    BY <1>3 DEF NothingToJudge, Still, world
  <2>2. IsReport(first) /\ ~first.policy
    BY ReportIs
  <2>3. result.organization = PackRules(request.pack) /\ next = {}
    BY <2>1 DEF IInv, PolicyCounts, Answered, Before
  <2>4. k = FALSE
    BY <2>3
  <2>5. ASSUME NEW g \in RuleFindings(packet, FALSE, patch, o)
        PROVE  FatalFound' \/ (g.id = "policy_change_limit" /\ LimitHeld')
    <3> HIDE DEF first
    <3>1. \/ \E f \in WithRules(first, FALSE, patch).findings : Fatal(f)
          \/ /\ g.id = "policy_change_limit"
             /\ LimitFinding(result) \in WithRules(first, FALSE, patch).findings
      BY <2>2, <2>3, <2>5, RulesHeld
    <3> QED
      BY <2>1, <3>1 DEF FatalFound, LimitHeld
  <2>6. RuleFindings(packet, k, patch, o)' = RuleFindings(packet, FALSE, patch, o)
    BY <2>1, <2>4
  <2> HIDE DEF k, o, first
  <2> QED
    BY <2>5, <2>6, Zenon DEF OrganizationHeld, k, o
<1>4. CASE ~report.policy /\ ~ApplyRules /\ ~NothingToJudge
  <2>1. ~report'.policy \/ report' = report
    <3>1. pc \notin {"local", "config", "after"}
      BY <1>4 DEF IInv, PolicyCounts
    <3>2. \A id, cat : Failing(id, cat).policy = FALSE
      BY ReportIs DEF Failing
    <3>3. CASE CheckRequest \/ FindRoot \/ AcquireDiff \/ AcquireUntracked \/ ReadBaseline \/ ReadBaseTree
      <4>1. report' = report \/ \E id, cat : report' = Failing(id, cat)
        <5>1. CASE CheckRequest
          BY <5>1, Zenon DEF CheckRequest, Return, Still
        <5>2. CASE FindRoot
          BY <5>2, Zenon DEF FindRoot, Return, Still
        <5>3. CASE AcquireDiff
          BY <5>3, Zenon DEF AcquireDiff, Finish, Still
        <5>4. CASE AcquireUntracked
          BY <5>4, Zenon DEF AcquireUntracked, Finish, Still
        <5>5. CASE ReadBaseline
          <6>1. PICK state \in BaselineStates, dirty \in BOOLEAN :
                  CASE state = "corrupt" -> Finish(Failing("baseline_corrupt", "baseline"), {})
                    [] state = "missing" ->
                         IF request.ci \/ ~Blank(patch) \/ dirty \/ ~request.init
                         THEN Finish(Failing("baseline_missing", "baseline"), {})
                         ELSE pc' = "build" /\ Still(<<result, report, next>>)
                    [] OTHER -> pc' = "tree" /\ Still(<<result, report, next>>)
            BY <5>5, Zenon DEF ReadBaseline
          <6> QED
            BY <6>1 DEF Finish, Still
        <5>6. CASE ReadBaseTree
          BY <5>6, Zenon DEF ReadBaseTree, Finish, Still
        <5> QED
          BY <3>3, <5>1, <5>2, <5>3, <5>4, <5>5, <5>6
      <4> QED
        BY <3>2, <4>1
    <3>4. CASE BuildBaseline
      <4>1. report' = report \/ \E S : report' = Report(S)
        BY <3>4, Zenon DEF BuildBaseline, Finish, Still, Failing
      <4> QED
        BY <4>1, ReportIs
    <3>5. CASE Judge
      <4>1. PICK S, c : report' = [Report(S) EXCEPT !.complete = c]
        BY <3>5 DEF Judge, Finish
      <4>2. [Report(S) EXCEPT !.complete = c].policy = FALSE
        BY ReportIs DEF IsReport
      <4> QED
        BY <4>1, <4>2
    <3>6. CASE ResolvePolicy \/ GuardDiff \/ Edit \/ UNCHANGED vars
      BY <3>6 DEF ResolvePolicy, GuardDiff, Edit, Still, vars
    <3> QED
      BY <1>4, <3>1, <3>3, <3>4, <3>5, <3>6 DEF Next, Step, Returned, ApplyLocal, ApplyConfig, After
  <2> QED
    BY <1>4, <2>1 DEF OrganizationHeld
<1> QED
  BY <1>1, <1>2, <1>3, <1>4

LEMMA HoldsAtTheEnd == ASSUME IInv, OrganizationHeld PROVE OrganizationRuleHolds
<1> DEFINE judged == (~Blank(patch) /\ (baseline = "present" \/ baseline = "stale"))
           known == ("known" \in next)
           o == Alone(PackRules(request.pack))
<1>1. OrganizationFindings = RuleFindings(packet, judged, patch, o)
  BY Zenon DEF OrganizationFindings, Alone
<1> SUFFICES ASSUME Governed, report.verdict # "FAIL", NEW g \in RuleFindings(packet, judged, patch, o)
             PROVE  g.id = "policy_change_limit" /\ LimitLifted
  BY <1>1, Zenon DEF OrganizationRuleHolds
<1>2. ~FatalFound
  BY FatalFails
<1>3. (Blank(patch) /\ "known" \notin next) \/ JudgedWhole
  BY <1>2 DEF IInv, Answered, Governed, Done, Finishing
<1>4. judged \in BOOLEAN /\ known \in BOOLEAN /\ (judged <=> known)
  BY <1>3 DEF JudgedWhole, Blank
<1> HIDE DEF judged, o
<1>5. judged = known
  <2> HIDE DEF known
  <2> QED
    BY <1>4
<1>6. g.id = "policy_change_limit" /\ LimitHeld
  BY <1>2, <1>5, Zenon DEF OrganizationHeld, Governed, o
<1>7. LimitFinding(result) \notin report.findings
  <2>1. LimitFinding(result).sev = "error"
    BY OfPolicyIs DEF LimitFinding, RuleFinding
  <2>2. report.verdict = VerdictOf(report.findings)
    BY DEF IInv, Typed, IsReport
  <2> QED
    BY <2>1, <2>2, ErrorsFail
<1> QED
  BY <1>6, <1>7 DEF LimitHeld

\* A change that breaks a rule of the organization fails, whatever the policy of
\* the repository, the local permissions and the ignored paths say and whenever
\* they are edited; only its limit on changed lines is lifted, and only where the
\* repository's is the lower one and a permission for the empty path is given.
THEOREM OrganizationRules == Spec => []OrganizationRuleHolds
<1>1. Init => OrganizationHeld
  BY Begins DEF Init, OrganizationHeld, IInv, StagesInOrder, Before
<1>2. IInv /\ OrganizationHeld /\ [Next]_vars => OrganizationHeld'
  BY HeldStep
<1>3. IInv /\ OrganizationHeld => OrganizationRuleHolds
  BY HoldsAtTheEnd
<1> QED
  BY <1>1, <1>2, <1>3, Invariance, PTL DEF Spec
=============================================================================
