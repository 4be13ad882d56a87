---------------------------- MODULE ChangeReview ----------------------------
(***************************************************************************)
(* One review of a change: judgment.py, build_repo_change_report and what  *)
(* it applies to a report before it returns it.  The review reads Git, the *)
(* policy file, the ledger of local permissions and the baseline one after *)
(* the other, and somebody may change the files between two of its reads.  *)
(***************************************************************************)
EXTENDS PatchJudgment

CONSTANTS
    Requests,       \* what a review may be asked
    Patches,        \* the changes there may be
    Packets,        \* the trusted packets there may be
    Links,          \* what the inspection of symbolic links may find
    Contracts,      \* what the architecture review may find
    Executions,     \* what the execution ledger may add
    Files,          \* the policy files there may be
    Committed,      \* the policy file of the last commit
    Ledgers,        \* the states that the local permissions may be in
    PolicyPaths,    \* is_policy_authority_path
    MaxEdits        \* edits of other people during the review

ASSUME ReviewAssumption ==
    /\ MaxEdits \in Nat
    /\ \A r \in Requests : r.pack.form = "read" => Written(r.pack.written)
    /\ \A f \in Files : f.form = "read" => Written(f.written)
    /\ \A p \in Patches :
         /\ p \in [changes : Seq(Changes(p)), badhunk : BOOLEAN, binary : SUBSET (Paths \cup {NoPath})]
         /\ \A c \in Changes(p) : c.lines \in Nat

VARIABLES
    pc,         \* the part of the review that comes next
    request,    \* what was asked
    file,       \* .sourcepack/policy.json as it is now
    ledger,     \* the permissions as they are now
    edits,
    packet,     \* the accepted packet
    baseline,   \* its state as the review read it
    patch,      \* the change as the review acquired it
    result,     \* the policy as the review resolved it
    report,
    next,       \* what remains to be done once the policy has been applied
    trouble     \* the acquisitions that failed or met a limit

vars == <<pc, request, file, ledger, edits, packet, baseline, patch, result, report, next, trouble>>
world == <<request, packet>>

GitErrors == {"git_unavailable", "git_timeout", "git_diff_failed"}
BaselineStates == {"present", "stale", "missing", "corrupt"}
Phases == {"request", "root", "resolve", "diff", "untracked", "guard", "baseline", "build",
           "tree", "judge", "rules", "local", "config", "after", "done"}

-----------------------------------------------------------------------------
(* Reports *)

Report(findings) ==
    [findings |-> findings, verdict |-> VerdictOf(findings), complete |-> TRUE,
     policy |-> FALSE, overrides |-> {}, ignored |-> {}]

\* _rebuild_from_findings: what the report knows beside its findings is kept.
\* Mutant: it is not.
Rebuilt_Anew(r, findings) == Report(findings)
Rebuilt(r, findings) == [r EXCEPT !.findings = findings, !.verdict = VerdictOf(findings)]

Failing(id, cat) == Report({Error(id, cat, NoPath, NoPath)})

-----------------------------------------------------------------------------
(* The policy *)

Unresolved == Error("policy_resolution_failed", "policy", NoPath, "policy")

\* Mutant: a policy that does not resolve only leaves its rules out.
WithRules_Quiet(r, known, change) ==
    [(IF ~Passes(result) \/ r.policy THEN r
      ELSE Rebuilt(r, r.findings \cup RuleFindings(packet, known, change, result)))
        EXCEPT !.policy = TRUE]

\* _apply_policy_rules
WithRules(r, known, change) ==
    LET found == IF ~Passes(result) THEN {Unresolved}
                 ELSE IF r.policy THEN {}
                 ELSE RuleFindings(packet, known, change, result)
    IN [(IF found = {} THEN r ELSE Rebuilt(r, r.findings \cup found)) EXCEPT !.policy = TRUE]

Overridable == {"unsupported_dependency", "policy_dependency_addition", "unsupported_command",
                "missing_file", "new_file", "deleted_file", "binary_diff",
                "policy_protected_path", "policy_test_required", "policy_change_limit",
                "policy_secret_pattern", "policy_package_manager"}
ByDependency == {"unsupported_dependency", "policy_dependency_addition"}
ByCommand == {"unsupported_command"}

\* _policy_matches; a permission for a path of the baseline has to say so.
InScope(entry, f) ==
    \/ entry.scope = "dependency" /\ f.id \in ByDependency /\ f.evidence = entry.value
    \/ entry.scope = "command" /\ f.id \in ByCommand /\ f.evidence = entry.value
    \/ /\ entry.scope = "path" /\ f.path = entry.value
       /\ f.id \in Overridable \ (ByDependency \cup ByCommand)
       /\ entry.value \in Protected => entry.high

\* Mutant: whose rule it is does not matter.
Permits_Anyone(entry, f) == f.id \in Overridable /\ InScope(entry, f)
Permits(entry, f) ==
    /\ f.id \in Overridable /\ f.path \notin GitInternal
    /\ f.cat = "policy" => f.eligible
    /\ InScope(entry, f)

Noted == Finding("policy_override", "info", "policy", NoPath, NoPath)

\* _apply_local_policy
WithPermissions(r) ==
    LET Of(f) == {e \in ledger.entries : Permits(e, f)}
        permitted == {f \in r.findings : Of(f) # {}}
        taken == {[entry |-> CHOOSE e \in Of(f) : TRUE, finding |-> f] : f \in permitted}
    IN IF ~ledger.readable
       THEN [Rebuilt(r, r.findings \cup {Unresolved}) EXCEPT !.complete = FALSE]
       ELSE IF permitted = {} THEN r
       ELSE [Rebuilt(r, (r.findings \ permitted) \cup {Noted}) EXCEPT !.overrides = taken]

\* _apply_policy_config, with the policy file as it is by now
WithConfig(r) ==
    LET config == Config(file)
        ignored == {f \in r.findings : Ignored(f, config)}
        kept == (r.findings \ ignored) \cup (IF ignored = {} THEN {} ELSE {Noted})
                \cup (IF config.warned
                      THEN {Warn("policy_config_warning", "policy", NoPath, NoPath)} ELSE {})
    IN [Rebuilt(r, kept) EXCEPT !.ignored = ignored]

\* Mutant: only what the working tree has.
Proposed_Tree(change, answers) ==
    IF answers /\ file # Committed THEN PolicyPaths ELSE {}

\* proposed_policy_paths: what a change names, and what the working tree has
\* against the last commit, when Git answers.
Proposed(change, answers) ==
    (PolicyPaths \cap UNION {{c.path, c.old} : c \in Changes(change)})
    \cup (IF answers /\ file # Committed THEN PolicyPaths ELSE {})

-----------------------------------------------------------------------------
Init ==
    /\ pc = "request" /\ request \in Requests /\ packet \in Packets
    /\ file \in Files /\ ledger \in Ledgers /\ edits = 0
    /\ baseline = "present" /\ patch = EmptyPatch
    /\ result = Resolve(NoPack, "optional", [form |-> "absent"], TRUE)
    /\ report = Report({}) /\ next = {} /\ trouble = {}

Still(S) == UNCHANGED <<world, file, ledger, edits>> /\ UNCHANGED S

\* The review returns without asking for the policy.
Return(r) == pc' = "done" /\ report' = r /\ Still(<<baseline, patch, result, next>>)

\* The policy is applied to the report, and then what `after` says is done.
Finish(r, after) == pc' = "rules" /\ report' = r /\ next' = after /\ Still(<<result>>)

-----------------------------------------------------------------------------
(* The steps of the review. *)

CheckRequest ==
    /\ pc = "request"
    /\ IF request.refs = "one"
       THEN Return(Failing("git_diff_failed", "git")) /\ UNCHANGED trouble
       ELSE /\ pc' = "root" /\ Still(<<baseline, patch, result, report, next, trouble>>)

FindRoot ==
    /\ pc = "root"
    /\ \/ pc' = "resolve" /\ Still(<<baseline, patch, result, report, next, trouble>>)
       \/ \E id \in GitErrors \cup {"no_git_repo"} :
            Return(Failing(id, "git")) /\ trouble' = trouble \cup {"root"}

\* resolve_effective_policy with its guard, and the guard for a patch that was
\* handed in
ResolvePolicy ==
    /\ pc = "resolve"
    /\ \E answers \in BOOLEAN :
         LET policy == ResolveGuarded(request.pack, request.mode, file, TRUE,
                                      Proposed(EmptyPatch, answers))
         IN IF request.source = "patch"
            THEN \E change \in Patches :
                   /\ patch' = change /\ pc' = "guard"
                   /\ result' = Guard(policy, Proposed(change, answers))
            ELSE pc' = "diff" /\ result' = policy /\ UNCHANGED patch
    /\ Still(<<baseline, report, next, trouble>>)

\* git diff
AcquireDiff ==
    /\ pc = "diff"
    /\ \/ /\ \E change \in Patches \cup {EmptyPatch} : patch' = change
          /\ pc' = IF request.source = "worktree" THEN "untracked" ELSE "guard"
          /\ Still(<<baseline, result, report, next, trouble>>)
       \/ /\ trouble' = trouble \cup {"limit"} /\ UNCHANGED <<baseline, patch>>
          /\ Finish(Failing("git_diff_failed", "git"), {"incomplete"})
       \/ /\ trouble' = trouble \cup {"diff"} /\ UNCHANGED <<baseline, patch>>
          /\ \E id \in GitErrors : Finish(Failing(id, "git"), {})

\* untracked_files_as_diff: the change of the working tree gains what is not
\* tracked, or the review ends there.
AcquireUntracked ==
    /\ pc = "untracked"
    /\ \/ /\ \E extra \in {<<>>} \cup {p.changes : p \in Patches} :
                /\ \A i \in DOMAIN extra : extra[i].op = "create"
                /\ patch' = [patch EXCEPT !.changes = @ \o extra]
          /\ pc' = "guard" /\ Still(<<baseline, result, report, next, trouble>>)
       \/ /\ trouble' = trouble \cup {"limit"} /\ patch' = EmptyPatch /\ UNCHANGED baseline
          /\ Finish(Failing("git_diff_failed", "git"), {"incomplete"})

GuardDiff ==
    /\ pc = "guard" /\ pc' = "baseline"
    /\ \E answers \in BOOLEAN : result' = Guard(result, Proposed(patch, answers))
    /\ Still(<<baseline, patch, report, next, trouble>>)

\* dirty: git status sees something that is not in the change
ReadBaseline ==
    /\ pc = "baseline" /\ UNCHANGED <<patch, trouble>>
    /\ \E state \in BaselineStates, dirty \in BOOLEAN :
         /\ baseline' = state
         /\ CASE state = "corrupt" -> Finish(Failing("baseline_corrupt", "baseline"), {})
              [] state = "missing" ->
                   IF request.ci \/ ~Blank(patch) \/ dirty \/ ~request.init
                   THEN Finish(Failing("baseline_missing", "baseline"), {})
                   ELSE pc' = "build" /\ Still(<<result, report, next>>)
              [] OTHER -> pc' = "tree" /\ Still(<<result, report, next>>)

\* build_current_baseline; what it built is read again, and whatever is read
\* then does not stop the review.
BuildBaseline ==
    /\ pc = "build" /\ UNCHANGED <<patch, trouble>>
    /\ \/ pc' = "tree" /\ baseline' \in BaselineStates /\ Still(<<result, report, next>>)
       \/ /\ UNCHANGED baseline
          /\ Finish(Report({Warn("baseline_locked", "tooling", NoPath, NoPath)}), {})
       \/ UNCHANGED baseline /\ Finish(Failing("baseline_failed", "baseline"), {})

\* git ls-tree of the base revision, for a range
ReadBaseTree ==
    /\ pc = "tree" /\ UNCHANGED <<baseline, patch>>
    /\ \/ pc' = "judge" /\ Still(<<result, report, next, trouble>>)
       \/ /\ request.source = "range" /\ trouble' = trouble \cup {"limit"}
          /\ Finish(Failing("git_diff_failed", "git"), {"incomplete"})
       \/ /\ request.source = "range" /\ trouble' = trouble \cup {"diff"}
          /\ Finish(Failing("git_diff_failed", "git"), {})

Stale == Warn("baseline_stale", "uncertainty", NoPath, NoPath)

\* Nothing changed: only the resolution of the policy is looked at.
NothingToJudge ==
    /\ pc = "judge" /\ Blank(patch) /\ pc' = "done"
    /\ LET found == {Finding("no_diff", "info", "diff", NoPath, NoPath)}
                    \cup (IF baseline = "stale" THEN {Stale} ELSE {})
       IN report' = WithRules(Report(found), FALSE, patch)
    /\ Still(<<baseline, patch, result, next, trouble>>)

\* judge_patch_text, _architecture_review and _integrate_execution_findings
Judge ==
    /\ pc = "judge" /\ ~Blank(patch) /\ UNCHANGED <<baseline, patch>>
    /\ \E links \in Links, contract \in Contracts, executions \in Executions :
         LET base == IF request.source = "range" THEN packet.files ELSE {}
             found == Judged(packet, base, patch, links)
         IN /\ Finish([Report(found \cup contract \cup executions)
                          EXCEPT !.complete = ~Partial(patch, links)],
                      IF baseline = "stale" THEN {"known", "stale"} ELSE {"known"})
            /\ trouble' = trouble \cup (IF Partial(patch, links) THEN {"links"} ELSE {})

-----------------------------------------------------------------------------
(* _apply_policy_finishers *)

\* Whether the diff is judged by the rules: not when it could not be acquired.
Acquired == trouble \cap {"limit", "diff"} = {}

ApplyRules ==
    /\ pc = "rules"
    /\ report' = WithRules(report, "known" \in next, IF Acquired THEN patch ELSE EmptyPatch)
    /\ pc' = IF AuthorityError \in result.errors THEN "after" ELSE "local"
    /\ Still(<<baseline, patch, result, next, trouble>>)

ApplyLocal ==
    /\ pc = "local" /\ pc' = "config"
    /\ report' = WithPermissions(report)
    /\ trouble' = trouble \cup (IF ledger.readable THEN {} ELSE {"ledger"})
    /\ Still(<<baseline, patch, result, next>>)

ApplyConfig ==
    /\ pc = "config" /\ pc' = "after"
    /\ report' = WithConfig(report)
    /\ Still(<<baseline, patch, result, next, trouble>>)

\* _finalize_git_incomplete, or the stale baseline of a change that was judged
After ==
    /\ pc = "after" /\ pc' = "done"
    /\ report' = IF "stale" \in next THEN Rebuilt(report, report.findings \cup {Stale})
                 ELSE IF "incomplete" \in next THEN [report EXCEPT !.complete = FALSE]
                 ELSE report
    /\ Still(<<baseline, patch, result, next, trouble>>)

-----------------------------------------------------------------------------
(* Other people *)

Edit ==
    /\ pc # "done" /\ edits < MaxEdits /\ edits' = edits + 1
    /\ \/ \E f \in Files : f # file /\ file' = f /\ UNCHANGED ledger
       \/ \E l \in Ledgers : l # ledger /\ ledger' = l /\ UNCHANGED file
    /\ UNCHANGED <<pc, world, baseline, patch, result, report, next, trouble>>

Returned == pc = "done" /\ UNCHANGED vars

Step ==
    \/ CheckRequest \/ FindRoot \/ ResolvePolicy \/ AcquireDiff \/ AcquireUntracked
    \/ GuardDiff \/ ReadBaseline \/ BuildBaseline \/ ReadBaseTree \/ NothingToJudge
    \/ Judge \/ ApplyRules \/ ApplyLocal \/ ApplyConfig \/ After \/ Edit

Next == Step \/ Returned

Spec == Init /\ [][Next]_vars

-----------------------------------------------------------------------------
(* Properties *)

\* Every variable holds a value of its kind.
TypeOK ==
    /\ pc \in Phases /\ request \in Requests /\ packet \in Packets
    /\ file \in Files /\ ledger \in Ledgers /\ edits \in 0..MaxEdits
    /\ baseline \in BaselineStates
    /\ report.verdict \in {"PASS", "WARN", "FAIL"}
    /\ result.effective \in Rules /\ report.complete \in BOOLEAN
    /\ trouble \subseteq {"root", "limit", "diff", "links", "ledger"}

Done == pc = "done"

\* The review got as far as applying the policy to a report about the change.
Governed == Done /\ report.policy /\ Acquired

\* What the organization's pack by itself says against the change.
OrganizationFindings ==
    LET o == PackRules(request.pack)
        alone == [organization |-> o, repository |-> NoRules,
                  effective |-> Effective(o, NoRules), errors |-> {}]
        judged == ~Blank(patch) /\ (baseline = "present" \/ baseline = "stale")
    IN RuleFindings(packet, judged, patch, alone)

\* The limit in effect is one that the repository set below the organization's,
\* so that the finding is the repository's (judgment.py:1411); it is about no
\* path, and a permission for the empty path, which `allow` accepts, took it.
LimitLifted ==
    /\ result.organization.max_changed_lines # result.effective.max_changed_lines
    /\ \E o \in report.overrides : /\ o.finding.id = "policy_change_limit"
                                   /\ o.entry.scope = "path" /\ o.entry.value = NoPath

\* A change that breaks a rule of the organization fails, whatever the policy
\* of the repository, the local permissions and the ignored paths say, and
\* whenever they are edited during the review; but for the limit on changed
\* lines, which one permission lifts if the repository's is the lower one.
OrganizationRuleHolds ==
    Governed /\ report.verdict # "FAIL" =>
        \A f \in OrganizationFindings : f.id = "policy_change_limit" /\ LimitLifted

\* docs/adversarial-hardening-plan.md:143: organization and mixed authority
\* cannot be weakened by repository changes.  The code gives the limit to the
\* repository that lowers it, and its finding with it, for a permission to take:
\* a change that is over the limit of the organization, too, need not fail.
LowerLimitWeakensNothing ==
    Governed /\ (\E f \in OrganizationFindings : f.id = "policy_change_limit") =>
        report.verdict = "FAIL"

\* A review whose evidence could not be acquired as a whole fails, and what it
\* says of its own completeness outlives every later change of the report.
PartialNeverPasses ==
    Done /\ trouble # {} =>
        /\ report.verdict = "FAIL"
        /\ trouble \cap {"limit", "links", "ledger"} # {} => ~report.complete

\* A change of the policy governs nothing in its own review: it fails and no
\* permission or ignored path takes a finding away.
PolicyChangeGovernsNothing ==
    Governed /\ (\E c \in Changes(patch) : {c.path, c.old} \cap PolicyPaths # {}) =>
        report.verdict = "FAIL" /\ report.overrides = {} /\ report.ignored = {}

\* A review that passes a change had all of its evidence, did so on a baseline
\* that is not stale, with a policy that resolved, and everything found about
\* the change is accounted for by a permission or an ignored path.
PassIsEarned ==
    /\ TypeOK /\ PartialNeverPasses
    /\ Done /\ report.verdict = "PASS" =>
           /\ Passes(result) /\ report.complete
           /\ ~Blank(patch) =>
                /\ baseline = "present"
                /\ \A f \in Judged(packet, IF request.source = "range" THEN packet.files ELSE {},
                                  patch, [collisions |-> {}, incomplete |-> {}]) :
                      f \in report.findings \cup report.ignored \cup {o.finding : o \in report.overrides}

Accounted(f) ==
    f \in report'.ignored
    \/ \E o \in report'.overrides : o.finding = f /\ o.entry \in ledger.entries

NothingLost ==
    /\ report.overrides \subseteq report'.overrides
    /\ report.ignored \subseteq report'.ignored
    /\ \A f \in report.findings \ report'.findings : Accounted(f)

\* A finding leaves a report only into the record of what was permitted by a
\* permission of that moment or ignored by the policy, and that record stays.
NothingVanishes == [][(pc \in {"rules", "local", "config", "after"}) => NothingLost]_report

\* docs/limitations.md:19: a manifest of commands that is not understood fails
\* visibly.  The code drops that resolution: no finding, and the review may pass.
UnparsedManifestFails ==
    (/\ Governed /\ baseline = "present" /\ Rejection(patch) = {}
     /\ \E c \in Claims(patch) : Resolution(packet, patch, c) = "manifest_parse_failure")
        => report.verdict = "FAIL"

=============================================================================
