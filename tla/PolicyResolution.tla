-------------------------- MODULE PolicyResolution --------------------------
(***************************************************************************)
(* How the policy of a review is made (policy.py, policy_authority.py): an *)
(* organization supplies a pack from outside the repository, the           *)
(* repository may add rules to it but take none away, and a change of the  *)
(* repository's policy does not govern the review of that change.          *)
(*                                                                         *)
(* A glob is the set of paths it matches, an identity of contents is the   *)
(* contents, and an error is the reason it stands for.                     *)
(***************************************************************************)
EXTENDS Naturals, FiniteSets

CONSTANTS
    Paths,      \* paths of the repository
    Globs,      \* the patterns of the rules
    Matches,    \* policy_path_matches: the paths each pattern matches
    Limits,     \* the limits on changed lines that somebody may set
    Unset,      \* a rule that is not given
    Bad         \* a value that is not one for the rule

PackageManagers == {"pnpm"}
Flag == BOOLEAN \cup {Unset}

Rules == [block_dependency_additions: Flag, block_secret_patterns: Flag,
          protected_paths: SUBSET Globs, require_tests_for: SUBSET Globs,
          max_changed_lines: Limits \cup {Unset},
          package_manager: PackageManagers \cup {Unset}]

FlagRules == {"block_dependency_additions", "block_secret_patterns"}
PathRules == {"protected_paths", "require_tests_for"}
RuleNames == FlagRules \cup PathRules \cup {"max_changed_lines", "package_manager"}

NoRules == [block_dependency_additions |-> Unset, block_secret_patterns |-> Unset,
            protected_paths |-> {}, require_tests_for |-> {},
            max_changed_lines |-> Unset, package_manager |-> Unset]

ASSUME PolicyAssumption ==
    /\ Matches \in [Globs -> SUBSET Paths]
    /\ Limits \subseteq Nat \ {0}
    /\ \A v \in {Unset, Bad} : v \notin BOOLEAN /\ v \notin Limits /\ v \notin PackageManagers
    /\ Bad # Unset

-----------------------------------------------------------------------------
(* Reading one set of rules: what is written may hold bad values and rules *)
(* that do not exist.                                                      *)

\* Every rule is given a value of its kind, or one that is not.
Written(written) ==
    \E rules \in Rules : \A rule \in RuleNames : written[rule] \in {rules[rule], Bad}

\* _validate_rule_value: a bad value is no value.
Kept(written, rule) == IF written[rule] = Bad THEN NoRules[rule] ELSE written[rule]

\* _rules_from_policy, the rules
Parsed(written) == [rule \in RuleNames |-> Kept(written, rule)]

\* _rules_from_policy, the errors
RuleErrors(written) ==
    {rule \in RuleNames : written[rule] = Bad} \cup (IF written.unknown THEN {"unknown"} ELSE {})

-----------------------------------------------------------------------------
(* The organization's pack. *)

\* Where the supplied path leads and what is found there, in the order the
\* code looks: the first thing wrong decides.
PackForms == {"missing", "unreadable", "inside_repository", "directory", "special",
              "malformed", "not_object", "other_schema", "over_limit", "no_id", "read"}

NoPack == [form |-> "none", written |-> [rule \in RuleNames |-> NoRules[rule]]]

PackStatus(pack, mode) ==
    CASE pack.form = "none" ->
           IF mode = "required" THEN "required_but_missing" ELSE "not_supplied"
      [] pack.form = "inside_repository" -> "trust_boundary_violation"
      [] pack.form = "read" ->
           IF RuleErrors(pack.written) = {} THEN "loaded" ELSE "invalid"
      [] OTHER -> "invalid"

PackErrors(pack, mode) ==
    IF PackStatus(pack, mode) \in {"not_supplied", "loaded"}
    THEN {} ELSE {PackStatus(pack, mode)}

\* The rules that parse count even when others of the pack do not.
PackRules(pack) == IF pack.form = "read" THEN Parsed(pack.written) ELSE NoRules

-----------------------------------------------------------------------------
(* The repository's policy file. *)

FileForms == {"absent", "unreadable", "malformed", "over_limit", "not_object", "read"}

\* validate_policy_config.  A pattern that reaches into .git or the baseline is
\* dropped with a warning, and a reserved field is one more warning.
Validation(file) ==
    LET read == file.form = "read"
        errors == IF read THEN RuleErrors(file.written) ELSE {file.form} \ {"absent"}
    IN [present |-> file.form # "absent",
        valid |-> errors = {},
        errors |-> errors,
        rules |-> IF read THEN Parsed(file.written) ELSE NoRules,
        ignored |-> IF read THEN file.ignored \ file.unsafe ELSE {},
        warned |-> read /\ (file.unsafe # {} \/ file.reserved)]

\* load_policy_config: what is invalid ignores nothing.
Config(file) ==
    LET v == Validation(file)
    IN [ignored |-> IF v.valid THEN v.ignored ELSE {},
        warned |-> v.present /\ (v.warned \/ ~v.valid)]

\* finding_ignored_by_policy
Suppressible == {"new_file"}
Ignored(finding, config) ==
    /\ finding.id \in Suppressible
    /\ \E g \in config.ignored : finding.path \in Matches[g]

-----------------------------------------------------------------------------
(* The policy in effect: _resolve_effective_policy, rule by rule. *)

\* The repository's limit when the organization has none, or the lower one.
Stricter(o, r) ==
    IF o = Unset THEN r ELSE IF r = Unset THEN o ELSE IF r < o THEN r ELSE o

Conflicting(o, r) ==
    o.package_manager # Unset /\ r.package_manager # Unset
    /\ o.package_manager # r.package_manager

Effective(o, r) ==
    [block_dependency_additions |->
        o.block_dependency_additions = TRUE \/ r.block_dependency_additions = TRUE,
     block_secret_patterns |->
        o.block_secret_patterns = TRUE \/ r.block_secret_patterns = TRUE,
     protected_paths |-> o.protected_paths \cup r.protected_paths,
     require_tests_for |-> o.require_tests_for \cup r.require_tests_for,
     max_changed_lines |-> Stricter(o.max_changed_lines, r.max_changed_lines),
     package_manager |-> IF Conflicting(o, r) THEN Unset
                         ELSE IF o.package_manager # Unset THEN o.package_manager
                         ELSE r.package_manager]

\* The rules of the organization that the repository tries to weaken.
Weakened(o, r) ==
    {f \in FlagRules : o[f] = TRUE /\ r[f] = FALSE}
    \cup (IF Unset \notin {o.max_changed_lines, r.max_changed_lines}
             /\ r.max_changed_lines > o.max_changed_lines
          THEN {"max_changed_lines"} ELSE {})

\* rooted: was the root of the repository found?  Without it its file is not read.
Resolve(pack, mode, file, rooted) ==
    LET v == Validation(file)
        o == PackRules(pack)
        r == IF rooted /\ v.valid THEN v.rules ELSE NoRules
        errors == PackErrors(pack, mode)
                  \cup (IF rooted THEN v.errors ELSE {"repository_root_unresolved"})
                  \cup (IF Weakened(o, r) # {} THEN {"repository_policy_weakening_attempt"} ELSE {})
                  \cup (IF Conflicting(o, r) THEN {"policy_conflict"} ELSE {})
    IN [organization |-> o, repository |-> r, effective |-> Effective(o, r), errors |-> errors]

Passes(result) == result.errors = {}

\* guard_effective_policy_result, given the policy paths that the patch, the
\* working tree, the index and the untracked files propose to change.
AuthorityError == "repository_policy_modified_in_proposed_state"
Guard(result, changed) ==
    IF changed = {} THEN result ELSE [result EXCEPT !.errors = @ \cup {AuthorityError}]

\* resolve_effective_policy
ResolveGuarded(pack, mode, file, rooted, changed) ==
    Guard(Resolve(pack, mode, file, rooted), changed)

-----------------------------------------------------------------------------
(* Whose rule it is (judgment.py). *)

\* _authority_from_sources
FromSources(sources) ==
    CASE {"organization", "repository"} \subseteq sources -> "mixed"
      [] "organization" \in sources /\ "repository" \notin sources -> "organization"
      [] OTHER -> "repository"

\* _policy_authority_for_rule: whose value is the one in effect.
Holders(result, rule, holds(_)) ==
    (IF holds(result.organization[rule]) THEN {"organization"} ELSE {})
    \cup (IF holds(result.repository[rule]) THEN {"repository"} ELSE {})

\* _policy_authority_for_matching_values
AuthorityOfGlobs(result, rule, globs) ==
    FromSources(UNION {Holders(result, rule, LAMBDA v : g \in v) : g \in globs})

AuthorityOf(result, rule) ==
    FromSources(Holders(result, rule, LAMBDA v : v = result.effective[rule]))
=============================================================================
