--------------------------- MODULE PatchJudgment ----------------------------
(***************************************************************************)
(* What a patch is judged to be against a trusted packet: judgment.py,     *)
(* judge_patch_text with analyze_patch and patch_report_to_traffic, and    *)
(* commands/__init__.py, resolve_command.                                  *)
(*                                                                         *)
(* A line of a patch is what the judgment looks for in it: an import, a    *)
(* command, a secret, a dependency that a manifest declares.  A dependency *)
(* and the name it is imported under are one value, and the two ecosystems *)
(* are one.  A packet is what its files say:                               *)
(*   inventory   "complete", "incomplete" or "failed"                      *)
(*   files       the paths it lists, when it is not "failed"               *)
(*   included    the paths whose contents it has                           *)
(*   requires    what its manifests declare: the manifest, the dependency, *)
(*               its kind and the version it is pinned to                  *)
(*   workspace   the dependencies that are packages of the repository      *)
(*   aliases     the paths that import aliases make of each dependency     *)
(*   aliasable   whether the configuration of the aliases can be read      *)
(*   tasks       for every manifest of commands, its form and its commands *)
(***************************************************************************)
EXTENDS PolicyResolution, SequencesExt

CONSTANTS
    Deps, Commands,
    Common,         \* COMMON_DEPENDENCIES
    ManifestOf,     \* the manifest that a command is looked up in
    Required,       \* commands whose missing manifest makes them unsupported
    Scripts,        \* the commands `npm run ...`
    Protected,      \* paths under .sourcepack/
    GitInternal,    \* paths under .git/
    Workflows,      \* paths under .github/workflows/
    HighRisk,       \* _is_high_risk_binary_path
    TestPaths,      \* _is_test_path
    Lockfiles,      \* lock files of other package managers than pnpm
    Above,          \* the manifests in a directory on the way up from each path
    RootPins,       \* the requirements files of the root, but those of tests and docs
    NoPin,          \* no version is pinned
    Ecosystems,     \* markers of ecosystems that are not modelled by the program
    NoPath          \* a finding that is about no path, or one that is unknown

Operations == {"modify", "create", "delete", "rename", "malformed"}
Forms == {"absent", "unparsed", "read"}

\* A patch: its changes in order, whether it has a hunk that stands alone or
\* cannot be read, and the paths that Git reports as binary.
EmptyPatch == [changes |-> <<>>, badhunk |-> FALSE, binary |-> {}]

Changes(patch) == {patch.changes[i] : i \in DOMAIN patch.changes}
Blank(patch) == patch = EmptyPatch

-----------------------------------------------------------------------------
(* Findings *)

Finding(id, sev, cat, path, evidence) ==
    [id |-> id, sev |-> sev, cat |-> cat, path |-> path, evidence |-> evidence,
     authority |-> "none", eligible |-> FALSE]

Error(id, cat, path, evidence) == Finding(id, "error", cat, path, evidence)
Warn(id, cat, path, evidence) == Finding(id, "warn", cat, path, evidence)

VerdictOf(findings) ==
    IF \E f \in findings : f.sev = "error" THEN "FAIL"
    ELSE IF \E f \in findings : f.sev = "warn" THEN "WARN" ELSE "PASS"

-----------------------------------------------------------------------------
(* A patch that cannot be judged, in the order the code looks. *)

Rejection(patch) ==
    LET unsafe == {c \in Changes(patch) : c.unsafe}
    IN CASE patch.badhunk -> {Error("malformed_diff", "diff", NoPath, NoPath)}
         [] ~patch.badhunk /\ unsafe # {} ->
              {Error("path_escape", "diff", c.path, c.path) : c \in unsafe}
         [] ~patch.badhunk /\ unsafe = {} /\ \E c \in Changes(patch) : c.op = "malformed" ->
              {Error("malformed_diff", "diff", NoPath, NoPath)}
         [] OTHER -> {}

-----------------------------------------------------------------------------
(* Files *)

\* The base tree, when the patch is a range of revisions, stands for the files
\* that the packet lists.
TrustedFiles(packet, base) == IF base # {} THEN base
                              ELSE IF packet.inventory = "failed" THEN {} ELSE packet.files

FileFindings(packet, base, patch) ==
    LET touched == {c \in Changes(patch) : c.op \in {"modify", "delete"}}
        absent == {c \in touched : c.path \notin TrustedFiles(packet, base)}
        missing == {c \in absent : packet.inventory = "complete" \/ c.path \in packet.included}
        outside == {c \in Changes(patch) : c.op \notin {"create", "delete"}
                                           /\ c.path \notin packet.included}
        Of(op) == {c \in Changes(patch) : c.op = op}
        In(S) == {c \in Changes(patch) : c.path \in S}
    IN {Error("missing_file", "file", c.path, NoPath) : c \in missing}
       \cup {Error("protected_artifact", "artifact", c.path, c.path) : c \in In(Protected)}
       \cup {Error("git_path_modification", "artifact", c.path, c.path) : c \in In(GitInternal)}
       \cup {Warn("workflow_change", "uncertainty", c.path, c.path) : c \in In(Workflows)}
       \cup {Warn("unsupported_rename_copy", "uncertainty", c.path, c.old) : c \in Of("rename")}
       \cup {Warn("new_file", "review", c.path, NoPath) : c \in Of("create")}
       \cup {Warn("deleted_file", "review", c.path, NoPath) : c \in Of("delete")}
       \cup (IF packet.inventory # "complete" /\ outside # {}
             THEN {Warn("baseline_inventory_missing", "uncertainty", NoPath, NoPath)} ELSE {})
       \cup (IF (Ecosystems \cap (TrustedFiles(packet, {}) \cup {c.path : c \in Changes(patch)})) # {}
             THEN {Warn("unsupported_ecosystem", "uncertainty", NoPath, NoPath)} ELSE {})

\* A binary change is not looked into: where it is decides.
BinaryFindings(patch) ==
    {IF p \in HighRisk \cup {NoPath} THEN Error("binary_diff", "diff", p, p)
     ELSE Warn("binary_diff", "uncertainty", p, p) : p \in patch.binary}

-----------------------------------------------------------------------------
(* Dependencies *)

\* The manifests as the patch leaves them; one that the patch does not apply
\* to, or that cannot be parsed afterwards, declares nothing.
PatchDeclares(patch) == UNION {c.declares : c \in {d \in Changes(patch) : d.applies}}
Uncertain(patch) == {c \in Changes(patch) : c.manifest /\ ~c.applies}

\* _declared_dependency_names_by_ecosystem: wherever the manifest is.
Declared(packet) == {r.dep : r \in packet.requires}

\* _declared_dependency_scopes_by_ecosystem and _dependency_scope_status: only
\* the manifests that a path can see count.
ScopeStatus(packet, dep, path) ==
    LET kinds == {r.kind : r \in {q \in packet.requires : q.dep = dep /\ q.in \in Above[path]}}
    IN CASE "runtime" \in kinds -> "supported"
         [] "runtime" \notin kinds /\ "dev" \in kinds ->
              IF path \in TestPaths THEN "supported" ELSE "scope_review"
         [] kinds = {"optional"} -> "scope_review"
         [] OTHER -> "missing"

\* _ambiguous_root_requirement_dependencies: pinned to more than one version.
Ambiguous(packet) ==
    {r.dep : r \in {q \in packet.requires :
        /\ q.in \in RootPins /\ q.pin # NoPin
        /\ \E other \in packet.requires : /\ other.in \in RootPins /\ other.dep = q.dep
                                          /\ other.pin \notin {NoPin, q.pin}}}

\* _js_alias_local: an alias leads to a file of the packet, or nowhere known.
Alias(packet, dep) ==
    CASE ~packet.aliasable -> "unclear"
      [] packet.aliasable /\ packet.aliases[dep] = {} -> "none"
      [] OTHER -> IF packet.aliases[dep] \cap TrustedFiles(packet, {}) # {} THEN "local" ELSE "unclear"

\* analyze_patch knows the common dependencies only.
CommonUnsupported(packet, patch) ==
    {d \in Common : /\ \E c \in Changes(patch) : d \in c.imports
                    /\ d \notin Declared(packet)
                    /\ \A c \in Changes(patch) : d \notin c.adds}

\* What one import of a change does to the names of the unsupported
\* dependencies and to the findings: the names belong to no path, so a later
\* change can take one back.
Import(packet, declared, acc, c, dep) ==
    LET status == ScopeStatus(packet, dep, c.path)
        Keep(id) == [acc EXCEPT !.review = @ \cup {Warn(id, "uncertainty", c.path, dep)}]
        Clear(id) == [Keep(id) EXCEPT !.unsupported = @ \ {dep}]
        alias == Alias(packet, dep)
        ours == dep \in packet.workspace \/ alias = "local"
    IN CASE ours -> acc
         [] ~ours /\ alias = "unclear" -> Keep("js_alias_uncertain")
         [] ~ours /\ alias = "none" /\ dep \in Ambiguous(packet) ->
              Clear("dependency_manifest_uncertain")
         [] OTHER ->
              CASE status = "scope_review" -> Clear("dependency_scope_review")
                [] status = "missing" /\ dep \notin declared ->
                     [acc EXCEPT !.unsupported = @ \cup {dep}]
                [] status # "scope_review" /\ dep \in declared -> Clear("declared_dependency")
                [] OTHER -> acc

Imports(packet, patch) ==
    LET declared == PatchDeclares(patch)
        OfChange(acc, c) ==
            FoldLeft(LAMBDA a, d : Import(packet, declared, a, c, d), acc, SetToSeq(c.imports))
    IN FoldLeft(OfChange, [unsupported |-> CommonUnsupported(packet, patch), review |-> {}],
                patch.changes)

DependencyFindings(packet, patch) ==
    LET imports == Imports(packet, patch)
    IN {Error("unsupported_dependency", "dependency", NoPath, d) : d \in imports.unsupported}
       \cup imports.review
       \cup {Warn("dependency_manifest_uncertain", "uncertainty", c.path, NoPath) : c \in Uncertain(patch)}
       \cup {Warn("declared_dependency", "uncertainty", NoPath, d) :
                d \in PatchDeclares(patch) \ Declared(packet)}

-----------------------------------------------------------------------------
(* Commands: looked up in the packet's manifests with those of the patch   *)
(* laid over them.                                                         *)

Tasks(packet, patch, path) ==
    LET over == {c \in Changes(patch) : c.path = path /\ c.manifest /\ c.applies}
    IN IF over = {} THEN packet.tasks[path] ELSE (CHOOSE c \in over : TRUE).tasks

\* resolve_command
Resolution(packet, patch, command) ==
    LET tasks == Tasks(packet, patch, ManifestOf[command])
    IN CASE tasks.form = "absent" ->
              IF command \in Required THEN "unsupported_command" ELSE "command_manifest_missing"
         [] tasks.form = "unparsed" -> "manifest_parse_failure"
         [] OTHER -> IF command \in tasks.commands THEN "supported" ELSE "unsupported_command"

Claims(patch) == UNION {c.claims : c \in Changes(patch)}

\* A resolution that is not one of the reasons the judgment knows is dropped.
CommandFindings(packet, patch) ==
    LET Resolved(reason) == {c \in Claims(patch) : Resolution(packet, patch, c) = reason}
        fresh == {c \in Claims(patch) \cap Scripts :
                    \E d \in Changes(patch) : /\ d.path = ManifestOf[c] /\ d.manifest /\ d.applies
                                              /\ c \in d.tasks.commands
                                              /\ c \notin packet.tasks[d.path].commands}
    IN {Error("unsupported_command", "command", NoPath, c) : c \in Resolved("unsupported_command")}
       \cup {Warn("command_manifest_missing", "uncertainty", NoPath, c) :
                c \in Resolved("command_manifest_missing")}
       \cup {Warn("declared_command", "uncertainty", NoPath, c) : c \in fresh}

-----------------------------------------------------------------------------
(* Symbolic links: what the inspection of the working tree found. *)

LinkFindings(links) ==
    {Error("symlink_replaces_nonempty_directory", "filesystem", p, p) : p \in links.collisions}
    \cup {Error("symlink_worktree_inspection_incomplete", "filesystem", p, p) : p \in links.incomplete}

-----------------------------------------------------------------------------
Judged(packet, base, patch, links) ==
    IF Rejection(patch) # {} THEN Rejection(patch)
    ELSE FileFindings(packet, base, patch) \cup BinaryFindings(patch)
         \cup DependencyFindings(packet, patch) \cup CommandFindings(packet, patch)
         \cup LinkFindings(links)

\* The evidence behind the judgment is known to be partial.
Partial(patch, links) == Rejection(patch) = {} /\ links.incomplete # {}

-----------------------------------------------------------------------------
(* The rules of the policy: _policy_rule_findings. *)

OfPolicy(id, path, evidence, authority) ==
    [Error(id, "policy", path, evidence)
        EXCEPT !.authority = authority, !.eligible = (authority = "repository")]

\* _policy_changed_line_count
ChangedLines(changes) == FoldLeft(LAMBDA n, c : IF c.unsafe THEN n ELSE n + c.lines, 0, changes)

RuleFindings(packet, known, patch, result) ==
    LET rules == result.effective
        changes == {c \in Changes(patch) : ~c.unsafe}
        Matching(globs, p) == {g \in globs : p \in Matches[g]}
        paths == {c.path : c \in changes} \cup {c.old : c \in {d \in changes : d.op = "rename"}}
        kept == {c.path : c \in {d \in changes : d.op # "delete"}}
        lines == ChangedLines(patch.changes)
        added == (UNION {c.declares : c \in {d \in changes : d.applies}}) \ Declared(packet)
        Globbed(id, rule, p) ==
            LET globs == Matching(rules[rule], p)
            IN OfPolicy(id, p, globs, AuthorityOfGlobs(result, rule, globs))
        Plain(id, rule, p, evidence) == OfPolicy(id, p, evidence, AuthorityOf(result, rule))
    IN {Globbed("policy_protected_path", "protected_paths", p) :
            p \in {q \in paths : Matching(rules.protected_paths, q) # {}}}
       \cup {Plain("policy_package_manager", "package_manager", p, "pnpm") :
                p \in {q \in kept \cap Lockfiles : rules.package_manager = "pnpm"}}
       \cup (IF rules.max_changed_lines # Unset /\ lines > rules.max_changed_lines
             THEN {Plain("policy_change_limit", "max_changed_lines", NoPath, "lines")} ELSE {})
       \cup {Globbed("policy_test_required", "require_tests_for", p) :
                p \in {q \in {c.path : c \in changes} \ TestPaths :
                          kept \cap TestPaths = {} /\ Matching(rules.require_tests_for, q) # {}}}
       \cup {Plain("policy_secret_pattern", "block_secret_patterns", c.path, NoPath) :
                c \in {d \in changes : d.secret /\ rules.block_secret_patterns}}
       \cup {Plain("policy_dependency_addition", "block_dependency_additions", NoPath, d) :
                d \in {e \in added : known /\ rules.block_dependency_additions
                                     /\ \A c \in changes : ~(c.manifest /\ ~c.applies)}}
=============================================================================
