------------------------ MODULE ArchitectureContract ------------------------
(***************************************************************************)
(* The architecture contract of a repository (architecture_contract.py):   *)
(* a file that forbids imports from one layer to another one.  The         *)
(* baseline holds the accepted contract and a state of each of its rules;  *)
(* a change is judged by the accepted contract, never by the one it        *)
(* proposes, and a new baseline carries the state of the rules on.         *)
(*                                                                         *)
(* A file is what the parser finds in it: whether it parses, what it       *)
(* imports, and whether it imports something only known at run time.  A    *)
(* glob of a contract is the set of paths it matches.                      *)
(***************************************************************************)
EXTENDS Naturals, FiniteSets

CONSTANTS
    PyFiles,    \* python files of the repository
    Statements, \* import statements
    Targets,    \* the files an import statement may stand for
    Relative,   \* the import statements that are relative
    Layers,
    RuleIds,
    Trees,      \* what the tree may hold: a contract, as it is parsed, and files
    Absent,     \* no contract
    NoRule,
    NotReviewed

Statuses == {"valid", "preexisting_violation", "drifted", "unverifiable", "retired"}

Rule == [from: Layers, to: Layers, status: {"active", "retired"},
         replaced_by: RuleIds \cup {NoRule}, replaces: SUBSET RuleIds]
Layer == [paths: SUBSET PyFiles, must_match: BOOLEAN]

\* f is a function from a part of D to R.
IsPartial(f, D, R) == DOMAIN f \subseteq D /\ f \in [DOMAIN f -> R]

IsContract(c) ==
    /\ c.coverage \subseteq PyFiles
    /\ IsPartial(c.layers, Layers, Layer)
    /\ IsPartial(c.rules, RuleIds, Rule)

Body == [parses: BOOLEAN, imports: SUBSET Statements, dynamic: BOOLEAN]
Instances == RuleIds \X PyFiles \X PyFiles

\* Before there is anything.
NoFiles == [contract |-> Absent, files |-> [p \in {} |-> NoRule]]

ArchitectureAssumption ==
    /\ Targets \in [Statements -> SUBSET PyFiles]
    /\ Relative \subseteq Statements
    /\ \A t \in Trees : /\ t.contract = Absent \/ IsContract(t.contract)
                        /\ IsPartial(t.files, PyFiles, Body)
    /\ NoFiles \in Trees
    /\ NoRule \notin RuleIds
    /\ NotReviewed # {}

-----------------------------------------------------------------------------
(* Reading a contract. *)

\* validate_contract: the ends of a rule are declared layers, and a rule that
\* is replaced is retired and named by the rule that replaces it.
ValidContract(c) ==
    \A r \in DOMAIN c.rules : LET rule == c.rules[r] IN
        /\ {rule.from, rule.to} \subseteq DOMAIN c.layers
        /\ rule.replaced_by # NoRule =>
             /\ rule.status = "retired"
             /\ rule.replaced_by \in DOMAIN c.rules
             /\ r \in c.rules[rule.replaced_by].replaces

\* load_contract, without its error text.  A file that is not JSON, or names a
\* key twice, is one more contract that is not valid.
ReadableContract(contents) == contents.contract # Absent /\ ValidContract(contents.contract)

\* classify: the layers that match a path the contract covers.
LayersOf(c, p) ==
    IF p \in c.coverage THEN {l \in DOMAIN c.layers : p \in c.layers[l].paths} ELSE {}

Classified(c, files, l) == {p \in DOMAIN files : LayersOf(c, p) = {l}}
Overlapping(c, files) == {p \in DOMAIN files : Cardinality(LayersOf(c, p)) > 1}

\* The classification that a state records.
Classification(c, files) ==
    {n \in (DOMAIN files) \X (DOMAIN c.layers) : LayersOf(c, n[1]) = {n[2]}}

-----------------------------------------------------------------------------
(* Reading a file. *)

\* _resolved_repository_target: an import that may stand for two files of the
\* repository stands for none.
Resolved(i, files) ==
    LET found == Targets[i] \cap DOMAIN files
    IN IF Cardinality(found) = 1 THEN found ELSE {}

\* _imports
Edges(files, p) ==
    IF files[p].parses THEN UNION {Resolved(i, files) : i \in files[p].imports} ELSE {}

Undecided(files, p) ==
    \/ ~files[p].parses
    \/ files[p].dynamic
    \/ \E i \in files[p].imports \cap Relative : Resolved(i, files) = {}

-----------------------------------------------------------------------------
(* The state of a rule, which build_state computes from the contents alone. *)

\* _instance, for every forbidden edge
Violations(c, files, r) ==
    {v \in {r} \X (DOMAIN files) \X (DOMAIN files) :
        /\ LayersOf(c, v[2]) = {c.rules[r].from}
        /\ LayersOf(c, v[3]) = {c.rules[r].to}
        /\ v[3] \in Edges(files, v[2])}

Drifts(c, files, r) ==
    \E l \in {c.rules[r].from, c.rules[r].to} :
        \/ c.layers[l].must_match /\ Classified(c, files, l) = {}
        \/ Overlapping(c, files) \cap c.layers[l].paths # {}

StatusOf(c, files, r) ==
    IF c.rules[r].status = "retired" THEN "retired"
    ELSE IF Drifts(c, files, r) THEN "drifted"
    ELSE IF \E s \in Classified(c, files, c.rules[r].from) : Undecided(files, s)
         THEN "unverifiable"
    ELSE IF Violations(c, files, r) # {} THEN "preexisting_violation"
    ELSE "valid"

RuleState == [status: Statuses, current: SUBSET Instances, complete: BOOLEAN,
              lastValid: SUBSET Instances, lastComplete: BOOLEAN,
              history: SUBSET Statuses]

\* A rule with no prior state.
NoPrior == [status |-> "valid", current |-> {}, complete |-> FALSE,
            lastValid |-> {}, lastComplete |-> TRUE, history |-> {}]

\* The state of a rule that the contract declares.
Restated(c, files, r, prior) ==
    LET status == StatusOf(c, files, r)
    IN [status |-> status,
        current |-> Violations(c, files, r),
        complete |-> status \notin {"drifted", "unverifiable"},
        lastValid |-> IF status \in {"valid", "preexisting_violation"}
                      THEN Violations(c, files, r) ELSE prior.lastValid,
        lastComplete |-> IF status \in {"drifted", "unverifiable"}
                         THEN prior.lastComplete ELSE TRUE,
        history |-> prior.history]

\* Mutant: what an earlier contract left unsettled is forgotten.
Carried_Afresh(prior) ==
    [prior EXCEPT
        !.status = "retired",
        !.history = {prior.status} \cap
                    {"drifted", "unverifiable", "preexisting_violation"}]

\* The state of a rule that the contract no longer declares: retired, and
\* marked when it was not clean.
Carried(prior) ==
    [prior EXCEPT
        !.status = "retired",
        !.history = @ \cup ({prior.status} \cap
                            {"drifted", "unverifiable", "preexisting_violation"})]

\* build_state.  present and valid are about the contract; rules is a function
\* on the rules it has ever had.
BuildState(contents, prior) ==
    LET readable == ReadableContract(contents)
        c == contents.contract
        present == c # Absent
        declared == IF readable THEN DOMAIN c.rules ELSE {}
        carried == IF present /\ ~readable THEN {} ELSE DOMAIN prior.rules \ declared
    IN [present |-> present,
        valid |-> readable \/ ~present,
        rules |-> [r \in declared \cup carried |->
                     IF r \in declared
                     THEN Restated(c, contents.files, r,
                                   IF r \in DOMAIN prior.rules THEN prior.rules[r] ELSE NoPrior)
                     ELSE Carried(prior.rules[r])],
        classification |-> IF readable THEN Classification(c, contents.files) ELSE {}]

IsState(s) ==
    /\ {s.present, s.valid} \subseteq BOOLEAN
    /\ IsPartial(s.rules, RuleIds, RuleState)
    /\ s.classification \subseteq PyFiles \X Layers

NoState == [present |-> FALSE, valid |-> TRUE, rules |-> [r \in {} |-> NoPrior],
            classification |-> {}]

-----------------------------------------------------------------------------
(* Judging a change: evaluate_change.  The contract that counts is that of *)
(* `before`, the accepted one; `state` is the accepted state.              *)

Found(id, at) == [id |-> id, at |-> at]
Blocking == {"architecture_forbidden_import", "architecture_authority_corrupt"}

\* Mutant: a rule that cannot be evaluated any more is passed over.
FromClean_Unseen(r, old, new) ==
    CASE new.status \in {"drifted", "unverifiable"} -> {}
      [] OTHER -> {Found("architecture_forbidden_import", v) : v \in new.current \ old.current}

\* What is found about a rule that was evaluable when the review began.
FromClean(r, old, new) ==
    CASE new.status = "drifted" -> {Found("architecture_contract_drift", r)}
      [] new.status = "unverifiable" ->
           {Found("architecture_rule_unverifiable", r)} \cup
           (IF old.complete THEN {Found("architecture_verifiability_reduced", r)} ELSE {})
      [] OTHER -> {Found("architecture_forbidden_import", v) : v \in new.current \ old.current}

\* What is found about a rule that was not: it blocks nothing, but a violation
\* its last valid state did not have is shown once it can be evaluated again.
FromDrift(r, old, new) ==
    {Found(IF old.status = "drifted" THEN "architecture_contract_drift"
             ELSE "architecture_rule_unverifiable", r)} \cup
    (IF new.status \in {"valid", "preexisting_violation"}
     THEN {Found("architecture_violation_detected_after_drift", v) :
             v \in new.current \ old.lastValid}
     ELSE {})

\* The files whose change could not be projected and that the rule is about.
Unprojected(before, state, r, failed) ==
    {p \in failed : r \in DOMAIN before.contract.rules
                    /\ <<p, before.contract.rules[r].from>> \in state.classification}

RuleReview(before, state, after, r, failed, contractFailed) ==
    LET old == state.rules[r]
        new == after.rules[r]
    IN CASE old.status = "retired" -> {}
         [] old.status # "retired" /\ (contractFailed \/ Unprojected(before, state, r, failed) # {}) ->
              {Found("architecture_rule_unverifiable", r)}
         [] OTHER -> IF old.status \in {"drifted", "unverifiable"}
                     THEN FromDrift(r, old, new) ELSE FromClean(r, old, new)

\* A file that is still there, or was moved, and is in another layer now.
ScopeFindings(state, after, files, moves) ==
    {Found("architecture_scope_changed", p) :
        p \in {q \in DOMAIN files : \E l \in Layers :
                 <<q, l>> \in state.classification /\ <<q, l>> \notin after.classification}}
    \cup
    {Found("architecture_scope_changed", m[2]) :
        m \in {n \in moves : \E l \in Layers :
                 <<n[1], l>> \in state.classification /\ <<n[2], l>> \notin after.classification}}

\* What a proposed contract would do to the accepted rules.
ContractFindings(state, after) ==
    LET kept == IF ReadableContract(after) THEN DOMAIN after.contract.rules ELSE {}
        dirty(r) == state.rules[r].status # "valid" \/ state.rules[r].history # {}
        removed(r) == r \notin kept
        unclean(r) == IF removed(r)
                      THEN \/ state.rules[r].status \in
                                 {"drifted", "unverifiable", "preexisting_violation"}
                           \/ state.rules[r].history # {}
                      ELSE dirty(r)
    IN {Found("architecture_contract_changed", r) : r \in {NoRule}} \cup
       {Found(IF unclean(r) THEN "architecture_rule_retirement_unresolved"
                ELSE "architecture_rule_retired", r) :
          r \in {q \in DOMAIN state.rules :
                   removed(q) \/ after.contract.rules[q].status = "retired"}}

\* The state the accepted contract would have over the proposed files.
Projected(before, after, state) ==
    BuildState([contract |-> before.contract, files |-> after.files], state)

EvaluateChange(before, after, state, moves, failed, contractFailed) ==
    IF ~state.present THEN {}
    ELSE IF ~state.valid THEN {Found("architecture_authority_corrupt", NoRule)}
    ELSE LET new == Projected(before, after, state)
         IN (UNION {RuleReview(before, state, new, r, failed, contractFailed) :
                      r \in DOMAIN state.rules})
            \cup ScopeFindings(state, new, after.files, moves)
            \cup (IF after.contract # before.contract
                  THEN ContractFindings(state, after) ELSE {})

\* _architecture_review: a file whose change does not apply to the accepted
\* contents is left out of what is judged.
Review(before, after, state, damaged, moves, failed, contractFailed) ==
    IF damaged THEN {Found("architecture_authority_corrupt", NoRule)}
    ELSE EvaluateChange(before,
             [contract |-> IF contractFailed THEN Absent ELSE after.contract,
              files |-> [p \in DOMAIN after.files \ failed |-> after.files[p]]],
             state, moves, failed, contractFailed)

-----------------------------------------------------------------------------
(* A repository: its accepted baseline, its working tree and its reviews.  *)

VARIABLES
    accepted,   \* the contents the baseline was built from
    state,      \* the architecture state in the baseline's packet
    damaged,    \* is that state missing or unreadable?
    tree,       \* the contents of the working tree
    findings,   \* what the review of the working tree found
    whole       \* did every changed file apply in that review?

contractVars == <<accepted, state, damaged, tree, findings, whole>>

Ids == {"architecture_forbidden_import", "architecture_authority_corrupt",
        "architecture_contract_drift", "architecture_rule_unverifiable",
        "architecture_verifiability_reduced", "architecture_violation_detected_after_drift",
        "architecture_scope_changed", "architecture_contract_changed",
        "architecture_rule_retired", "architecture_rule_retirement_unresolved"}

ContractTypeOK ==
    /\ accepted \in Trees
    /\ IsState(state)
    /\ damaged \in BOOLEAN
    /\ tree \in Trees
    /\ findings = NotReviewed \/ \A f \in findings : f.id \in Ids
    /\ whole \in BOOLEAN

ContractInit ==
    /\ accepted = NoFiles /\ tree = NoFiles
    /\ state = NoState
    /\ damaged = FALSE
    /\ findings = NotReviewed /\ whole = TRUE

\* Somebody changes files, the contract among them (the environment).
EditTree ==
    /\ tree = accepted
    /\ tree' \in Trees \ {tree}
    /\ findings' = NotReviewed /\ whole' = TRUE
    /\ UNCHANGED <<accepted, state, damaged>>

Discard ==
    /\ tree # accepted
    /\ tree' = accepted
    /\ findings' = NotReviewed /\ whole' = TRUE
    /\ UNCHANGED <<accepted, state, damaged>>

\* The files that a change rewrites: only such a change may fail to apply.
Rewritten(before, after) ==
    {p \in DOMAIN before.files \cap DOMAIN after.files : before.files[p] # after.files[p]}

\* The pairs of paths that git may call a rename.
Renames(before, after) ==
    (DOMAIN before.files \ DOMAIN after.files) \X (DOMAIN after.files \ DOMAIN before.files)

\* `sourcepack diff`, as far as the architecture goes.
ReviewChange ==
    /\ tree # accepted
    /\ findings = NotReviewed
    /\ \E failed \in SUBSET Rewritten(accepted, tree),
          contractFailed \in {b \in BOOLEAN : b => /\ accepted.contract # Absent
                                                   /\ tree.contract \notin {Absent, accepted.contract}},
          moves \in SUBSET Renames(accepted, tree) :
         /\ findings' = Review(accepted, tree, state, damaged, moves, failed, contractFailed)
         /\ whole' = (failed = {} /\ ~contractFailed)
    /\ UNCHANGED <<accepted, state, damaged, tree>>

\* A new baseline is built from the working tree (_write_baseline_packet): a
\* contract that cannot be read is refused, and a damaged state is not carried.
AcceptBaseline ==
    /\ tree.contract = Absent \/ ReadableContract(tree)
    /\ accepted' = tree
    /\ state' = BuildState(tree, IF damaged THEN NoState ELSE state)
    /\ damaged' = FALSE
    /\ findings' = NotReviewed /\ whole' = TRUE
    /\ UNCHANGED tree

\* The packet of the baseline is damaged (the environment).
Damage ==
    /\ ~damaged
    /\ state.present \/ state.rules # NoState.rules
    /\ damaged' = TRUE
    /\ findings' = NotReviewed /\ whole' = TRUE
    /\ UNCHANGED <<accepted, state, tree>>

ContractNext == EditTree \/ Discard \/ ReviewChange \/ AcceptBaseline \/ Damage

ContractSpec == ContractInit /\ [][ContractNext]_contractVars

-----------------------------------------------------------------------------
(* What makes the contract worth having. *)

\* An active rule: one the accepted contract declares and has not retired.
Enforced(s) == {r \in DOMAIN s.rules : s.rules[r].status # "retired"}

\* A change whose review found nothing, and which applied in full, brings no
\* violation of an enforced rule into the next baseline, retires no rule and
\* leaves every rule as verifiable as it was: neither the proposed contract,
\* nor a rename, nor a file that cannot be parsed hides one.
SilentChangeAddsNoViolation ==
    [][accepted' # accepted /\ ~damaged /\ findings = {} /\ whole =>
       \A r \in Enforced(state) :
          /\ r \in Enforced(state')
          /\ state'.rules[r].current \subseteq state.rules[r].current
          /\ state'.rules[r].complete]_contractVars

\* Over the accepted baselines a rule is never forgotten, and what was unsettled
\* when the contract dropped it is never wiped off, whatever the contract
\* becomes, unless the state itself was lost.
HistoryIsKept ==
    []ContractTypeOK /\
    [][damaged \/ \A r \in DOMAIN state.rules :
          /\ r \in DOMAIN state'.rules
          /\ state.rules[r].history \subseteq state'.rules[r].history]_contractVars

=============================================================================
