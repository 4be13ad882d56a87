--------------------------- MODULE ChangeProofs -----------------------------
(***************************************************************************)
(* Theorems about what a change is read to be, for every value of the      *)
(* constants.  ArchitectureContract: what a baseline remembers of its      *)
(* rules, and what a review without findings lets into the next baseline.  *)
(* DiffParser: any diff that Git writes is read exactly, and no path that  *)
(* leaves the repository is overlooked in any text at all.                 *)
(* SymlinkInspection: what a path that becomes a link would destroy is     *)
(* named, whatever other programs replace meanwhile.                       *)
(***************************************************************************)
EXTENDS ArchitectureContract, DiffParser, SymlinkInspection, SequenceTheorems, TLAPS

-----------------------------------------------------------------------------
(* ArchitectureContract: well-formed contents, and the invariant that is inductive *)

DeclaredBy(t) == IF ReadableContract(t) THEN DOMAIN t.contract.rules ELSE {}

\* A rule that is in force was declared, as an active one, by the contract
\* the baseline was accepted with.
EnforcedAreDeclared ==
    \A r \in Enforced(state) :
        r \in DeclaredBy(accepted) /\ accepted.contract.rules[r].status # "retired"

\* The state is about the accepted contract, and that contract can be read.
StateFollowsContract ==
    /\ state.valid = TRUE
    /\ state.present = (accepted.contract # Absent)

\* The findings of a whole review are those of the present tree.
FindingsAreCurrent ==
    findings # NotReviewed /\ whole =>
       \E moves \in SUBSET Renames(accepted, tree) :
          findings = Review(accepted, tree, state, damaged, moves, {}, FALSE)

ContentsTyped == accepted \in Trees /\ tree \in Trees

IInv ==
    /\ ContentsTyped
    /\ IsState(state)
    /\ StateFollowsContract
    /\ EnforcedAreDeclared
    /\ FindingsAreCurrent

-----------------------------------------------------------------------------
(* What build_state returns *)

\* The state of a contract that can be read, or that there is none.
LEMMA BuiltState ==
  ASSUME NEW t, NEW prior, t.contract = Absent \/ ReadableContract(t)
  PROVE  /\ BuildState(t, prior).valid = TRUE
         /\ BuildState(t, prior).present = (t.contract # Absent)
         /\ DOMAIN BuildState(t, prior).rules = DeclaredBy(t) \cup DOMAIN prior.rules
         /\ BuildState(t, prior).classification =
               IF ReadableContract(t) THEN Classification(t.contract, t.files) ELSE {}
         /\ BuildState(t, prior).rules =
               [r \in DeclaredBy(t) \cup DOMAIN prior.rules |->
                  IF r \in DeclaredBy(t)
                  THEN Restated(t.contract, t.files, r,
                                IF r \in DOMAIN prior.rules THEN prior.rules[r] ELSE NoPrior)
                  ELSE Carried(prior.rules[r])]
<1>1. ~(t.contract # Absent /\ ~ReadableContract(t))
  OBVIOUS
<1>2. DeclaredBy(t) \cup (DOMAIN prior.rules \ DeclaredBy(t)) = DeclaredBy(t) \cup DOMAIN prior.rules
  OBVIOUS
<1>3. ReadableContract(t) => t.contract # Absent
  BY DEF ReadableContract
<1> QED
  BY <1>1, <1>2, <1>3 DEF BuildState, DeclaredBy

\* Its rules, one by one.
LEMMA DeclaredRules ==
  ASSUME NEW t, NEW prior, t.contract = Absent \/ ReadableContract(t), NEW r \in DeclaredBy(t)
  PROVE  BuildState(t, prior).rules[r] =
            Restated(t.contract, t.files, r,
                     IF r \in DOMAIN prior.rules THEN prior.rules[r] ELSE NoPrior)
BY BuiltState

LEMMA CarriedRules ==
  ASSUME NEW t, NEW prior, t.contract = Absent \/ ReadableContract(t),
         NEW r \in DOMAIN prior.rules, r \notin DeclaredBy(t)
  PROVE  BuildState(t, prior).rules[r] = Carried(prior.rules[r])
<1>1. r \in DeclaredBy(t) \cup DOMAIN prior.rules
  OBVIOUS
<1>2. BuildState(t, prior).rules =
         [q \in DeclaredBy(t) \cup DOMAIN prior.rules |->
            IF q \in DeclaredBy(t)
            THEN Restated(t.contract, t.files, q,
                          IF q \in DOMAIN prior.rules THEN prior.rules[q] ELSE NoPrior)
            ELSE Carried(prior.rules[q])]
  BY BuiltState
<1> QED
  BY <1>1, <1>2

\* A rule that the contract drops is retired; the marks it had stay.
LEMMA CarriedRule ==
  ASSUME NEW prior \in RuleState
  PROVE  /\ Carried(prior) \in RuleState
         /\ Carried(prior).status = "retired"
         /\ prior.history \subseteq Carried(prior).history
BY DEF Carried, RuleState, Statuses

LEMMA DeclaredRule ==
  ASSUME NEW c, IsContract(c), NEW files, DOMAIN files \subseteq PyFiles,
         NEW r \in DOMAIN c.rules, NEW prior \in RuleState
  PROVE  /\ Restated(c, files, r, prior) \in RuleState
         /\ Restated(c, files, r, prior).history = prior.history
<1>1. r \in RuleIds
  BY DEF IsContract, IsPartial
<1>2. Violations(c, files, r) \in SUBSET Instances
  BY <1>1 DEF Violations, Instances
<1>3. StatusOf(c, files, r) \in Statuses
  BY DEF StatusOf, Statuses
<1> QED
  BY <1>2, <1>3 DEF Restated, RuleState

LEMMA NoPriorTyped == NoPrior \in RuleState
BY DEF NoPrior, RuleState, Statuses, Instances

\* A rule of a readable contract is retired in the state only if it is in the
\* contract.
LEMMA DeclaredStatus ==
  ASSUME NEW c, NEW files, NEW r, NEW prior
  PROVE  /\ Restated(c, files, r, prior).status = StatusOf(c, files, r)
         /\ Restated(c, files, r, prior).current = Violations(c, files, r)
         /\ Restated(c, files, r, prior).complete =
               (StatusOf(c, files, r) \notin {"drifted", "unverifiable"})
         /\ c.rules[r].status = "retired" <=> StatusOf(c, files, r) = "retired"
BY DEF Restated, StatusOf

\* A new baseline's state is a state, and keeps the marks of every rule.
LEMMA NextState ==
  ASSUME ArchitectureAssumption, NEW t \in Trees, t.contract = Absent \/ ReadableContract(t),
         NEW prior, IsState(prior)
  PROVE  /\ IsState(BuildState(t, prior))
         /\ \A r \in DOMAIN prior.rules :
               /\ r \in DOMAIN BuildState(t, prior).rules
               /\ prior.rules[r].history \subseteq BuildState(t, prior).rules[r].history
<1> DEFINE s == BuildState(t, prior)
           old(r) == IF r \in DOMAIN prior.rules THEN prior.rules[r] ELSE NoPrior
<1>1. /\ ReadableContract(t) => IsContract(t.contract)
      /\ DOMAIN t.files \subseteq PyFiles
  BY DEF ArchitectureAssumption, ReadableContract, IsPartial
<1>2. \A r \in DOMAIN prior.rules : r \in RuleIds /\ prior.rules[r] \in RuleState
  BY DEF IsState, IsPartial
<1>3. \A r : old(r) \in RuleState
  BY <1>2, NoPriorTyped
<1>4. ASSUME NEW r \in DeclaredBy(t)
      PROVE  /\ r \in RuleIds
             /\ s.rules[r] \in RuleState /\ s.rules[r].history = old(r).history
  <2>1. ReadableContract(t) /\ IsContract(t.contract) /\ r \in DOMAIN t.contract.rules
    BY <1>1 DEF DeclaredBy
  <2>2. s.rules[r] = Restated(t.contract, t.files, r, old(r))
    BY DeclaredRules
  <2>3. r \in RuleIds
    BY <2>1 DEF IsContract, IsPartial
  <2> QED
    BY <2>1, <2>2, <2>3, <1>1, <1>3, DeclaredRule
<1>5. ASSUME NEW r \in DOMAIN prior.rules, r \notin DeclaredBy(t)
      PROVE  s.rules[r] \in RuleState /\ prior.rules[r].history \subseteq s.rules[r].history
  <2>1. s.rules[r] = Carried(prior.rules[r])
    BY <1>5, CarriedRules
  <2> QED
    BY <2>1, <1>2, CarriedRule
<1>6. DOMAIN s.rules = DeclaredBy(t) \cup DOMAIN prior.rules
  BY BuiltState
<1>7. {s.present, s.valid} \subseteq BOOLEAN
  BY BuiltState
<1>8. s.classification \subseteq PyFiles \X Layers
  <2>1. CASE ReadableContract(t)
    <3>1. DOMAIN t.contract.layers \subseteq Layers
      BY <2>1, <1>1 DEF IsContract, IsPartial
    <3>2. s.classification = Classification(t.contract, t.files)
      BY <2>1, BuiltState
    <3>3. Classification(t.contract, t.files) \subseteq (DOMAIN t.files) \X (DOMAIN t.contract.layers)
      BY DEF Classification
    <3>4. (DOMAIN t.files) \X (DOMAIN t.contract.layers) \subseteq PyFiles \X Layers
      BY <3>1, <1>1
    <3> QED
      BY <3>2, <3>3, <3>4
  <2>2. CASE ~ReadableContract(t)
    BY <2>2, BuiltState
  <2> QED
    BY <2>1, <2>2
<1>9. IsPartial(s.rules, RuleIds, RuleState)
  <2>1. s.rules = [r \in DOMAIN s.rules |-> s.rules[r]]
    BY BuiltState
  <2>2. \A r \in DOMAIN s.rules : r \in RuleIds /\ s.rules[r] \in RuleState
    BY <1>2, <1>4, <1>5, <1>6
  <2> HIDE DEF s
  <2> QED
    BY <2>1, <2>2 DEF IsPartial
<1> HIDE DEF s
<1>10. IsState(s)
  BY <1>7, <1>8, <1>9 DEF IsState
<1>11. \A r \in DOMAIN prior.rules : r \in DOMAIN s.rules /\ prior.rules[r].history \subseteq s.rules[r].history
  BY <1>4, <1>5, <1>6
<1> QED
  BY <1>10, <1>11 DEF s

\* A rule that is in force in the new state is an active one of the contract.
LEMMA NewlyEnforced ==
  ASSUME NEW t, t.contract = Absent \/ ReadableContract(t), NEW prior, IsState(prior),
         NEW r \in Enforced(BuildState(t, prior))
  PROVE  r \in DeclaredBy(t) /\ t.contract.rules[r].status # "retired"
<1> DEFINE s == BuildState(t, prior)
<1>1. r \in DOMAIN s.rules /\ s.rules[r].status # "retired"
  BY DEF Enforced
<1>2. r \in DeclaredBy(t) \cup DOMAIN prior.rules
  BY <1>1, BuiltState
<1>3. CASE r \in DeclaredBy(t)
  <2>1. s.rules[r] = Restated(t.contract, t.files, r,
                              IF r \in DOMAIN prior.rules THEN prior.rules[r] ELSE NoPrior)
    BY <1>3, DeclaredRules
  <2> QED
    BY <1>1, <1>3, <2>1, DeclaredStatus
<1>4. CASE r \notin DeclaredBy(t)
  <2>1. s.rules[r] = Carried(prior.rules[r]) /\ prior.rules[r] \in RuleState
    BY <1>2, <1>4, CarriedRules DEF IsState, IsPartial
  <2> QED
    BY <1>1, <2>1, CarriedRule
<1> QED
  BY <1>3, <1>4

-----------------------------------------------------------------------------
(* The invariant *)

LEMMA InitIInv == ASSUME ArchitectureAssumption, ContractInit PROVE IInv
<1>1. NoFiles \in Trees
  BY DEF ArchitectureAssumption
<1>2. IsState(NoState)
  BY DEF IsState, NoState, IsPartial
<1>3. Enforced(state) = {}
  BY DEF ContractInit, NoState, Enforced
<1> QED
  BY <1>1, <1>2, <1>3
     DEF ContractInit, IInv, ContentsTyped, StateFollowsContract, EnforcedAreDeclared, FindingsAreCurrent,
         NoState, NoFiles

LEMMA AcceptIInv ==
  ASSUME ArchitectureAssumption, IInv, AcceptBaseline
  PROVE  IInv'
<1>1. PICK prior \in {state, NoState} : state' = BuildState(tree, prior)
  BY DEF AcceptBaseline
<1>2. IsState(prior)
  <2>1. IsState(NoState)
    BY DEF IsState, NoState, IsPartial
  <2> QED
    BY <1>1, <2>1 DEF IInv
<1>3. tree \in Trees /\ (tree.contract = Absent \/ ReadableContract(tree))
  BY DEF AcceptBaseline, IInv, ContentsTyped
<1>4. ContentsTyped' /\ accepted' = tree
  BY <1>3 DEF AcceptBaseline, ContentsTyped
<1>5. IsState(state')
  BY <1>1, <1>2, <1>3, NextState
<1>6. StateFollowsContract'
  BY <1>1, <1>3, <1>4, BuiltState DEF StateFollowsContract
<1>7. \A r \in Enforced(state') : r \in DeclaredBy(tree) /\ tree.contract.rules[r].status # "retired"
  BY <1>1, <1>2, <1>3, NewlyEnforced
<1>8. EnforcedAreDeclared'
  BY <1>4, <1>7 DEF EnforcedAreDeclared, DeclaredBy, ReadableContract, ValidContract
<1>9. FindingsAreCurrent'
  BY DEF AcceptBaseline, FindingsAreCurrent
<1>10. IsState(state)'
  BY <1>5 DEF IsState, IsPartial
<1> QED
  BY <1>4, <1>6, <1>8, <1>9, <1>10 DEF IInv

LEMMA StepIInv ==
  ASSUME ArchitectureAssumption, IInv, [ContractNext]_contractVars
  PROVE  IInv'
<1> DEFINE Kept == UNCHANGED <<accepted, state>>
<1>1. ASSUME Kept
      PROVE  IsState(state)' /\ StateFollowsContract' /\ EnforcedAreDeclared'
  BY <1>1 DEF IInv, IsState, StateFollowsContract, EnforcedAreDeclared, Enforced, DeclaredBy, ReadableContract
<1>2. CASE EditTree
  <2>1. ContentsTyped' /\ FindingsAreCurrent'
    BY <1>2 DEF EditTree, IInv, ContentsTyped, FindingsAreCurrent
  <2> QED
    BY <1>1, <1>2, <2>1 DEF EditTree, IInv
<1>3. CASE Discard
  <2>1. ContentsTyped' /\ FindingsAreCurrent'
    BY <1>3 DEF Discard, IInv, ContentsTyped, FindingsAreCurrent
  <2> QED
    BY <1>1, <1>3, <2>1 DEF Discard, IInv
<1>4. CASE ReviewChange
  <2>1. ContentsTyped'
    BY <1>4 DEF ReviewChange, IInv, ContentsTyped
  <2>2. UNCHANGED <<accepted, state, damaged, tree>>
    BY <1>4 DEF ReviewChange
  <2>3. whole' => \E moves \in SUBSET Renames(accepted, tree) :
                     findings' = Review(accepted, tree, state, damaged, moves, {}, FALSE)
    BY <1>4 DEF ReviewChange
  <2>4. FindingsAreCurrent'
    BY <2>2, <2>3 DEF FindingsAreCurrent
  <2> QED
    BY <1>1, <2>1, <2>2, <2>4 DEF IInv
<1>5. CASE AcceptBaseline
  BY <1>5, AcceptIInv
<1>6. CASE Damage
  <2>1. ContentsTyped' /\ FindingsAreCurrent'
    BY <1>6 DEF Damage, IInv, ContentsTyped, FindingsAreCurrent
  <2> QED
    BY <1>1, <1>6, <2>1 DEF Damage, IInv
<1>7. CASE UNCHANGED contractVars
  <2>1. ContentsTyped'
    BY <1>7 DEF contractVars, IInv, ContentsTyped
  <2>2. FindingsAreCurrent'
    BY <1>7 DEF contractVars, IInv, FindingsAreCurrent
  <2> QED
    BY <1>1, <1>7, <2>1, <2>2 DEF contractVars, IInv
<1> QED
  BY <1>2, <1>3, <1>4, <1>5, <1>6, <1>7 DEF ContractNext

LEMMA Invariance == ASSUME ArchitectureAssumption PROVE ContractSpec => []IInv
<1>1. ContractInit => IInv
  BY InitIInv
<1>2. IInv /\ [ContractNext]_contractVars => IInv'
  BY StepIInv
<1> QED
  BY <1>1, <1>2, PTL DEF ContractSpec

-----------------------------------------------------------------------------
(* What a review may say *)

LEMMA RuleReviewIds ==
  ASSUME NEW before, NEW s, NEW after, NEW r, NEW failed, NEW contractFailed,
         NEW f \in RuleReview(before, s, after, r, failed, contractFailed)
  PROVE  f.id \in Ids
<1> DEFINE old == s.rules[r]
           new == after.rules[r]
<1>1. ASSUME NEW o, NEW n, f \in FromClean(r, o, n) PROVE f.id \in Ids
  BY <1>1 DEF FromClean, Found, Ids
<1>2. ASSUME NEW o, NEW n, f \in FromDrift(r, o, n) PROVE f.id \in Ids
  BY <1>2 DEF FromDrift, Found, Ids
<1>3. \/ f \in {Found("architecture_rule_unverifiable", r)}
      \/ f \in FromDrift(r, old, new)
      \/ f \in FromClean(r, old, new)
  BY DEF RuleReview
<1>4. Found("architecture_rule_unverifiable", r).id \in Ids
  BY DEF Found, Ids
<1> QED
  BY <1>1, <1>2, <1>3, <1>4

LEMMA ReviewIds ==
  ASSUME NEW before, NEW after, NEW s, NEW hurt, NEW moves, NEW failed, NEW contractFailed,
         NEW f \in Review(before, after, s, hurt, moves, failed, contractFailed)
  PROVE  f.id \in Ids
<1>1. ASSUME NEW t, NEW u, NEW fs, f \in ScopeFindings(t, u, fs, moves) PROVE f.id \in Ids
  BY <1>1 DEF ScopeFindings, Found, Ids
<1>2. ASSUME NEW t, NEW u, f \in ContractFindings(t, u) PROVE f.id \in Ids
  BY <1>2 DEF ContractFindings, Found, Ids
<1>3. Found("architecture_authority_corrupt", NoRule).id \in Ids
  BY DEF Found, Ids
<1>4. ASSUME NEW b, NEW a, NEW failedToo, f \in EvaluateChange(b, a, s, moves, failed, failedToo)
      PROVE  f.id \in Ids
  <2>1. \/ f = Found("architecture_authority_corrupt", NoRule)
        \/ \E r \in DOMAIN s.rules : f \in RuleReview(b, s, Projected(b, a, s), r, failed, failedToo)
        \/ f \in ScopeFindings(s, Projected(b, a, s), a.files, moves)
        \/ f \in ContractFindings(s, a)
    BY <1>4 DEF EvaluateChange
  <2> QED
    BY <1>1, <1>2, <1>3, <2>1, RuleReviewIds
<1> QED
  BY <1>3, <1>4 DEF Review

LEMMA ContractTyped == ASSUME ArchitectureAssumption PROVE ContractSpec => []ContractTypeOK
<1> DEFINE Said == /\ damaged \in BOOLEAN /\ whole \in BOOLEAN
                   /\ findings = NotReviewed \/ \A f \in findings : f.id \in Ids
<1>1. ContractInit => Said
  BY DEF ContractInit
<1>2. ASSUME Said, [ContractNext]_contractVars PROVE Said'
  <2>1. CASE ReviewChange
    <3>1. PICK failed, contractFailed, moves :
             /\ findings' = Review(accepted, tree, state, damaged, moves, failed, contractFailed)
             /\ whole' = (failed = {} /\ ~contractFailed)
      BY <2>1 DEF ReviewChange
    <3>2. \A f \in findings' : f.id \in Ids
      BY <3>1, ReviewIds
    <3>3. whole' \in BOOLEAN /\ damaged' = damaged
      BY <2>1, <3>1 DEF ReviewChange
    <3> QED
      BY <1>2, <3>2, <3>3
  <2>2. CASE EditTree \/ Discard \/ AcceptBaseline \/ Damage
    BY <1>2, <2>2 DEF EditTree, Discard, AcceptBaseline, Damage
  <2>3. CASE UNCHANGED contractVars
    BY <1>2, <2>3 DEF contractVars
  <2> QED
    BY <1>2, <2>1, <2>2, <2>3 DEF ContractNext
<1>3. IInv /\ Said => ContractTypeOK
  BY DEF IInv, ContentsTyped, ContractTypeOK
<1> QED
  BY <1>1, <1>2, <1>3, Invariance, PTL DEF ContractSpec

-----------------------------------------------------------------------------
(* What a baseline remembers *)

\* HistoryIsKept, for any contracts: from one accepted baseline to the next one
\* no rule is forgotten and no mark of what it left unsettled is wiped off.
THEOREM RulesAreNeverForgotten ==
  ASSUME ArchitectureAssumption PROVE ContractSpec => HistoryIsKept
<1> DEFINE Keeps == \A r \in DOMAIN state.rules :
                       /\ r \in DOMAIN state'.rules
                       /\ state.rules[r].history \subseteq state'.rules[r].history
<1>1. ASSUME IInv, [ContractNext]_contractVars
      PROVE  [damaged \/ Keeps]_contractVars
  <2>1. CASE AcceptBaseline
    <3>1. CASE damaged
      BY <3>1
    <3>2. CASE ~damaged
      <4>1. state' = BuildState(tree, state)
        BY <2>1, <3>2 DEF AcceptBaseline
      <4>2. tree \in Trees /\ (tree.contract = Absent \/ ReadableContract(tree)) /\ IsState(state)
        BY <1>1, <2>1 DEF AcceptBaseline, IInv, ContentsTyped
      <4> QED
        BY <1>1, <4>1, <4>2, NextState
    <3> QED
      BY <3>1, <3>2
  <2>2. CASE UNCHANGED state
    BY <2>2
  <2>3. CASE UNCHANGED contractVars
    BY <2>3
  <2> QED
    BY <1>1, <2>1, <2>2, <2>3 DEF ContractNext, EditTree, Discard, ReviewChange, Damage
<1> QED
  BY <1>1, Invariance, ContractTyped, PTL DEF ContractSpec, HistoryIsKept

-----------------------------------------------------------------------------
(* What a silent review lets through *)

\* What is found about one rule, when all of the change applied.
LEMMA NothingFoundAboutRule ==
  ASSUME NEW before, NEW s, NEW after, NEW r,
         s.rules[r].status # "retired",
         RuleReview(before, s, after, r, {}, FALSE) = {}
  PROVE  /\ after.rules[r].status \notin {"drifted", "unverifiable"}
         /\ after.rules[r].current \subseteq s.rules[r].current
<1> DEFINE old == s.rules[r]  new == after.rules[r]
<1>1. Unprojected(before, s, r, {}) = {}
  BY DEF Unprojected
<1>2. RuleReview(before, s, after, r, {}, FALSE) =
         IF old.status \in {"drifted", "unverifiable"}
         THEN FromDrift(r, old, new) ELSE FromClean(r, old, new)
  BY <1>1 DEF RuleReview
<1>3. FromDrift(r, old, new) # {}
  BY DEF FromDrift
<1>4. FromClean(r, old, new) = {}
  BY <1>2, <1>3
<1>5. new.status \notin {"drifted", "unverifiable"}
  BY <1>4 DEF FromClean
<1>6. {Found("architecture_forbidden_import", v) : v \in new.current \ old.current} = {}
  BY <1>4, <1>5 DEF FromClean
<1> HIDE DEF old, new
<1>7. new.current \subseteq old.current
  BY <1>6
<1> QED
  BY <1>5, <1>7 DEF old, new

\* A review that found nothing judged each rule by the accepted contract, and
\* the contract is to stay.
LEMMA NothingFound ==
  ASSUME ArchitectureAssumption, IInv, ~damaged, findings = {}, whole,
         NEW r \in Enforced(state)
  PROVE  /\ tree.contract = accepted.contract
         /\ RuleReview(accepted, state,
                         BuildState([contract |-> accepted.contract, files |-> tree.files], state),
                         r, {}, FALSE) = {}
<1> DEFINE after == [contract |-> tree.contract, files |-> tree.files]
<1>1. PICK moves : {} = Review(accepted, tree, state, damaged, moves, {}, FALSE)
  BY DEF IInv, FindingsAreCurrent, ArchitectureAssumption
<1>2. [p \in DOMAIN tree.files \ {} |-> tree.files[p]] = tree.files
  BY DEF IInv, ContentsTyped, ArchitectureAssumption, IsPartial
<1>3. EvaluateChange(accepted, after, state, moves, {}, FALSE) = {}
  <2>1. Review(accepted, tree, state, damaged, moves, {}, FALSE) =
           EvaluateChange(accepted,
              [contract |-> IF FALSE THEN Absent ELSE tree.contract,
               files |-> [p \in DOMAIN tree.files \ {} |-> tree.files[p]]],
              state, moves, {}, FALSE)
    BY DEF Review
  <2>2. [contract |-> IF FALSE THEN Absent ELSE tree.contract,
         files |-> [p \in DOMAIN tree.files \ {} |-> tree.files[p]]] = after
    BY <1>2
  <2> HIDE DEF after
  <2> QED
    BY <1>1, <2>1, <2>2
<1>4. state.present /\ state.valid /\ r \in DOMAIN state.rules
  BY DEF IInv, EnforcedAreDeclared, StateFollowsContract, DeclaredBy, ReadableContract, Enforced
<1>5. /\ RuleReview(accepted, state, Projected(accepted, after, state), r, {}, FALSE) = {}
      /\ after.contract # accepted.contract => ContractFindings(state, after) = {}
  <2> DEFINE rules == {RuleReview(accepted, state, Projected(accepted, after, state), q, {}, FALSE) :
                         q \in DOMAIN state.rules}
             scope == ScopeFindings(state, Projected(accepted, after, state), after.files, moves)
             contract == IF after.contract # accepted.contract THEN ContractFindings(state, after) ELSE {}
  <2>1. EvaluateChange(accepted, after, state, moves, {}, FALSE) = (UNION rules) \cup scope \cup contract
    BY <1>4 DEF EvaluateChange
  <2>2. RuleReview(accepted, state, Projected(accepted, after, state), r, {}, FALSE) \in rules
    BY <1>4
  <2>3. UNION rules = {} /\ contract = {}
    <3> HIDE DEF rules, scope, contract, after
    <3> QED
      BY <1>3, <2>1
  <2> HIDE DEF rules
  <2> QED
    BY <2>2, <2>3
<1>6. ContractFindings(state, after) # {}
  BY DEF ContractFindings
<1> QED
  BY <1>5, <1>6 DEF Projected

LEMMA SilentStep ==
  ASSUME ArchitectureAssumption, IInv, AcceptBaseline, ~damaged, findings = {}, whole,
         NEW r \in Enforced(state)
  PROVE  /\ r \in Enforced(state')
         /\ state'.rules[r].current \subseteq state.rules[r].current
         /\ state'.rules[r].complete
<1> DEFINE t == [contract |-> accepted.contract, files |-> tree.files]
           s == BuildState(t, state)
           prior == IF r \in DOMAIN state.rules THEN state.rules[r] ELSE NoPrior
<1>1. tree.contract = accepted.contract /\ RuleReview(accepted, state, s, r, {}, FALSE) = {}
  BY NothingFound
<1>2. r \in DeclaredBy(accepted) /\ accepted.contract.rules[r].status # "retired"
  BY DEF IInv, EnforcedAreDeclared
<1>3. ReadableContract(t) /\ ReadableContract(tree) /\ r \in DeclaredBy(t) /\ r \in DeclaredBy(tree)
  BY <1>1, <1>2 DEF DeclaredBy, ReadableContract
<1>4. s.rules[r] = Restated(accepted.contract, tree.files, r, prior)
  <2> HIDE DEF prior
  <2>1. BuildState(t, state).rules[r] = Restated(t.contract, t.files, r, prior)
    BY <1>3, DeclaredRules DEF prior
  <2> QED
    BY <2>1
<1>5. state' = BuildState(tree, state)
  BY DEF AcceptBaseline
<1>6. state'.rules[r] = Restated(accepted.contract, tree.files, r, prior)
  BY <1>1, <1>3, <1>5, DeclaredRules
<1>7. r \in DOMAIN state'.rules
  BY <1>3, <1>5, BuiltState
<1>8. state.rules[r].status # "retired"
  BY DEF Enforced
<1> HIDE DEF s, prior
<1>9. /\ s.rules[r].status \notin {"drifted", "unverifiable"}
      /\ s.rules[r].current \subseteq state.rules[r].current
  BY <1>1, <1>8, NothingFoundAboutRule
<1>10. /\ s.rules[r].status = StatusOf(accepted.contract, tree.files, r)
       /\ s.rules[r].complete = (StatusOf(accepted.contract, tree.files, r) \notin {"drifted", "unverifiable"})
       /\ StatusOf(accepted.contract, tree.files, r) # "retired"
  BY <1>2, <1>4, DeclaredStatus
<1>11. state'.rules[r] = s.rules[r]
  BY <1>4, <1>6
<1>12. r \in Enforced(state')
  BY <1>7, <1>10, <1>11 DEF Enforced
<1> QED
  BY <1>9, <1>10, <1>11, <1>12

\* SilentChangeAddsNoViolation, for any contracts and files: a change that was
\* reviewed in full and found clean brings no violation of a rule in force into
\* the next baseline, retires no rule and leaves each one verifiable.
THEOREM SilentReviewIsSafe ==
  ASSUME ArchitectureAssumption PROVE ContractSpec => SilentChangeAddsNoViolation
<1> DEFINE Silent == accepted' # accepted /\ ~damaged /\ findings = {} /\ whole
           Safe == \A r \in Enforced(state) :
                      /\ r \in Enforced(state')
                      /\ state'.rules[r].current \subseteq state.rules[r].current
                      /\ state'.rules[r].complete
<1>1. ASSUME IInv, [ContractNext]_contractVars
      PROVE  [Silent => Safe]_contractVars
  <2>1. CASE AcceptBaseline
    BY <1>1, <2>1, SilentStep
  <2>2. CASE UNCHANGED accepted
    BY <2>2
  <2>3. CASE UNCHANGED contractVars
    BY <2>3
  <2> QED
    BY <1>1, <2>1, <2>2, <2>3 DEF ContractNext, EditTree, Discard, ReviewChange, Damage
<1> QED
  BY <1>1, Invariance, PTL DEF ContractSpec, SilentChangeAddsNoViolation

-----------------------------------------------------------------------------
(* DiffParser: what is read, whatever the lines are *)

\* The parser's variables, and the fields of a change.
IsParser(s) ==
    s \in [current : {s.current}, old : {s.old}, new : {s.new}, isNew : {s.isNew},
           isDeleted : {s.isDeleted}, operation : {s.operation}, link : {s.link},
           unsafe : {s.unsafe}, inHunk : BOOLEAN, oldLeft : {s.oldLeft}, newLeft : {s.newLeft},
           malformed : BOOLEAN, short : {s.short}, changes : {s.changes}, read : {s.read}]

IsChange(c) ==
    c \in [path : {c.path}, old : {c.old}, isNew : {c.isNew}, isDeleted : {c.isDeleted},
           operation : {c.operation}, unsafe : {c.unsafe}, link : {c.link},
           added : Int, lines : {c.lines}]

\* Between two files there is no change, else there is one.
MayHaveFile(s) == s.current = NoFile \/ IsChange(s.current)

\* A parser that has taken the paths of a header, and is otherwise as it was.
Named(s, t, old, new) ==
    /\ IsParser(t) /\ t.current = s.current /\ t.changes = s.changes
    /\ t.old = old /\ t.new = new /\ (t.inHunk <=> s.inHunk)
    /\ t.oldLeft = s.oldLeft /\ t.newLeft = s.newLeft /\ t.read = s.read

LEMMA ChangeIs ==
  ASSUME NEW s
  PROVE  /\ IsChange(Change(s)) /\ Change(s).path = First(s.new, s.old) /\ Change(s).old = s.old
         /\ Change(s).added = 0
<1>1. Change(s) = [path |-> First(s.new, s.old), old |-> s.old, isNew |-> Change(s).isNew,
                   isDeleted |-> Change(s).isDeleted, operation |-> Change(s).operation,
                   unsafe |-> Change(s).unsafe, link |-> Change(s).link, added |-> 0,
                   lines |-> Change(s).lines]
  <2> DEFINE n == (s.isNew \/ s.old = Null)
             d == (s.isDeleted \/ s.new = Null)
  <2>1. Change(s) = [path |-> First(s.new, s.old), old |-> s.old, isNew |-> n,
                     isDeleted |-> d, operation |-> s.operation,
                     unsafe |-> s.unsafe, link |-> s.link, added |-> 0, lines |-> 0]
    BY Zenon DEF Change
  <2> HIDE DEF n, d
  <2> QED
    BY <2>1
<1> DEFINE c == Change(s)
<1> HIDE DEF c
<1>2. c = [path |-> First(s.new, s.old), old |-> s.old, isNew |-> c.isNew,
           isDeleted |-> c.isDeleted, operation |-> c.operation,
           unsafe |-> c.unsafe, link |-> c.link, added |-> 0, lines |-> c.lines]
  BY <1>1 DEF c
<1>3. IsChange(c) /\ c.path = First(s.new, s.old) /\ c.old = s.old /\ c.added = 0
  BY <1>2 DEF IsChange
<1> QED
  BY <1>3 DEF c

LEMMA ChangesAreFiles == ASSUME NEW c, IsChange(c) PROVE c # NoFile
<1>1. DOMAIN c = {"path", "old", "isNew", "isDeleted", "operation", "unsafe", "link", "added", "lines"}
  BY DEF IsChange
<1>2. DOMAIN NoFile = {"path"}
  BY DEF NoFile
<1>3. "old" # "path"
  OBVIOUS
<1> QED
  BY <1>1, <1>2, <1>3

LEMMA EnsureIs ==
  ASSUME NEW s, NEW t, IsParser(s), s.current = NoFile \/ IsChange(s.current), t = Ensure(s)
  PROVE  /\ IsParser(t) /\ IsChange(t.current)
         /\ s.current # NoFile => t.current = s.current
         /\ s.current = NoFile => t.current = Change(s)
         /\ t.old = s.old /\ t.new = s.new /\ (t.inHunk <=> s.inHunk) /\ t.oldLeft = s.oldLeft
         /\ t.newLeft = s.newLeft /\ (t.malformed <=> s.malformed)
         /\ t.changes = s.changes /\ t.read = s.read
<1>1. IsChange(Change(s))
  BY ChangeIs
<1>2. CASE HasFile(s)
  BY <1>2 DEF Ensure, HasFile
<1>3. CASE ~HasFile(s)
  <2> DEFINE c == Change(s)
  <2>1. t = [s EXCEPT !.current = c]
    BY <1>3 DEF Ensure
  <2>2. IsChange(c)
    BY <1>1
  <2> HIDE DEF c
  <2> QED
    BY <1>3, <2>1, <2>2 DEF IsParser, HasFile, c
<1> QED
  BY <1>2, <1>3

LEMMA RenewIs ==
  ASSUME NEW s, NEW t, IsParser(s), IsChange(s.current), t = Renew(s)
  PROVE  /\ IsParser(t) /\ IsChange(t.current)
         /\ t.current.path = First(s.new, s.old) /\ t.current.old = s.old
         /\ t.current.added = s.current.added
         /\ t.old = s.old /\ t.new = s.new /\ (t.inHunk <=> s.inHunk) /\ t.oldLeft = s.oldLeft
         /\ t.newLeft = s.newLeft /\ (t.malformed <=> s.malformed)
         /\ t.changes = s.changes /\ t.read = s.read
<1> DEFINE u == (s.current.unsafe \/ s.unsafe)
           old == Change(s)
           c == [old EXCEPT !.added = s.current.added, !.lines = s.current.lines, !.unsafe = u]
<1>1. t = [s EXCEPT !.current = c]
  BY Zenon DEF Renew
<1>2. IsChange(old) /\ old.path = First(s.new, s.old) /\ old.old = s.old
  BY ChangeIs
<1> HIDE DEF u, old
<1>3. IsChange(c) /\ c.path = old.path /\ c.old = old.old /\ c.added = s.current.added
  BY <1>2 DEF IsChange
<1> HIDE DEF c
<1> QED
  BY <1>1, <1>2, <1>3 DEF IsParser

LEMMA MarkedIs ==
  ASSUME NEW s, NEW t, NEW bad, IsParser(s), t = Marked(s, bad)
  PROVE  Named(s, t, s.old, s.new) /\ (t.malformed <=> (s.malformed \/ bad))
<1> DEFINE u == (s.unsafe \/ bad)
           m == (s.malformed \/ bad)
           r == [s EXCEPT !.unsafe = u, !.malformed = m]
<1>1. t = r
  BY Zenon DEF Marked
<1>2. m \in BOOLEAN
  OBVIOUS
<1> HIDE DEF u, m
<1>3. Named(s, r, s.old, s.new) /\ (r.malformed <=> m)
  BY <1>2 DEF IsParser, Named
<1> HIDE DEF r
<1>4. r.malformed <=> (s.malformed \/ bad)
  BY <1>3, Zenon DEF m
<1> QED
  BY <1>1, <1>3, <1>4

\* One path of a header is marked.
MarkedBy(s, path) == Marked(s, path \in Escapes)

LEMMA MarkedByIs ==
  ASSUME NEW s, NEW t, NEW path, IsParser(s), t = MarkedBy(s, path)
  PROVE  Named(s, t, s.old, s.new) /\ (t.malformed <=> (s.malformed \/ path \in Escapes))
<1> DEFINE u == (s.unsafe \/ path \in Escapes)
           m == (s.malformed \/ path \in Escapes)
           r == [s EXCEPT !.unsafe = u, !.malformed = m]
<1>1. t = r
  BY Zenon DEF Marked, MarkedBy
<1>2. m \in BOOLEAN
  OBVIOUS
<1> HIDE DEF u, m
<1>3. Named(s, r, s.old, s.new) /\ (r.malformed <=> m)
  BY <1>2 DEF IsParser, Named
<1> HIDE DEF r
<1>4. r.malformed <=> (s.malformed \/ path \in Escapes)
  BY <1>3, Zenon DEF m
<1> QED
  BY <1>1, <1>3, <1>4

Changed(s) == {s.changes[i] : i \in DOMAIN s.changes}

ParserTyped(s) ==
    /\ IsParser(s) /\ (s.current = NoFile \/ IsChange(s.current))
    /\ s.changes \in Seq(Changed(s))
    /\ s.old \in DiffPaths \cup {Null} /\ s.new \in DiffPaths \cup {Null}
    /\ s.oldLeft \in Int /\ s.newLeft \in Int
    /\ s.inHunk => HasFile(s)

Leaves(c) == {c.path, c.old} \cap Escapes # {}

\* What leaves the repository has been noticed when it was read.
Noticed(s) ==
    /\ s.old \in Escapes \/ s.new \in Escapes => s.malformed
    /\ HasFile(s) /\ Leaves(s.current) => s.malformed
    /\ \A i \in DOMAIN s.changes : Leaves(s.changes[i]) => s.malformed

Sound(s) == ParserTyped(s) /\ Noticed(s)

\* Two states that agree on everything the properties are about.
Alike(s, t) ==
    /\ t.current = s.current /\ t.changes = s.changes /\ t.old = s.old /\ t.new = s.new
    /\ t.oldLeft = s.oldLeft /\ t.newLeft = s.newLeft

LEMMA AlikeSound ==
  ASSUME NEW s, NEW t, Sound(s), Alike(s, t), IsParser(t),
         t.inHunk => s.inHunk, s.malformed => t.malformed
  PROVE  Sound(t)
BY DEF Sound, ParserTyped, Noticed, Alike, HasFile, Changed

LEMMA BrokenIs ==
  ASSUME NEW s, IsParser(s)
  PROVE  LET t == Broken(s)
         IN  /\ IsParser(t) /\ Alike(s, t) /\ (t.inHunk <=> s.inHunk) /\ t.read = s.read
             /\ t.malformed
BY DEF Broken, IsParser, Alike

LEMMA FinishedIs ==
  ASSUME NEW s, IsParser(s)
  PROVE  LET t == Finished(s)
         IN  /\ IsParser(t) /\ Alike(s, t) /\ ~t.inHunk /\ t.read = s.read
             /\ (t.malformed <=> s.malformed)
<1> DEFINE short == (s.short \/ (s.inHunk /\ (s.oldLeft > 0 \/ s.newLeft > 0)))
           t == [s EXCEPT !.inHunk = FALSE, !.short = short]
<1>1. Finished(s) = t
  BY Zenon DEF Finished
<1> HIDE DEF short
<1>2. /\ IsParser(t) /\ Alike(s, t) /\ ~t.inHunk /\ t.read = s.read
      /\ (t.malformed <=> s.malformed)
  BY DEF IsParser, Alike
<1> HIDE DEF t
<1> QED
  BY <1>1, <1>2

LEMMA SignIs ==
  ASSUME NEW line
  PROVE  /\ line.kind = "--- " => Sign(line) = "-"
         /\ line.kind = "+++ " => Sign(line) = "+"
         /\ line.kind \notin {"--- ", "+++ "} => Sign(line) = line.kind
BY DEF Sign

LEMMA PayloadIs ==
  ASSUME NEW s, NEW line, IsParser(s), IsChange(s.current), s.oldLeft \in Int, s.newLeft \in Int,
         NEW t, t = ReadPayload(s, line)
  PROVE  /\ IsParser(t) /\ IsChange(t.current)
         /\ t.current.path = s.current.path /\ t.current.old = s.current.old
         /\ t.changes = s.changes /\ t.old = s.old /\ t.new = s.new /\ (t.inHunk <=> s.inHunk)
         /\ t.oldLeft \in Int /\ t.newLeft \in Int /\ t.read = s.read
         /\ s.malformed => t.malformed
         /\ Sign(line) \in Payload =>
              /\ (t.malformed <=> s.malformed)
              /\ t.current.added = s.current.added + (IF Sign(line) = "+" THEN 1 ELSE 0)
              /\ t.oldLeft = s.oldLeft - (IF Sign(line) = "+" THEN 0 ELSE 1)
              /\ t.newLeft = s.newLeft - (IF Sign(line) = "-" THEN 0 ELSE 1)
<1> DEFINE c == [s.current EXCEPT !.lines = @ + 1]
           d == [s.current EXCEPT !.added = @ + 1, !.lines = @ + 1]
<1>1. IsChange(c) /\ c.path = s.current.path /\ c.old = s.current.old /\ c.added = s.current.added
  BY DEF IsChange
<1>2. /\ IsChange(d) /\ d.path = s.current.path /\ d.old = s.current.old
      /\ d.added = s.current.added + 1
  <2> DEFINE n == s.current.added + 1
             m == s.current.lines + 1
             e == [s.current EXCEPT !.added = n, !.lines = m]
  <2>1. n \in Int /\ d = e
    BY DEF IsChange
  <2> HIDE DEF n, m, d
  <2>2. IsChange(e) /\ e.path = s.current.path /\ e.old = s.current.old /\ e.added = n
    BY <2>1 DEF IsChange
  <2> HIDE DEF e
  <2> QED
    BY <2>1, <2>2 DEF n
<1>3. CASE Sign(line) = "+"
  <2>1. t = [s EXCEPT !.current = d, !.newLeft = s.newLeft - 1]
    BY <1>3 DEF ReadPayload, IsParser
  <2> HIDE DEF c, d
  <2>2. /\ IsParser(t) /\ t.current = d /\ t.changes = s.changes /\ t.old = s.old /\ t.new = s.new
        /\ (t.inHunk <=> s.inHunk) /\ t.oldLeft = s.oldLeft /\ t.newLeft = s.newLeft - 1
        /\ t.read = s.read /\ (t.malformed <=> s.malformed)
    BY <2>1 DEF IsParser
  <2>3. s.current.added \in Int
    BY DEF IsChange
  <2> QED
    BY <1>2, <1>3, <2>2, <2>3
<1>4. CASE Sign(line) = "-"
  <2>1. t = [s EXCEPT !.current = c, !.oldLeft = s.oldLeft - 1]
    BY <1>4 DEF ReadPayload, IsParser
  <2> HIDE DEF c, d
  <2>2. /\ IsParser(t) /\ t.current = c /\ t.changes = s.changes /\ t.old = s.old /\ t.new = s.new
        /\ (t.inHunk <=> s.inHunk) /\ t.oldLeft = s.oldLeft - 1 /\ t.newLeft = s.newLeft
        /\ t.read = s.read /\ (t.malformed <=> s.malformed)
    BY <2>1 DEF IsParser
  <2>3. s.current.added \in Int
    BY DEF IsChange
  <2> QED
    BY <1>1, <1>4, <2>2, <2>3
<1>5. CASE Sign(line) = " "
  <2>1. t = [s EXCEPT !.current = c, !.oldLeft = s.oldLeft - 1, !.newLeft = s.newLeft - 1]
    BY <1>5 DEF ReadPayload, IsParser
  <2> HIDE DEF c, d
  <2>2. /\ IsParser(t) /\ t.current = c /\ t.changes = s.changes /\ t.old = s.old /\ t.new = s.new
        /\ (t.inHunk <=> s.inHunk) /\ t.oldLeft = s.oldLeft - 1 /\ t.newLeft = s.newLeft - 1
        /\ t.read = s.read /\ (t.malformed <=> s.malformed)
    BY <2>1 DEF IsParser
  <2>3. s.current.added \in Int
    BY DEF IsChange
  <2>4. /\ t.current.added = s.current.added + (IF Sign(line) = "+" THEN 1 ELSE 0)
        /\ t.oldLeft = s.oldLeft - (IF Sign(line) = "+" THEN 0 ELSE 1)
        /\ t.newLeft = s.newLeft - (IF Sign(line) = "-" THEN 0 ELSE 1)
    <3>1. Sign(line) # "+" /\ Sign(line) # "-"
      BY <1>5
    <3>2. s.current.added + 0 = s.current.added /\ s.oldLeft - 1 = s.oldLeft - 1
      BY <2>3
    <3> QED
      BY <1>1, <2>2, <3>1, <3>2
  <2> QED
    BY <1>1, <2>2, <2>4
<1>6. CASE Sign(line) \notin Payload
  <2>1. t = s \/ t = Broken(s)
    BY <1>6 DEF ReadPayload, Payload
  <2>2. CASE t = s
    BY <1>6, <2>2
  <2>3. CASE t = Broken(s)
    <3>1. /\ IsParser(t) /\ Alike(s, t) /\ (t.inHunk <=> s.inHunk) /\ t.read = s.read
          /\ t.malformed
      BY <2>3, BrokenIs
    <3> QED
      BY <1>6, <3>1 DEF Alike
  <2> QED
    BY <2>1, <2>2, <2>3
<1> QED
  BY <1>3, <1>4, <1>5, <1>6 DEF Payload

LEMMA PayloadSound ==
  ASSUME NEW s, NEW line, Sound(s), s.inHunk
  PROVE  Sound(ReadPayload(s, line))
<1>1. PICK t : t = ReadPayload(s, line)
  OBVIOUS
<1>2. IsChange(s.current) /\ IsParser(s) /\ s.oldLeft \in Int /\ s.newLeft \in Int
  BY DEF Sound, ParserTyped, HasFile
<1>3. /\ IsParser(t) /\ IsChange(t.current)
      /\ t.current.path = s.current.path /\ t.current.old = s.current.old
      /\ t.changes = s.changes /\ t.old = s.old /\ t.new = s.new /\ (t.inHunk <=> s.inHunk)
      /\ t.oldLeft \in Int /\ t.newLeft \in Int
      /\ s.malformed => t.malformed
  BY <1>1, <1>2, PayloadIs
<1>4. HasFile(s) /\ HasFile(t)
  BY <1>2, <1>3, ChangesAreFiles DEF HasFile
<1>5. ParserTyped(t)
  BY <1>3, <1>4 DEF Sound, ParserTyped, Changed
<1>6. Noticed(t)
  BY <1>3, <1>4 DEF Sound, Noticed, Leaves
<1> QED
  BY <1>1, <1>5, <1>6 DEF Sound

LEMMA SequenceOfItsOwn == ASSUME NEW S, NEW q \in Seq(S) PROVE q \in Seq({q[i] : i \in DOMAIN q})
<1>1. q = [i \in 1..Len(q) |-> q[i]] /\ Len(q) \in Nat
  OBVIOUS
<1> DEFINE R == {q[i] : i \in DOMAIN q}
<1>2. q \in [1..Len(q) -> R]
  BY <1>1
<1> HIDE DEF R
<1>3. q \in Seq(R)
  BY <1>1, <1>2, SeqDef
<1> QED
  BY <1>3 DEF R

LEMMA ClosedIs ==
  ASSUME NEW s, ParserTyped(s), NEW cs, cs = ClosedChanges(s)
  PROVE  /\ cs \in Seq({cs[i] : i \in DOMAIN cs})
         /\ ~HasFile(s) => cs = s.changes
         /\ HasFile(s) => /\ Len(cs) = Len(s.changes) + 1 /\ cs[Len(cs)] = s.current
                          /\ \A i \in DOMAIN s.changes : cs[i] = s.changes[i]
         /\ \A i \in DOMAIN cs : \/ i \in DOMAIN s.changes /\ cs[i] = s.changes[i]
                                 \/ HasFile(s) /\ cs[i] = s.current
<1>1. s.changes \in Seq(Changed(s)) /\ Len(s.changes) \in Nat /\ DOMAIN s.changes = 1..Len(s.changes)
  BY DEF ParserTyped
<1>2. CASE ~HasFile(s)
  <2>1. cs = s.changes
    BY <1>2 DEF ClosedChanges
  <2> QED
    BY <1>1, <1>2, <2>1 DEF Changed
<1>3. CASE HasFile(s)
  <2>1. cs = Append(s.changes, s.current)
    BY <1>3 DEF ClosedChanges
  <2> DEFINE S == Changed(s) \cup {s.current}
             n == Len(s.changes)
  <2>2. s.changes \in Seq(S)
    BY <1>1
  <2> HIDE DEF S
  <2>3. /\ Len(cs) = n + 1 /\ DOMAIN cs = 1..(n + 1) /\ cs[n + 1] = s.current
        /\ \A i \in 1..n : cs[i] = s.changes[i]
    BY <2>1, <2>2 DEF S
  <2>4. cs \in Seq({cs[i] : i \in DOMAIN cs})
    <3>1. cs \in Seq(S)
      BY <2>1, <2>2 DEF S
    <3> QED
      BY <3>1, SequenceOfItsOwn
  <2> QED
    BY <1>1, <1>3, <2>3, <2>4
<1> QED
  BY <1>2, <1>3

LEMMA FreshIs ==
  /\ IsParser(Fresh) /\ Fresh.current = NoFile /\ Fresh.old = Null /\ Fresh.new = Null
  /\ ~Fresh.inHunk /\ Fresh.oldLeft = 0 /\ Fresh.newLeft = 0 /\ ~Fresh.malformed
  /\ Fresh.changes = <<>> /\ Fresh.read = 0
BY DEF Fresh, IsParser

Outside(line) == {line.old, line.new} \cap Escapes # {}

\* What the header of a file does: the last change is closed.
GitRead(s, t, line) ==
    /\ IsParser(t) /\ t.current = NoFile /\ t.changes = ClosedChanges(s) /\ t.read = s.read
    /\ ~t.inHunk /\ t.oldLeft = 0 /\ t.newLeft = 0
    /\ line.kind = "git_broken" => t.old = Null /\ t.new = Null /\ t.malformed
    /\ line.kind # "git_broken" =>
         /\ t.old = line.old /\ t.new = line.new
         /\ (t.malformed <=> (s.malformed \/ Outside(line)))

LEMMA GitIs ==
  ASSUME NEW s, NEW line, NEW t, IsParser(s), t = ReadGit(s, line)
  PROVE  GitRead(s, t, line)
<1> DEFINE cs == ClosedChanges(s)
           open == [Fresh EXCEPT !.changes = cs, !.malformed = s.malformed,
                                 !.short = s.short, !.read = s.read]
<1>1. /\ IsParser(open) /\ open.current = NoFile /\ open.old = Null /\ open.new = Null
      /\ ~open.inHunk /\ open.oldLeft = 0 /\ open.newLeft = 0 /\ (open.malformed <=> s.malformed)
      /\ open.changes = cs /\ open.read = s.read
  <2> HIDE DEF cs
  <2> QED
    BY FreshIs DEF IsParser
<1>2. t = IF line.kind = "git_broken" THEN Broken(open)
          ELSE Marked([open EXCEPT !.old = line.old, !.new = line.new],
                      {line.old, line.new} \cap Escapes # {})
  BY Zenon DEF ReadGit
<1> HIDE DEF open
<1>3. CASE line.kind = "git_broken"
  <2>1. t = Broken(open)
    BY <1>2, <1>3
  <2> QED
    BY <1>1, <1>3, <2>1, BrokenIs DEF Alike, cs, GitRead
<1>4. CASE line.kind # "git_broken"
  <2> DEFINE named == [open EXCEPT !.old = line.old, !.new = line.new]
             bad == ({line.old, line.new} \cap Escapes # {})
  <2>1. /\ IsParser(named) /\ named.current = NoFile /\ named.old = line.old /\ named.new = line.new
        /\ ~named.inHunk /\ named.oldLeft = 0 /\ named.newLeft = 0
        /\ (named.malformed <=> s.malformed)
        /\ named.changes = cs /\ named.read = s.read
    <3> HIDE DEF cs
    <3> QED
      BY <1>1 DEF IsParser
  <2>2. t = Marked(named, bad)
    BY <1>2, <1>4
  <2> HIDE DEF named, bad, cs
  <2>3. Named(named, t, named.old, named.new) /\ (t.malformed <=> (named.malformed \/ bad))
    BY <2>1, <2>2, MarkedIs
  <2> QED
    BY <1>4, <2>1, <2>3 DEF bad, cs, Outside, Named, GitRead
<1> QED
  BY <1>3, <1>4

LEMMA GitSound ==
  ASSUME NEW s, Sound(s), NEW line, line \in Lines, line.kind \in {"git", "git_broken"}
  PROVE  Sound(ReadGit(s, line))
<1>1. PICK t : t = ReadGit(s, line)
  OBVIOUS
<1>2. ParserTyped(s) /\ IsParser(s)
  BY DEF Sound, ParserTyped
<1>3. PICK cs : cs = ClosedChanges(s)
  OBVIOUS
<1>4. GitRead(s, t, line)
  BY <1>1, <1>2, GitIs
<1>5. line.kind = "git" => line.old \in DiffPaths /\ line.new \in DiffPaths
  BY DEF Lines, Payload
<1>6. cs \in Seq({cs[i] : i \in DOMAIN cs})
  BY <1>2, <1>3, ClosedIs
<1>7. t.old \in DiffPaths \cup {Null} /\ t.new \in DiffPaths \cup {Null}
  BY <1>4, <1>5 DEF GitRead
<1>8. ParserTyped(t)
  BY <1>3, <1>4, <1>7, <1>6 DEF ParserTyped, Changed, GitRead
<1>9. s.malformed => t.malformed
  BY <1>4 DEF GitRead
<1>10. t.old \in Escapes \/ t.new \in Escapes => t.malformed
  BY <1>4 DEF GitRead, Outside
<1>11. \A i \in DOMAIN cs : Leaves(cs[i]) => s.malformed
  <2>1. \A i \in DOMAIN cs : \/ i \in DOMAIN s.changes /\ cs[i] = s.changes[i]
                             \/ HasFile(s) /\ cs[i] = s.current
    BY <1>2, <1>3, ClosedIs
  <2> QED
    BY <2>1 DEF Sound, Noticed
<1>12. Noticed(t)
  BY <1>3, <1>4, <1>9, <1>10, <1>11 DEF Noticed, HasFile, GitRead
<1> QED
  BY <1>1, <1>8, <1>12 DEF Sound

LEMMA MinusIs ==
  ASSUME NEW s, NEW line, NEW t, IsParser(s), line.kind = "--- ", t = ReadHeader(s, line)
  PROVE  /\ Named(s, t, line.path, s.new)
         /\ (t.malformed <=> (s.malformed \/ line.path \in Escapes))
<1> DEFINE r == [s EXCEPT !.old = line.path]
<1>1. t = MarkedBy(r, line.path)
  BY DEF ReadHeader, MarkedBy
<1>2. Named(s, r, line.path, s.new) /\ (r.malformed <=> s.malformed)
  BY DEF IsParser, Named
<1> HIDE DEF r
<1>3. IsParser(r)
  BY <1>2 DEF Named
<1>4. Named(r, t, r.old, r.new) /\ (t.malformed <=> (r.malformed \/ line.path \in Escapes))
  BY <1>1, <1>3, MarkedByIs
<1>5. Named(s, t, line.path, s.new)
  BY <1>2, <1>4 DEF Named
<1> QED
  BY <1>2, <1>4, <1>5

\* What "+++" does: the change has its two paths and keeps its count.
PlusRead(s, t, path) ==
    /\ IsParser(t) /\ IsChange(t.current)
    /\ t.current.path = First(path, s.old) /\ t.current.old = s.old
    /\ HasFile(s) => t.current.added = s.current.added
    /\ ~HasFile(s) => t.current.added = 0
    /\ t.old = s.old /\ t.new = path /\ (t.inHunk <=> s.inHunk)
    /\ t.oldLeft = s.oldLeft /\ t.newLeft = s.newLeft /\ t.changes = s.changes
    /\ t.read = s.read
    /\ (t.malformed <=> (s.malformed \/ path \in Escapes))

LEMMA PlusIs ==
  ASSUME NEW s, NEW line, NEW t, IsParser(s), MayHaveFile(s),
         line.kind = "+++ ", t = ReadHeader(s, line)
  PROVE  PlusRead(s, t, line.path)
<1> DEFINE r == [s EXCEPT !.new = line.path]
           m == MarkedBy(r, line.path)
           e == Ensure(m)
<1>1. t = Renew(e)
  BY DEF ReadHeader, MarkedBy
<1>2. Named(s, r, s.old, line.path) /\ (r.malformed <=> s.malformed)
  BY DEF IsParser, Named
<1> HIDE DEF r
<1>3. IsParser(r)
  BY <1>2 DEF Named
<1>4. Named(r, m, r.old, r.new) /\ (m.malformed <=> (r.malformed \/ line.path \in Escapes))
  BY <1>3, MarkedByIs
<1> HIDE DEF m
<1>5. Named(s, m, s.old, line.path) /\ (m.malformed <=> (r.malformed \/ line.path \in Escapes))
  BY <1>2, <1>4 DEF Named
<1>6. IsParser(m) /\ (m.current = NoFile \/ IsChange(m.current))
  BY <1>5 DEF Named, MayHaveFile
<1>7. /\ IsParser(e) /\ IsChange(e.current)
      /\ m.current # NoFile => e.current = m.current
      /\ m.current = NoFile => e.current = Change(m)
      /\ e.old = m.old /\ e.new = m.new /\ (e.inHunk <=> m.inHunk) /\ e.oldLeft = m.oldLeft
      /\ e.newLeft = m.newLeft /\ (e.malformed <=> m.malformed)
      /\ e.changes = m.changes /\ e.read = m.read
  BY <1>6, EnsureIs
<1>8. /\ HasFile(s) => e.current.added = s.current.added
      /\ ~HasFile(s) => e.current.added = 0
  BY <1>5, <1>7, ChangeIs DEF Named, HasFile
<1> HIDE DEF e
<1>9. /\ IsParser(t) /\ IsChange(t.current)
      /\ t.current.path = First(e.new, e.old) /\ t.current.old = e.old
      /\ t.current.added = e.current.added
      /\ t.old = e.old /\ t.new = e.new /\ (t.inHunk <=> e.inHunk) /\ t.oldLeft = e.oldLeft
      /\ t.newLeft = e.newLeft /\ (t.malformed <=> e.malformed)
      /\ t.changes = e.changes /\ t.read = e.read
  BY <1>1, <1>7, RenewIs
<1>10. t.malformed <=> (s.malformed \/ line.path \in Escapes)
  BY <1>2, <1>5, <1>7, <1>9
<1> QED
  BY <1>5, <1>7, <1>8, <1>9, <1>10 DEF Named, PlusRead

LEMMA ModeIs ==
  ASSUME NEW s, NEW line, NEW t, IsParser(s), line.kind \in {"new file", "deleted file"},
         t = ReadHeader(s, line)
  PROVE  Named(s, t, s.old, s.new) /\ (t.malformed <=> s.malformed)
<1>1. t = [s EXCEPT !.isNew = TRUE, !.link = line.link] \/ t = [s EXCEPT !.isDeleted = TRUE]
  BY DEF ReadHeader
<1> QED
  BY <1>1 DEF IsParser, Named

LEMMA FromIs ==
  ASSUME NEW s, NEW line, NEW t, IsParser(s), line.kind \in {"rename from", "copy from"},
         t = ReadHeader(s, line)
  PROVE  /\ Named(s, t, line.path, s.new)
         /\ (t.malformed <=> (s.malformed \/ line.path \in Escapes))
<1> DEFINE op == IF line.kind = "copy from" THEN "copy" ELSE "rename"
           r == [s EXCEPT !.old = line.path, !.operation = op]
<1>1. t = MarkedBy(r, line.path)
  BY DEF ReadHeader, MarkedBy
<1> HIDE DEF op
<1>2. Named(s, r, line.path, s.new) /\ (r.malformed <=> s.malformed)
  BY DEF IsParser, Named
<1> HIDE DEF r
<1>3. IsParser(r)
  BY <1>2 DEF Named
<1>4. Named(r, t, r.old, r.new) /\ (t.malformed <=> (r.malformed \/ line.path \in Escapes))
  BY <1>1, <1>3, MarkedByIs
<1>5. Named(s, t, line.path, s.new)
  BY <1>2, <1>4 DEF Named
<1> QED
  BY <1>2, <1>4, <1>5

\* What "rename to" and "copy to" do: a change is open.
ToRead(s, t, path) ==
    /\ IsParser(t) /\ IsChange(t.current)
    /\ HasFile(s) => t.current = s.current
    /\ ~HasFile(s) => t.current.path = First(path, s.old) /\ t.current.old = s.old
    /\ t.old = s.old /\ t.new = path /\ (t.inHunk <=> s.inHunk)
    /\ t.oldLeft = s.oldLeft /\ t.newLeft = s.newLeft /\ t.changes = s.changes
    /\ t.read = s.read
    /\ (t.malformed <=> (s.malformed \/ path \in Escapes))

LEMMA ToIs ==
  ASSUME NEW s, NEW line, NEW t, IsParser(s), MayHaveFile(s),
         line.kind \in {"rename to", "copy to"}, t = ReadHeader(s, line)
  PROVE  ToRead(s, t, line.path)
<1> DEFINE op == IF line.kind = "copy to" THEN "copy" ELSE "rename"
           copied == (s.isNew \/ line.kind = "copy to")
           r == [s EXCEPT !.new = line.path, !.operation = op, !.isNew = copied]
           m == MarkedBy(r, line.path)
<1>1. t = Ensure(m)
  <2>1. ReadHeader(s, line) = Ensure(Marked([s EXCEPT !.new = line.path,
              !.operation = IF line.kind = "copy to" THEN "copy" ELSE "rename",
              !.isNew = @ \/ line.kind = "copy to"],  line.path \in Escapes))
    BY DEF ReadHeader, MarkedBy
  <2> QED
    BY <2>1, Zenon DEF MarkedBy
<1> HIDE DEF op, copied
<1>2. Named(s, r, s.old, line.path) /\ (r.malformed <=> s.malformed)
  BY DEF IsParser, Named
<1> HIDE DEF r
<1>3. IsParser(r)
  BY <1>2 DEF Named
<1>4. Named(r, m, r.old, r.new) /\ (m.malformed <=> (r.malformed \/ line.path \in Escapes))
  BY <1>3, MarkedByIs
<1> HIDE DEF m
<1>5. Named(s, m, s.old, line.path) /\ (m.malformed <=> (r.malformed \/ line.path \in Escapes))
  BY <1>2, <1>4 DEF Named
<1>6. IsParser(m) /\ (m.current = NoFile \/ IsChange(m.current))
  BY <1>5 DEF Named, MayHaveFile
<1>7. /\ IsParser(t) /\ IsChange(t.current)
      /\ m.current # NoFile => t.current = m.current
      /\ m.current = NoFile => t.current = Change(m)
      /\ t.old = m.old /\ t.new = m.new /\ (t.inHunk <=> m.inHunk) /\ t.oldLeft = m.oldLeft
      /\ t.newLeft = m.newLeft /\ (t.malformed <=> m.malformed)
      /\ t.changes = m.changes /\ t.read = m.read
  BY <1>1, <1>6, EnsureIs
<1>8. ~HasFile(s) => t.current.path = First(line.path, s.old) /\ t.current.old = s.old
  BY <1>5, <1>7, ChangeIs DEF Named, HasFile
<1>9. t.malformed <=> (s.malformed \/ line.path \in Escapes)
  BY <1>2, <1>5, <1>7
<1> QED
  BY <1>5, <1>7, <1>8, <1>9 DEF Named, HasFile, ToRead

\* A path that a line of a header names.
LEMMA LinePaths ==
  ASSUME NEW line \in Lines
  PROVE  /\ line.kind = "git" => line.old \in DiffPaths /\ line.new \in DiffPaths
         /\ line.kind \in Headers \ {"new file", "deleted file"} =>
                line.path \in DiffPaths \cup {Null}
<1>1. line.kind = "git" => line.old \in DiffPaths /\ line.new \in DiffPaths
  BY DEF Lines, Payload
<1>2. line.kind \in Headers \ {"new file", "deleted file"} => line.path \in DiffPaths \cup {Null}
  BY DEF Lines, Payload, Headers
<1> QED
  BY <1>1, <1>2

LEMMA LineCounts ==
  ASSUME NEW line \in Lines, line.kind = "@@"
  PROVE  line.del \in Nat /\ line.add \in Nat
<1>1. line \in [kind : {"@@"}, del : 0..MaxCount, add : 0..MaxCount]
  BY DEF Lines, Payload
<1>2. 0..MaxCount \subseteq Nat
  BY DiffAssumption
<1> QED
  BY <1>1, <1>2

LEMMA NamedSound ==
  ASSUME NEW s, NEW t, NEW old \in DiffPaths \cup {Null}, NEW new \in DiffPaths \cup {Null},
         Sound(s), Named(s, t, old, new), s.malformed => t.malformed,
         old \in Escapes \/ new \in Escapes => t.malformed
  PROVE  Sound(t)
<1>1. ParserTyped(t)
  BY DEF Sound, ParserTyped, Named, Changed, HasFile
<1>2. Noticed(t)
  BY DEF Sound, Noticed, Named, HasFile
<1> QED
  BY <1>1, <1>2 DEF Sound

LEMMA OpenedSound ==
  ASSUME NEW s, NEW t, NEW new \in DiffPaths \cup {Null},
         Sound(s), IsParser(t), IsChange(t.current),
         t.current = s.current \/ (t.current.path = First(new, s.old) /\ t.current.old = s.old),
         t.old = s.old, t.new = new, t.oldLeft = s.oldLeft, t.newLeft = s.newLeft,
         t.changes = s.changes, t.malformed <=> (s.malformed \/ new \in Escapes)
  PROVE  Sound(t)
<1>1. HasFile(t)
  BY ChangesAreFiles DEF HasFile
<1>2. ParserTyped(t)
  BY <1>1 DEF Sound, ParserTyped, Changed
<1>3. Leaves(t.current) => t.malformed
  <2>1. CASE t.current = s.current
    BY <1>1, <2>1 DEF Sound, Noticed, HasFile
  <2>2. CASE t.current.path = First(new, s.old) /\ t.current.old = s.old
    <3>1. Leaves(t.current) => new \in Escapes \/ s.old \in Escapes
      BY <2>2 DEF First, Leaves
    <3> QED
      BY <3>1 DEF Sound, Noticed
  <2> QED
    BY <2>1, <2>2
<1>4. Noticed(t)
  BY <1>3 DEF Sound, Noticed
<1> QED
  BY <1>2, <1>4 DEF Sound

LEMMA HeaderSound ==
  ASSUME NEW s, Sound(s), NEW line \in Lines, line.kind \in Headers
  PROVE  Sound(ReadHeader(s, line))
<1>1. PICK t : t = ReadHeader(s, line)
  OBVIOUS
<1>2. /\ IsParser(s) /\ MayHaveFile(s)
      /\ s.old \in DiffPaths \cup {Null} /\ s.new \in DiffPaths \cup {Null}
  BY DEF Sound, ParserTyped, MayHaveFile
<1>3. (s.old \in Escapes \/ s.new \in Escapes) => s.malformed
  BY DEF Sound, Noticed
<1>4. CASE line.kind \in {"--- ", "rename from", "copy from"}
  <2>1. line.path \in DiffPaths \cup {Null}
    BY <1>4, LinePaths DEF Headers
  <2>2. /\ Named(s, t, line.path, s.new)
        /\ (t.malformed <=> (s.malformed \/ line.path \in Escapes))
    <3>1. CASE line.kind = "--- "
      BY <1>1, <1>2, <3>1, MinusIs
    <3>2. CASE line.kind \in {"rename from", "copy from"}
      BY <1>1, <1>2, <3>2, FromIs
    <3> QED
      BY <1>4, <3>1, <3>2
  <2>3. Sound(t)
    BY <1>2, <1>3, <2>1, <2>2, NamedSound
  <2> QED
    BY <1>1, <2>3
<1>5. CASE line.kind \in {"new file", "deleted file"}
  <2>1. Named(s, t, s.old, s.new) /\ (t.malformed <=> s.malformed)
    BY <1>1, <1>2, <1>5, ModeIs
  <2>2. Sound(t)
    BY <1>2, <1>3, <2>1, NamedSound
  <2> QED
    BY <1>1, <2>2
<1>6. CASE line.kind \in {"+++ ", "rename to", "copy to"}
  <2>1. line.path \in DiffPaths \cup {Null}
    BY <1>6, LinePaths DEF Headers
  <2>2. /\ IsParser(t) /\ IsChange(t.current)
        /\ \/ t.current = s.current
           \/ t.current.path = First(line.path, s.old) /\ t.current.old = s.old
        /\ t.old = s.old /\ t.new = line.path
        /\ t.oldLeft = s.oldLeft /\ t.newLeft = s.newLeft /\ t.changes = s.changes
        /\ (t.malformed <=> (s.malformed \/ line.path \in Escapes))
    <3>1. CASE line.kind = "+++ "
      <4>1. PlusRead(s, t, line.path)
        BY <1>1, <1>2, <3>1, PlusIs
      <4> QED
        BY <4>1 DEF PlusRead
    <3>2. CASE line.kind \in {"rename to", "copy to"}
      <4>1. ToRead(s, t, line.path)
        BY <1>1, <1>2, <3>2, ToIs
      <4> QED
        BY <4>1 DEF ToRead
    <3> QED
      BY <1>6, <3>1, <3>2
  <2>3. Sound(t)
    BY <2>1, <2>2, OpenedSound
  <2> QED
    BY <1>1, <2>3
<1> QED
  BY <1>4, <1>5, <1>6 DEF Headers

LEMMA HunkIs ==
  ASSUME NEW s, NEW line, NEW t, IsParser(s), HasFile(s), line.kind = "@@", t = ReadHunk(s, line)
  PROVE  /\ IsParser(t) /\ t.current = s.current /\ t.changes = s.changes /\ t.old = s.old
         /\ t.new = s.new /\ t.inHunk /\ t.oldLeft = line.del /\ t.newLeft = line.add
         /\ t.read = s.read /\ (t.malformed <=> s.malformed)
<1>1. t = [s EXCEPT !.inHunk = TRUE, !.oldLeft = line.del, !.newLeft = line.add]
  BY DEF ReadHunk
<1> QED
  BY <1>1 DEF IsParser

LEMMA HunkSound ==
  ASSUME NEW s, Sound(s), NEW line \in Lines, line.kind \in {"@@", "@@_broken"}
  PROVE  Sound(ReadHunk(s, line))
<1>1. PICK t : t = ReadHunk(s, line)
  OBVIOUS
<1>2. IsParser(s)
  BY DEF Sound, ParserTyped
<1>3. CASE ~HasFile(s) \/ line.kind = "@@_broken"
  <2>1. t = Broken(s)
    BY <1>1, <1>3 DEF ReadHunk
  <2>2. IsParser(t) /\ Alike(s, t) /\ (t.inHunk <=> s.inHunk) /\ t.malformed
    BY <1>2, <2>1, BrokenIs
  <2>3. Sound(t)
    BY <2>2, AlikeSound
  <2> QED
    BY <1>1, <2>3
<1>4. CASE HasFile(s) /\ line.kind = "@@"
  <2>1. /\ IsParser(t) /\ t.current = s.current /\ t.changes = s.changes /\ t.old = s.old
        /\ t.new = s.new /\ t.inHunk /\ t.oldLeft = line.del /\ t.newLeft = line.add
        /\ (t.malformed <=> s.malformed)
    BY <1>1, <1>2, <1>4, HunkIs
  <2>2. line.del \in Int /\ line.add \in Int
    BY <1>4, LineCounts
  <2>3. ParserTyped(t)
    BY <1>4, <2>1, <2>2 DEF Sound, ParserTyped, Changed, HasFile
  <2>4. Noticed(t)
    BY <2>1 DEF Sound, Noticed, HasFile
  <2> QED
    BY <1>1, <2>3, <2>4 DEF Sound
<1> QED
  BY <1>3, <1>4

\* Lines that are not of a hunk.
LEMMA GitLineIs ==
  ASSUME NEW s, NEW line, NEW out, NEW t, ~InHunk(s, line), out = Finished(s),
         t = ReadLine(s, line), line.kind \in {"git", "git_broken"}
  PROVE  t = ReadGit(out, line)
BY DEF ReadLine, Headers

LEMMA HunkLineIs ==
  ASSUME NEW s, NEW line, NEW out, NEW t, ~InHunk(s, line), out = Finished(s),
         t = ReadLine(s, line), line.kind \in {"@@", "@@_broken"}
  PROVE  t = ReadHunk(out, line)
BY DEF ReadLine, Headers

LEMMA HeaderLineIs ==
  ASSUME NEW s, NEW line, NEW out, NEW t, ~InHunk(s, line), out = Finished(s),
         t = ReadLine(s, line), line.kind \in Headers
  PROVE  t = ReadHeader(out, line)
BY DEF ReadLine, Headers

\* A line is read soundly, whatever it is.
LEMMA LineSound ==
  ASSUME NEW s, Sound(s), NEW line \in Lines
  PROVE  Sound(ReadLine(s, line))
<1>1. IsParser(s)
  BY DEF Sound, ParserTyped
<1>2. CASE InHunk(s, line)
  <2>1. ReadLine(s, line) = ReadPayload(s, line) /\ s.inHunk
    BY <1>2 DEF ReadLine, InHunk
  <2> QED
    BY <2>1, PayloadSound
<1>3. CASE ~InHunk(s, line)
  <2>1. PICK out : out = Finished(s)
    OBVIOUS
  <2>2. IsParser(out) /\ Alike(s, out) /\ ~out.inHunk /\ (out.malformed <=> s.malformed)
    BY <1>1, <2>1, FinishedIs
  <2>3. Sound(out)
    BY <2>2, AlikeSound
  <2>4. CASE line.kind \in {"git", "git_broken"}
    <3>1. ReadLine(s, line) = ReadGit(out, line)
      BY <1>3, <2>1, <2>4 DEF ReadLine, Headers
    <3>2. Sound(ReadGit(out, line))
      BY <2>3, <2>4, GitSound
    <3> QED
      BY <3>1, <3>2
  <2>5. CASE line.kind \in {"@@", "@@_broken"}
    <3>1. ReadLine(s, line) = ReadHunk(out, line)
      BY <1>3, <2>1, <2>5 DEF ReadLine, Headers
    <3>2. Sound(ReadHunk(out, line))
      BY <2>3, <2>5, HunkSound
    <3> QED
      BY <3>1, <3>2
  <2>6. CASE line.kind \in Headers
    <3>1. ReadLine(s, line) = ReadHeader(out, line)
      BY <1>3, <2>1, <2>6 DEF ReadLine, Headers
    <3>2. Sound(ReadHeader(out, line))
      BY <2>3, <2>6, HeaderSound
    <3> QED
      BY <3>1, <3>2
  <2>7. CASE line.kind \notin {"git", "git_broken", "@@", "@@_broken"} \cup Headers
    <3>1. ReadLine(s, line) = out \/ ReadLine(s, line) = Broken(out)
      BY <1>3, <2>1, <2>7 DEF ReadLine, ReadStray
    <3>2. PICK t : t = Broken(out)
      OBVIOUS
    <3>3. IsParser(t) /\ Alike(out, t) /\ (t.inHunk <=> out.inHunk) /\ t.malformed
      BY <2>2, <3>2, BrokenIs
    <3>4. Sound(t)
      BY <2>3, <3>3, AlikeSound
    <3> QED
      BY <2>3, <3>1, <3>2, <3>4
  <2> QED
    BY <2>4, <2>5, <2>6, <2>7
<1> QED
  BY <1>2, <1>3

-----------------------------------------------------------------------------
(* DiffParser: what Git writes *)

Grammar == [odd : Nat, stage : {"file", "git", "mode", "minus", "plus", "hunk"},
            old : Nat, new : Nat]

Unfinished(g) == g.old > 0 \/ g.new > 0

\* The changes of the parser are the files of the diff.
Agree(cs, fs) ==
    /\ Len(cs) = Len(fs)
    /\ \A i \in DOMAIN fs : cs[i].path = fs[i].path /\ cs[i].added = fs[i].added

\* Where the grammar is in a file, and the parser with it.
Followed(s, g, fs) ==
    /\ ~s.malformed
    /\ s.old \in Names \cup {Null} /\ s.new \in Names \cup {Null}
    /\ Agree(ClosedChanges(s), fs)
    /\ HasFile(s) <=> g.stage \in {"plus", "hunk"}
    /\ s.inHunk <=> g.stage = "hunk"
    /\ g.stage = "hunk" => s.oldLeft = g.old /\ s.newLeft = g.new
    /\ g.stage # "hunk" => g.old = 0 /\ g.new = 0

IsFiles(fs) == fs \in Seq([path : Names, added : Int])

LEMMA FilesAre ==
  ASSUME NEW fs, IsFiles(fs)
  PROVE  /\ Len(fs) \in Nat /\ DOMAIN fs = 1..Len(fs)
         /\ \A i \in DOMAIN fs : fs[i] \in [path : Names, added : Int] /\ fs[i].added \in Int
<1> DEFINE R == [path : Names, added : Int]
<1>1. fs \in Seq(R)
  BY DEF IsFiles
<1>2. \A r \in R : r.added \in Int
  OBVIOUS
<1> HIDE DEF R
<1>3. Len(fs) \in Nat /\ DOMAIN fs = 1..Len(fs) /\ \A i \in DOMAIN fs : fs[i] \in R
  BY <1>1
<1> QED
  BY <1>2, <1>3 DEF R

LEMMA FollowIs ==
  ASSUME NEW g \in Grammar, NEW line \in Lines, NEW h, h = Follow(g, line)
  PROVE  /\ h \in Grammar /\ (h.odd = 0 => g.odd = 0 /\ Expects(g, line))
         /\ ~Expects(g, line) => h.old = g.old /\ h.new = g.new
<1>1. CASE ~Expects(g, line)
  <2>1. h = [g EXCEPT !.odd = g.odd + 1]
    BY <1>1 DEF Follow
  <2> QED
    BY <1>1, <2>1 DEF Grammar
<1>2. CASE Expects(g, line) /\ Unfinished(g)
  <2> DEFINE o == g.old - (IF Sign(line) = "+" THEN 0 ELSE 1)
             n == g.new - (IF Sign(line) = "-" THEN 0 ELSE 1)
  <2>1. h = [g EXCEPT !.old = o, !.new = n]
    BY <1>2 DEF Follow, Unfinished, Grammar
  <2>2. o \in Nat /\ n \in Nat
    <3>1. \/ Sign(line) = "+" /\ g.new > 0
          \/ Sign(line) = "-" /\ g.old > 0
          \/ line.kind = " " /\ g.old > 0 /\ g.new > 0
      BY <1>2 DEF Expects, Unfinished
    <3>2. line.kind = " " => Sign(line) = " "
      BY DEF Sign
    <3>3. g.old \in Nat /\ g.new \in Nat
      BY DEF Grammar
    <3>4. CASE Sign(line) = "+" /\ g.new > 0
      <4>1. Sign(line) # "-"
        BY <3>4
      <4> QED
        BY <3>3, <3>4, <4>1
    <3>5. CASE Sign(line) = "-" /\ g.old > 0
      <4>1. Sign(line) # "+"
        BY <3>5
      <4> QED
        BY <3>3, <3>5, <4>1
    <3>6. CASE line.kind = " " /\ g.old > 0 /\ g.new > 0
      <4>1. Sign(line) # "+" /\ Sign(line) # "-"
        BY <3>2, <3>6
      <4>2. o = g.old - 1 /\ n = g.new - 1
        BY <4>1
      <4>3. \A k \in Nat : k > 0 => k - 1 \in Nat
        OBVIOUS
      <4>4. g.old - 1 \in Nat /\ g.new - 1 \in Nat
        BY <3>3, <3>6, <4>3
      <4> HIDE DEF o, n
      <4> QED
        BY <4>2, <4>4
    <3> QED
      BY <3>1, <3>4, <3>5, <3>6
  <2> HIDE DEF o, n
  <2> QED
    BY <1>2, <2>1, <2>2 DEF Grammar
<1>3. CASE Expects(g, line) /\ ~Unfinished(g)
  <2>1. CASE line.kind = "@@"
    <3>1. h = [g EXCEPT !.stage = "hunk", !.old = line.del, !.new = line.add]
      BY <1>3, <2>1 DEF Follow, Unfinished
    <3>2. line.del \in Nat /\ line.add \in Nat
      BY <2>1, LineCounts
    <3> QED
      BY <1>3, <3>1, <3>2 DEF Grammar
  <2>2. CASE line.kind # "@@"
    <3>1. PICK stage \in {"git", "minus", "plus", "mode"} : h = [g EXCEPT !.stage = stage]
      BY <1>3, <2>2 DEF Follow, Unfinished
    <3> QED
      BY <1>3, <3>1 DEF Grammar
  <2> QED
    BY <2>1, <2>2
<1> QED
  BY <1>1, <1>2, <1>3

\* A line of a hunk that is still open.
LEMMA PayloadFollowed ==
  ASSUME NEW s, NEW g \in Grammar, NEW fs, NEW line \in Lines, Sound(s), IsFiles(fs),
         g.odd = 0, Followed(s, g, fs), Expects(g, line), Unfinished(g),
         NEW t, t = ReadLine(s, line), NEW h, h = Follow(g, line),
         NEW hs, hs = FilesAfter(fs, g, line)
  PROVE  Followed(t, h, hs) /\ IsFiles(hs)
<1>1. /\ Sign(line) \in Payload
      /\ g.stage = "hunk" /\ s.inHunk /\ s.oldLeft = g.old /\ s.newLeft = g.new
  <2>1. \/ Sign(line) = "+" /\ g.new > 0
        \/ Sign(line) = "-" /\ g.old > 0
        \/ line.kind = " " /\ g.old > 0 /\ g.new > 0
    BY DEF Expects, Unfinished
  <2>2. line.kind = " " => Sign(line) = " "
    BY DEF Sign
  <2>3. Sign(line) \in Payload
    BY <2>1, <2>2 DEF Payload
  <2>4. g.stage = "hunk"
    BY DEF Unfinished, Followed, Grammar
  <2> QED
    BY <2>3, <2>4 DEF Followed
<1>2. line.kind \in Payload \cup {"--- ", "+++ "}
  BY <1>1 DEF Sign
<1>3. IsParser(s) /\ IsChange(s.current) /\ HasFile(s) /\ s.oldLeft \in Int /\ s.newLeft \in Int
  BY <1>1 DEF Sound, ParserTyped, HasFile
<1>4. t = ReadPayload(s, line)
  <2>1. ~EndsHunk(s, line)
    BY <1>2 DEF EndsHunk, Payload
  <2> QED
    BY <1>1, <2>1 DEF ReadLine, InHunk
<1> DEFINE plus == IF Sign(line) = "+" THEN 1 ELSE 0
<1>5. /\ IsParser(t) /\ IsChange(t.current)
      /\ t.current.path = s.current.path
      /\ t.changes = s.changes /\ t.old = s.old /\ t.new = s.new /\ (t.inHunk <=> s.inHunk)
  BY <1>3, <1>4, PayloadIs
<1>6. /\ (t.malformed <=> s.malformed)
      /\ t.current.added = s.current.added + plus
      /\ t.oldLeft = s.oldLeft - (IF Sign(line) = "+" THEN 0 ELSE 1)
      /\ t.newLeft = s.newLeft - (IF Sign(line) = "-" THEN 0 ELSE 1)
  BY <1>1, <1>3, <1>4, PayloadIs
<1>7. /\ h.stage = "hunk" /\ h.old = g.old - (IF Sign(line) = "+" THEN 0 ELSE 1)
      /\ h.new = g.new - (IF Sign(line) = "-" THEN 0 ELSE 1)
  BY <1>1 DEF Follow, Unfinished, Grammar
<1>8. HasFile(t)
  BY <1>5, ChangesAreFiles DEF HasFile
<1>9. PICK cs : cs = ClosedChanges(s)
  OBVIOUS
<1>10. PICK ds : ds = ClosedChanges(t)
  OBVIOUS
<1>11. ParserTyped(s) /\ ParserTyped(t)
  <2>1. Sound(t)
    BY LineSound
  <2> QED
    BY <2>1 DEF Sound
<1>12. /\ Len(cs) = Len(s.changes) + 1 /\ cs[Len(cs)] = s.current
       /\ \A i \in DOMAIN s.changes : cs[i] = s.changes[i]
  BY <1>3, <1>9, <1>11, ClosedIs
<1>13. /\ Len(ds) = Len(s.changes) + 1 /\ ds[Len(ds)] = t.current
       /\ \A i \in DOMAIN s.changes : ds[i] = s.changes[i]
  <2>1. /\ Len(ds) = Len(t.changes) + 1 /\ ds[Len(ds)] = t.current
        /\ \A i \in DOMAIN t.changes : ds[i] = t.changes[i]
    BY <1>8, <1>10, <1>11, ClosedIs
  <2> QED
    BY <1>5, <2>1
<1>14. Len(s.changes) \in Nat /\ DOMAIN s.changes = 1..Len(s.changes)
  BY <1>11 DEF ParserTyped
<1>15. Agree(cs, fs)
  BY <1>9 DEF Followed
<1>16. /\ Len(fs) = Len(s.changes) + 1 /\ DOMAIN fs = 1..Len(fs) /\ Len(fs) \in DOMAIN fs
  BY <1>12, <1>14, <1>15, FilesAre DEF Agree
<1>17. /\ IsFiles(hs) /\ Len(hs) = Len(fs) /\ DOMAIN hs = DOMAIN fs
       /\ \A i \in DOMAIN fs : /\ hs[i].path = fs[i].path
                               /\ hs[i].added = fs[i].added + (IF i = Len(fs) THEN plus ELSE 0)
  <2>1. CASE Sign(line) = "+"
    <3>1. hs = [fs EXCEPT ![Len(fs)].added = @ + 1]
      <4>1. ~(g.odd > 0)
        OBVIOUS
      <4> QED
        BY <2>1, <4>1, Zenon DEF FilesAfter, Unfinished
    <3> DEFINE last == [fs[Len(fs)] EXCEPT !.added = @ + 1]
    <3>2. fs[Len(fs)] \in [path : Names, added : Int]
      BY <1>16, FilesAre
    <3>3. /\ last \in [path : Names, added : Int] /\ last.path = fs[Len(fs)].path
          /\ last.added = fs[Len(fs)].added + 1
      BY <3>2
    <3>4. hs = [fs EXCEPT ![Len(fs)] = last]
      BY <3>1
    <3> HIDE DEF last
    <3>5. hs \in Seq([path : Names, added : Int]) /\ Len(hs) = Len(fs) /\ DOMAIN hs = DOMAIN fs
      BY <1>16, <3>3, <3>4 DEF IsFiles
    <3>6. hs[Len(fs)] = last /\ \A i \in DOMAIN fs : i # Len(fs) => hs[i] = fs[i]
      BY <1>16, <3>4
    <3>7. \A i \in DOMAIN fs : fs[i].added \in Int
      BY FilesAre
    <3> QED
      BY <2>1, <3>3, <3>5, <3>6, <3>7 DEF IsFiles
  <2>2. CASE Sign(line) # "+"
    <3>1. hs = fs
      BY <2>2 DEF FilesAfter, Unfinished
    <3>2. \A i \in DOMAIN fs : fs[i].added \in Int
      BY FilesAre
    <3> QED
      BY <2>2, <3>1, <3>2
  <2> QED
    BY <2>1, <2>2
<1>18. Agree(ds, hs)
  <2>1. Len(ds) = Len(hs)
    BY <1>13, <1>16, <1>17
  <2>2. ASSUME NEW i \in DOMAIN hs PROVE ds[i].path = hs[i].path /\ ds[i].added = hs[i].added
    <3>1. cs[i].path = fs[i].path /\ cs[i].added = fs[i].added
      BY <1>15, <1>17, <2>2 DEF Agree
    <3>2. CASE i = Len(fs)
      <4>1. cs[i] = s.current /\ ds[i] = t.current
        BY <1>12, <1>13, <1>16, <3>2
      <4> QED
        BY <1>5, <1>6, <1>17, <3>1, <3>2, <4>1
    <3>3. CASE i # Len(fs)
      <4>1. i \in DOMAIN s.changes
        BY <1>14, <1>16, <1>17, <3>3
      <4>2. cs[i] = s.changes[i] /\ ds[i] = s.changes[i]
        BY <1>12, <1>13, <4>1
      <4>3. fs[i].added \in Int
        BY <1>17, FilesAre
      <4> QED
        BY <1>17, <3>1, <3>3, <4>2, <4>3
    <3> QED
      BY <3>2, <3>3
  <2> QED
    BY <2>1, <2>2 DEF Agree
<1> QED
  BY <1>1, <1>5, <1>6, <1>7, <1>8, <1>10, <1>17, <1>18 DEF Followed

\* A line between hunks: what the parser has finished before it reads the line.
LEMMA OutsideHunks ==
  ASSUME NEW s, NEW g \in Grammar, NEW fs, NEW line \in Lines, Sound(s),
         Followed(s, g, fs), Expects(g, line), ~Unfinished(g), NEW out, out = Finished(s)
  PROVE  /\ line.kind \in {"git", "@@", "new file", "deleted file", "--- ", "+++ "}
         /\ ~InHunk(s, line) /\ Sound(out)
         /\ IsParser(out) /\ Alike(s, out) /\ ~out.inHunk /\ (out.malformed <=> s.malformed)
<1>1. line.kind \in {"git", "@@", "new file", "deleted file", "--- ", "+++ "}
  BY DEF Expects, Unfinished
<1>2. ~InHunk(s, line)
  <2>1. CASE line.kind \in {"git", "@@"}
    BY <2>1 DEF InHunk, EndsHunk
  <2>2. CASE line.kind \notin {"git", "@@"}
    <3>1. g.stage # "hunk"
      BY <1>1, <2>2 DEF Expects, Unfinished
    <3> QED
      BY <3>1 DEF Followed, InHunk
  <2> QED
    BY <2>1, <2>2
<1>3. IsParser(s)
  BY DEF Sound, ParserTyped
<1>4. IsParser(out) /\ Alike(s, out) /\ ~out.inHunk /\ (out.malformed <=> s.malformed)
  BY <1>3, FinishedIs
<1>5. Sound(out)
  BY <1>4, AlikeSound
<1> QED
  BY <1>1, <1>2, <1>4, <1>5

\* A line that stands between hunks.
LEMMA HeaderFollowed ==
  ASSUME NEW s, NEW g \in Grammar, NEW fs, NEW line \in Lines, Sound(s), IsFiles(fs),
         g.odd = 0, Followed(s, g, fs), Expects(g, line), ~Unfinished(g),
         NEW t, t = ReadLine(s, line), NEW h, h = Follow(g, line),
         NEW hs, hs = FilesAfter(fs, g, line)
  PROVE  Followed(t, h, hs) /\ IsFiles(hs)
<1>1. PICK out : out = Finished(s)
  OBVIOUS
<1>2. /\ line.kind \in {"git", "@@", "new file", "deleted file", "--- ", "+++ "}
      /\ ~InHunk(s, line) /\ Sound(out)
      /\ IsParser(out) /\ Alike(s, out) /\ ~out.inHunk /\ (out.malformed <=> s.malformed)
  BY <1>1, OutsideHunks
<1>3. /\ ~s.malformed /\ Agree(ClosedChanges(s), fs)
      /\ s.old \in Names \cup {Null} /\ s.new \in Names \cup {Null}
      /\ HasFile(s) <=> g.stage \in {"plus", "hunk"}
      /\ g.stage # "hunk" => g.old = 0 /\ g.new = 0
  BY DEF Followed
<1>4. IsParser(s) /\ MayHaveFile(s) /\ MayHaveFile(out)
  BY <1>2 DEF Sound, ParserTyped, MayHaveFile
<1>5. g.old = 0 /\ g.new = 0
  BY DEF Grammar, Unfinished
<1>6. CASE line.kind = "git"
  <2>1. t = ReadGit(out, line)
    BY <1>1, <1>2, <1>6, GitLineIs
  <2>2. GitRead(out, t, line)
    BY <1>2, <2>1, GitIs
  <2>3. {line.old, line.new} \subseteq Names /\ hs = fs
    BY <1>6 DEF Expects, Unfinished, FilesAfter
  <2>4. ~Outside(line)
    BY <2>3, DiffAssumption DEF Outside
  <2>5. h = [g EXCEPT !.stage = "git"]
    BY <1>6 DEF Follow, Unfinished
  <2>6. h.stage = "git" /\ h.old = g.old /\ h.new = g.new
    BY <2>5 DEF Grammar
  <2>7. ClosedChanges(t) = ClosedChanges(s)
    BY <1>2, <2>2 DEF GitRead, ClosedChanges, HasFile, Alike
  <2>8. ~HasFile(t)
    BY <2>2 DEF GitRead, HasFile
  <2> QED
    BY <1>2, <1>3, <1>5, <2>2, <2>3, <2>4, <2>6, <2>7, <2>8 DEF Followed, GitRead
<1>7. CASE line.kind \in {"new file", "deleted file"}
  <2>1. t = ReadHeader(out, line)
    <3>1. line.kind \in Headers
      BY <1>7 DEF Headers
    <3> QED
      BY <1>1, <1>2, <3>1, HeaderLineIs
  <2>2. Named(out, t, out.old, out.new) /\ (t.malformed <=> out.malformed)
    BY <1>2, <1>7, <2>1, ModeIs
  <2>3. g.stage = "git" /\ hs = fs
    BY <1>7 DEF Expects, Unfinished, FilesAfter
  <2>4. h = [g EXCEPT !.stage = "mode"]
    BY <1>7 DEF Follow, Unfinished
  <2>5. h.stage = "mode" /\ h.old = g.old /\ h.new = g.new
    BY <2>4 DEF Grammar
  <2>6. ClosedChanges(t) = ClosedChanges(s) /\ (HasFile(t) <=> HasFile(s))
    BY <1>2, <2>2 DEF Named, ClosedChanges, HasFile, Alike
  <2> QED
    BY <1>2, <1>3, <1>5, <2>2, <2>3, <2>5, <2>6 DEF Followed, Named, Alike
<1>8. CASE line.kind = "--- "
  <2>1. t = ReadHeader(out, line)
    <3>1. line.kind \in Headers
      BY <1>8 DEF Headers
    <3> QED
      BY <1>1, <1>2, <3>1, HeaderLineIs
  <2>2. /\ Named(out, t, line.path, out.new)
        /\ (t.malformed <=> (out.malformed \/ line.path \in Escapes))
    BY <1>2, <1>8, <2>1, MinusIs
  <2>3. g.stage \in {"git", "mode"} /\ line.path \in Names \cup {Null} /\ hs = fs
    BY <1>8 DEF Expects, Unfinished, FilesAfter
  <2>4. h = [g EXCEPT !.stage = "minus"]
    BY <1>8 DEF Follow, Unfinished
  <2>5. h.stage = "minus" /\ h.old = g.old /\ h.new = g.new
    BY <2>4 DEF Grammar
  <2>6. ClosedChanges(t) = ClosedChanges(s) /\ (HasFile(t) <=> HasFile(s))
    BY <1>2, <2>2 DEF Named, ClosedChanges, HasFile, Alike
  <2>7. line.path \notin Escapes
    BY <2>3, DiffAssumption
  <2> QED
    BY <1>2, <1>3, <1>5, <2>2, <2>3, <2>5, <2>6, <2>7 DEF Followed, Named, Alike
<1>9. CASE line.kind = "+++ "
  <2>1. t = ReadHeader(out, line)
    <3>1. line.kind \in Headers
      BY <1>9 DEF Headers
    <3> QED
      BY <1>1, <1>2, <3>1, HeaderLineIs
  <2>2. PlusRead(out, t, line.path)
    BY <1>2, <1>4, <1>9, <2>1, PlusIs
  <2>3. /\ g.stage = "minus" /\ line.path \in Names
        /\ hs = Append(fs, [path |-> line.path, added |-> 0])
    <3>1. g.stage = "minus" /\ line.path \in Names
      BY <1>9 DEF Expects, Unfinished
    <3>2. ~(g.odd > 0)
      OBVIOUS
    <3>3. hs = Append(fs, [path |-> line.path, added |-> 0])
      BY <1>9, <3>2, Zenon DEF FilesAfter, Unfinished
    <3> QED
      BY <3>1, <3>3
  <2>4. h = [g EXCEPT !.stage = "plus"]
    BY <1>9 DEF Follow, Unfinished
  <2>5. h.stage = "plus" /\ h.old = g.old /\ h.new = g.new
    BY <2>4 DEF Grammar
  <2>6. line.path \notin Escapes /\ line.path # Null
    BY <2>3, DiffAssumption
  <2>7. ~HasFile(s) /\ ~HasFile(out)
    BY <1>2, <1>3, <2>3 DEF HasFile, Alike
  <2>8. t.current.path = line.path /\ t.current.added = 0
    BY <2>2, <2>6, <2>7 DEF PlusRead, First
  <2>9. HasFile(t)
    BY <2>2, ChangesAreFiles DEF PlusRead, HasFile
  <2>10. Agree(ClosedChanges(t), hs) /\ IsFiles(hs)
    <3>1. PICK cs : cs = ClosedChanges(s)
      OBVIOUS
    <3>2. PICK ds : ds = ClosedChanges(t)
      OBVIOUS
    <3>3. PICK last : last = [path |-> line.path, added |-> 0]
      OBVIOUS
    <3>4. last \in [path : Names, added : Int] /\ last.path = line.path /\ last.added = 0
      BY <2>3, <3>3
    <3>5. IsFiles(hs)
      BY <2>3, <3>3, <3>4 DEF IsFiles
    <3>6. Sound(t) /\ ParserTyped(s) /\ ParserTyped(t)
      <4>1. Sound(t)
        BY LineSound
      <4> QED
        BY <4>1 DEF Sound
    <3>7. t.changes = s.changes
      BY <1>2, <2>2 DEF PlusRead, Alike
    <3>8. /\ Len(ds) = Len(t.changes) + 1 /\ ds[Len(ds)] = t.current
          /\ \A i \in DOMAIN t.changes : ds[i] = t.changes[i]
      BY <2>9, <3>2, <3>6, ClosedIs
    <3>9. cs = s.changes
      BY <2>7, <3>1 DEF ClosedChanges
    <3>10. Len(s.changes) \in Nat /\ DOMAIN s.changes = 1..Len(s.changes)
      BY <3>6 DEF ParserTyped
    <3>11. Agree(s.changes, fs)
      BY <1>3, <3>1, <3>9
    <3>12. Len(fs) = Len(s.changes) /\ DOMAIN fs = DOMAIN s.changes
      BY <3>10, <3>11, FilesAre DEF Agree
    <3>13. /\ Len(hs) = Len(fs) + 1 /\ DOMAIN hs = 1..(Len(fs) + 1) /\ hs[Len(fs) + 1] = last
           /\ \A i \in DOMAIN fs : hs[i] = fs[i]
      BY <2>3, <3>3 DEF IsFiles
    <3>14. Len(ds) = Len(hs)
      BY <3>7, <3>8, <3>12, <3>13
    <3>15. ASSUME NEW i \in DOMAIN hs PROVE ds[i].path = hs[i].path /\ ds[i].added = hs[i].added
      <4>1. CASE i = Len(fs) + 1
        BY <2>8, <3>4, <3>7, <3>8, <3>12, <3>13, <4>1
      <4>2. CASE i # Len(fs) + 1
        <5>1. i \in DOMAIN fs
          BY <3>10, <3>12, <3>13, <3>15, <4>2
        <5>2. ds[i] = s.changes[i] /\ hs[i] = fs[i]
          BY <3>7, <3>8, <3>12, <3>13, <5>1
        <5> QED
          BY <3>11, <5>1, <5>2 DEF Agree
      <4> QED
        BY <4>1, <4>2
    <3> QED
      BY <3>2, <3>5, <3>14, <3>15 DEF Agree
  <2> QED
    BY <1>2, <1>3, <1>5, <2>2, <2>3, <2>5, <2>6, <2>9, <2>10 DEF Followed, PlusRead, Alike
<1>10. CASE line.kind = "@@"
  <2>1. t = ReadHunk(out, line)
    BY <1>1, <1>2, <1>10, HunkLineIs
  <2>2. g.stage \in {"plus", "hunk"} /\ hs = fs
    BY <1>10 DEF Expects, Unfinished, FilesAfter
  <2>3. HasFile(out)
    BY <1>2, <1>3, <2>2 DEF HasFile, Alike
  <2>4. /\ IsParser(t) /\ t.current = out.current /\ t.changes = out.changes /\ t.old = out.old
        /\ t.new = out.new /\ t.inHunk /\ t.oldLeft = line.del /\ t.newLeft = line.add
        /\ (t.malformed <=> out.malformed)
    BY <1>2, <1>10, <2>1, <2>3, HunkIs
  <2>5. h = [g EXCEPT !.stage = "hunk", !.old = line.del, !.new = line.add]
    BY <1>10 DEF Follow, Unfinished
  <2>6. h.stage = "hunk" /\ h.old = line.del /\ h.new = line.add
    BY <2>5 DEF Grammar
  <2>7. ClosedChanges(t) = ClosedChanges(s) /\ HasFile(t)
    BY <1>2, <2>3, <2>4 DEF ClosedChanges, HasFile, Alike
  <2> QED
    BY <1>2, <1>3, <2>2, <2>4, <2>6, <2>7 DEF Followed, Alike
<1> QED
  BY <1>2, <1>6, <1>7, <1>8, <1>9, <1>10

LEMMA StepFollowed ==
  ASSUME NEW s, NEW g \in Grammar, NEW fs, NEW line \in Lines, Sound(s), IsFiles(fs),
         g.odd = 0 => Followed(s, g, fs)
  PROVE  /\ IsFiles(FilesAfter(fs, g, line))
         /\ Follow(g, line).odd = 0 =>
              Followed(ReadLine(s, line), Follow(g, line), FilesAfter(fs, g, line))
<1>1. CASE g.odd = 0 /\ Expects(g, line)
  <2>1. CASE Unfinished(g)
    BY <1>1, <2>1, PayloadFollowed
  <2>2. CASE ~Unfinished(g)
    BY <1>1, <2>2, HeaderFollowed
  <2> QED
    BY <2>1, <2>2
<1>2. CASE ~(g.odd = 0 /\ Expects(g, line))
  <2>1. FilesAfter(fs, g, line) = fs
    <3>1. g.odd > 0 \/ ~Expects(g, line)
      BY <1>2 DEF Grammar
    <3> QED
      BY <3>1, Zenon DEF FilesAfter
  <2>2. Follow(g, line).odd # 0
    BY <1>2, FollowIs
  <2> QED
    BY <2>1, <2>2
<1> QED
  BY <1>1, <1>2

\* The count of the lines that were read is beside everything else.
LEMMA Counted ==
  ASSUME NEW s, NEW n, Sound(s), NEW t, t = [s EXCEPT !.read = n]
  PROVE  /\ Sound(t) /\ t.read = n
         /\ \A g, fs : Followed(s, g, fs) => Followed(t, g, fs)
<1>1. IsParser(s)
  BY DEF Sound, ParserTyped
<1>2. /\ IsParser(t) /\ Alike(s, t) /\ (t.inHunk <=> s.inHunk) /\ (t.malformed <=> s.malformed)
      /\ t.read = n
  BY <1>1 DEF IsParser, Alike
<1>3. Sound(t)
  BY <1>2, AlikeSound
<1>4. ClosedChanges(t) = ClosedChanges(s) /\ (HasFile(t) <=> HasFile(s))
  BY <1>2 DEF Alike, ClosedChanges, HasFile
<1>5. ASSUME NEW g, NEW fs, Followed(s, g, fs) PROVE Followed(t, g, fs)
  BY <1>2, <1>4, <1>5 DEF Followed, Alike
<1> QED
  BY <1>2, <1>3, <1>5

DiffInv ==
    /\ Sound(parser) /\ parser.read \in 0..MaxLines
    /\ strict \in Grammar /\ IsFiles(diffed)
    /\ strict.odd = 0 => Followed(parser, strict, diffed)

LEMMA DiffStarts == DiffInit => DiffInv
<1> SUFFICES ASSUME DiffInit PROVE DiffInv
  OBVIOUS
<1>1. parser = Fresh /\ strict = Start /\ diffed = <<>>
  BY DEF DiffInit
<1>2. PICK s : s = parser
  OBVIOUS
<1>3. /\ IsParser(s) /\ s.current = NoFile /\ s.old = Null /\ s.new = Null
      /\ ~s.inHunk /\ s.oldLeft = 0 /\ s.newLeft = 0 /\ ~s.malformed
      /\ s.changes = <<>> /\ s.read = 0
  BY <1>1, <1>2, FreshIs
<1>4. <<>> \in Seq({}) /\ Changed(s) = {}
  BY <1>3 DEF Changed
<1>5. ~HasFile(s)
  BY <1>3 DEF HasFile
<1>6. ParserTyped(s)
  BY <1>3, <1>4 DEF ParserTyped
<1>7. Noticed(s)
  BY <1>3, <1>5, DiffAssumption DEF Noticed
<1>8. strict \in Grammar /\ strict.stage = "file" /\ strict.old = 0 /\ strict.new = 0
  BY <1>1 DEF Start, Grammar
<1>9. IsFiles(diffed) /\ Agree(ClosedChanges(s), diffed)
  BY <1>1, <1>3, <1>5 DEF IsFiles, Agree, ClosedChanges
<1>10. Followed(s, strict, diffed)
  BY <1>3, <1>5, <1>8, <1>9 DEF Followed
<1>11. s.read \in 0..MaxLines
  BY <1>3, DiffAssumption
<1> QED
  BY <1>2, <1>6, <1>7, <1>8, <1>9, <1>10, <1>11 DEF DiffInv, Sound

LEMMA DiffStays == DiffInv /\ [DiffNext]_diffVars => DiffInv'
<1> SUFFICES ASSUME DiffInv, [DiffNext]_diffVars PROVE DiffInv'
  OBVIOUS
<1>1. CASE DiffNext
  <2>1. PICK line \in Offered :
           /\ parser' = [ReadLine(parser, line) EXCEPT !.read = parser.read + 1]
           /\ strict' = Follow(strict, line)
           /\ diffed' = FilesAfter(diffed, strict, line)
    BY <1>1 DEF DiffNext
  <2>2. line \in Lines
    BY DiffAssumption
  <2>3. Sound(parser) /\ strict \in Grammar /\ IsFiles(diffed)
    BY DEF DiffInv
  <2>4. PICK t : t = ReadLine(parser, line)
    OBVIOUS
  <2>5. Sound(t)
    BY <2>2, <2>3, <2>4, LineSound
  <2>6. strict' \in Grammar
    BY <2>1, <2>2, <2>3, FollowIs
  <2>7. IsFiles(diffed') /\ (strict'.odd = 0 => Followed(t, strict', diffed'))
    BY <2>1, <2>2, <2>3, <2>4, StepFollowed DEF DiffInv
  <2>8. parser' = [t EXCEPT !.read = parser.read + 1]
    BY <2>1, <2>4
  <2>9. /\ Sound(parser') /\ parser'.read = parser.read + 1
        /\ \A g, fs : Followed(t, g, fs) => Followed(parser', g, fs)
    BY <2>5, <2>8, Counted
  <2>10. parser'.read \in 0..MaxLines
    BY <1>1, <2>9, DiffAssumption DEF DiffInv, DiffNext
  <2> QED
    BY <2>6, <2>7, <2>9, <2>10 DEF DiffInv
<1>2. CASE UNCHANGED diffVars
  <2>1. parser' = parser /\ strict' = strict /\ diffed' = diffed
    BY <1>2 DEF diffVars
  <2> QED
    BY <2>1 DEF DiffInv
<1> QED
  BY <1>1, <1>2

\* diff_parser.py: what Git writes is read exactly, whatever the lines of a
\* hunk look like, and a path that leaves the repository is never read as one
\* that does not.
THEOREM DiffsAreRead == DiffSpec => []GitDiffsAreRead
<1>1. DiffInv => DiffTypeOK
  BY DEF DiffInv, DiffTypeOK, Sound, ParserTyped
<1>2. DiffInv => FilesAreRead
  <2> SUFFICES ASSUME DiffInv, strict.odd = 0 PROVE FilesAreRead
    BY DEF FilesAreRead
  <2>1. ~parser.malformed /\ Agree(ClosedChanges(parser), diffed)
    BY DEF DiffInv, Followed
  <2> QED
    BY <2>1 DEF FilesAreRead, ReturnedChanges, Agree
<1>3. DiffInv => EscapeIsMalformed
  <2> SUFFICES ASSUME DiffInv, NEW cs, cs = ClosedChanges(parser), NEW i \in DOMAIN cs,
                      Leaves(cs[i])
               PROVE  parser.malformed
    BY DEF EscapeIsMalformed, ReturnedChanges, Leaves
  <2>1. Noticed(parser) /\ ParserTyped(parser)
    BY DEF DiffInv, Sound
  <2>2. \/ i \in DOMAIN parser.changes /\ cs[i] = parser.changes[i]
        \/ HasFile(parser) /\ cs[i] = parser.current
    BY <2>1, ClosedIs
  <2> QED
    BY <2>1, <2>2 DEF Noticed
<1>4. DiffInv => GitDiffsAreRead
  BY <1>1, <1>2, <1>3 DEF GitDiffsAreRead
<1> QED
  BY <1>4, DiffStarts, DiffStays, PTL DEF DiffSpec

-----------------------------------------------------------------------------
(* SymlinkInspection *)

Inspections == [object : Kinds \cup {"blocked"}, nonempty : BOOLEAN, inspected : Nat,
                missing : SUBSET Nodes, exhausted : BOOLEAN]

Walking == phase \in {"open", "list", "entries"}

InspectTyped ==
    /\ phase \in {"stat", "open", "list", "entries", "done"}
    /\ link \in 1..Len(Retained) + 1 /\ left \in 0..TotalLimit
    /\ results \in Seq(Inspections) /\ Len(results) = IF Walking THEN link ELSE link - 1
    /\ Walking => link <= Len(Retained)
    /\ phase = "done" => link = Len(Retained) + 1
    /\ names \subseteq Nodes /\ stack \in Seq(Nodes) /\ child \in Nodes \cup {"none"}

\* Nothing is inside what is no directory, and what was lost was replaced.
TreeSound ==
    /\ kind \in [Nodes -> Kinds \cup {"blocked"}]
    /\ \A n \in Nodes : kind[n] # "absent" => Up[n] = "top" \/ kind[Up[n]] = "dir"
    /\ \A n \in lost : ~Untouched(n)

\* The directories being held, and where the walk is.
Held == {stack[i] : i \in DOMAIN stack} \cup ({child} \ {"none"})

Place ==
    /\ ~Walking => names = {} /\ stack = <<>> /\ child = "none"
    /\ phase = "list" => names = {} /\ child = "none"
    /\ phase = "entries" => child = "none"
    /\ phase = "open" => child \in Nodes

\* The walk stays below its link, and held directories have been counted.
Around ==
    Walking => /\ \A n \in Held \cup names : Retained[link] \in Above(n)
               /\ \A n \in names : Up[n] \in Nodes
               /\ \A n \in Held : Up[n] = "top" \/ n \in Current.missing \cup Represented

\* What was there all the time below a link, what the walk still comes to, and
\* what may be called missing.
Below(j) == {n \in Nodes : /\ Retained[j] \in Above(n) /\ Up[n] \in Nodes
                           /\ kind[n] # "absent" /\ Untouched(n)}
Awaited == {n \in Nodes : Above(n) \cap (Held \cup names) # {}}
There == IF replaced = {} THEN {n \in Nodes : kind[n] # "absent"} ELSE Nodes

Ended(r, below, represented) ==
    r.exhausted => /\ r.missing # {} => r.nonempty
                   /\ \A n \in below : r.object = "dir" /\ n \in r.missing \cup represented

Underway(r, below, represented, awaited) ==
    r.exhausted => \A n \in below : r.object = "dir" /\ n \in r.missing \cup represented \cup awaited

MissingIs(r, j, represented, there) ==
    /\ r.missing # {} => r.inspected > 0
    /\ \A n \in r.missing : /\ Retained[j] \in Above(n) /\ Up[n] \in Nodes
                            /\ n \notin represented /\ n \in there

Tracked ==
    \A j \in DOMAIN results :
        /\ MissingIs(results[j], j, Represented, There)
        /\ IF Walking /\ j = link THEN Underway(results[j], Below(j), Represented, Awaited)
                                  ELSE Ended(results[j], Below(j), Represented)

InspectInv == InspectTyped /\ TreeSound /\ Place /\ Around /\ Tracked

-----------------------------------------------------------------------------
(* Paths *)

LEMMA AboveIs ==
  ASSUME NEW n \in Nodes
  PROVE  /\ n \in Above(n) /\ Above(n) \subseteq Nodes /\ Closed(Above(n))
         /\ \A paths \in SUBSET Nodes : n \in paths /\ Closed(paths) => Above(n) \subseteq paths
<1>1. Above(n) = {a \in Nodes : \A paths \in SUBSET Nodes : n \in paths /\ Closed(paths) => a \in paths}
  BY DEF Above, Lineage
<1>2. ASSUME NEW a \in Above(n), Up[a] # "top" PROVE Up[a] \in Above(n)
  <2>1. a \in Nodes /\ Up[a] \in Nodes
    BY <1>1, <1>2, InspectionAssumption
  <2>2. ASSUME NEW paths \in SUBSET Nodes, n \in paths, Closed(paths) PROVE Up[a] \in paths
    <3>1. a \in paths
      BY <1>1, <2>2
    <3> QED
      BY <1>2, <2>2, <3>1 DEF Closed
  <2> QED
    BY <1>1, <2>1, <2>2
<1> QED
  BY <1>1, <1>2 DEF Closed

\* The directories above a path are above what is in it, and above one of two
\* different paths of a line there is a path of it below the other.
LEMMA LineIs ==
  ASSUME NEW n \in Nodes, NEW a \in Above(n)
  PROVE  /\ a \in Nodes /\ Above(a) \subseteq Above(n)
         /\ Up[a] \in Nodes => Up[a] \in Above(n)
         /\ a # n => \E c \in Above(n) : Up[c] = a
<1>1. a \in Nodes
  BY AboveIs
<1>2. Above(a) \subseteq Above(n)
  BY <1>1, AboveIs
<1>3. Up[a] \in Nodes => Up[a] \in Above(n)
  BY AboveIs, InspectionAssumption DEF Closed
<1>4. ASSUME a # n, \A c \in Above(n) : Up[c] # a PROVE FALSE
  <2> DEFINE paths == Above(n) \ {a}
  <2>1. n \in paths /\ paths \in SUBSET Nodes /\ Closed(paths)
    BY <1>4, AboveIs DEF Closed
  <2> QED
    BY <2>1, AboveIs
<1> QED
  BY <1>1, <1>2, <1>3, <1>4

LEMMA UpIs ==
  ASSUME NEW n \in Nodes, Up[n] \in Nodes
  PROVE  /\ Up[n] \in Above(n) /\ Above(Up[n]) \subseteq Above(n) /\ n \notin Above(Up[n])
<1>1. n \in Above(n)
  BY AboveIs
<1> QED
  BY <1>1, LineIs, InspectionAssumption

\* Everything above what is there is a directory.
LEMMA LineIsThere ==
  ASSUME TreeSound, NEW n \in Nodes, kind[n] # "absent", NEW a \in Above(n)
  PROVE  kind[a] # "absent" /\ (a # n => kind[a] = "dir")
<1> DEFINE paths == {x \in Nodes : kind[x] # "absent"}
<1>1. Closed(paths)
  <2>1. ASSUME NEW x \in paths, Up[x] # "top" PROVE Up[x] \in paths
    <3>1. Up[x] \in Nodes /\ kind[Up[x]] = "dir"
      BY <2>1, InspectionAssumption DEF TreeSound
    <3> QED
      BY <3>1
  <2> QED
    BY <2>1 DEF Closed
<1>2. Above(n) \subseteq paths
  BY <1>1, AboveIs
<1>3. ASSUME a # n PROVE kind[a] = "dir"
  <2>1. PICK c \in Above(n) : Up[c] = a
    BY <1>3, LineIs
  <2>2. kind[c] # "absent" /\ c \in Nodes /\ a \in Nodes
    BY <1>2, <2>1, LineIs
  <2> QED
    BY <2>1, <2>2, InspectionAssumption DEF TreeSound
<1> QED
  BY <1>2, <1>3

\* What nobody touched was not lost.
LEMMA NotLost ==
  ASSUME TreeSound, NEW n \in Nodes, Untouched(n), NEW a \in Above(n)
  PROVE  a \notin lost
<1>1. Above(a) \subseteq Above(n) /\ a \in Nodes
  BY LineIs
<1> QED
  BY <1>1 DEF TreeSound, Untouched

LEMMA StartOf ==
  ASSUME NEW a \in Seq(Nodes), NEW m \in 0..Len(a)
  PROVE  /\ SubSeq(a, 1, m) \in Seq(Nodes) /\ Len(SubSeq(a, 1, m)) = m
         /\ \A i \in 1..m : SubSeq(a, 1, m)[i] = a[i] /\ i \in DOMAIN a
         /\ m = Len(a) => SubSeq(a, 1, m) = a
OBVIOUS

LEMMA RetainedIs ==
  /\ Retained \in Seq(Nodes) /\ Len(Retained) \in Nat /\ Len(Retained) <= Len(Proposed)
  /\ \A i \in 1..Len(Retained) : Retained[i] \in Nodes /\ Up[Retained[i]] = "top"
  /\ Len(Proposed) <= TransitionLimit => Retained = Proposed
<1> DEFINE m == IF Len(Proposed) < TransitionLimit THEN Len(Proposed) ELSE TransitionLimit
<1>1. Proposed \in Seq(Nodes) /\ Len(Proposed) \in Nat /\ TransitionLimit \in Nat
      /\ DOMAIN Proposed = 1..Len(Proposed)
  BY InspectionAssumption
<1>2. m \in 0..Len(Proposed) /\ (Len(Proposed) <= TransitionLimit => m = Len(Proposed))
  <2> DEFINE n == Len(Proposed)
  <2>1. n \in Nat /\ TransitionLimit \in Nat /\ m = IF n < TransitionLimit THEN n ELSE TransitionLimit
    BY <1>1
  <2> HIDE DEF m, n
  <2>2. m \in 0..n /\ (n <= TransitionLimit => m = n)
    BY <2>1
  <2> QED
    BY <2>2 DEF n
<1>3. Retained = SubSeq(Proposed, 1, m)
  BY DEF Retained
<1> HIDE DEF m
<1>4. /\ Retained \in Seq(Nodes) /\ Len(Retained) = m
      /\ \A i \in 1..m : Retained[i] = Proposed[i] /\ i \in DOMAIN Proposed
      /\ m = Len(Proposed) => Retained = Proposed
  BY <1>1, <1>2, <1>3, StartOf
<1>5. \A i \in 1..m : Retained[i] \in Nodes /\ Up[Retained[i]] = "top"
  <2>1. \A i \in DOMAIN Proposed : Proposed[i] \in Nodes
    BY <1>1
  <2> QED
    BY <1>4, <2>1, InspectionAssumption
<1>6. m \in Nat /\ m <= Len(Proposed)
  <2>1. \A k \in Nat : \A x \in 0..k : x \in Nat /\ x <= k
    OBVIOUS
  <2> QED
    BY <1>1, <1>2, <2>1
<1> QED
  BY <1>2, <1>4, <1>5, <1>6
-----------------------------------------------------------------------------
(* The steps of an inspection *)

\* The tree and what git tracks are as they were.
Same == kind' = kind /\ replaced' = replaced /\ tracked' = tracked

LEMMA SameIs ==
  ASSUME Same
  PROVE  /\ Represented' = Represented /\ There' = There /\ \A j : Below(j)' = Below(j)
         /\ \A n \in Nodes : Untouched(n)' <=> Untouched(n)
BY DEF Same, Represented, There, Below, Untouched

LEMMA SameTree == ASSUME TreeSound, Same, lost' \subseteq lost PROVE TreeSound'
<1>1. \A n : Untouched(n)' <=> Untouched(n)
  BY DEF Same, Untouched
<1> QED
  BY <1>1 DEF TreeSound, Same

\* What an inspection says after its last step.
Says(r, j) ==
    /\ r \in Inspections /\ MissingIs(r, j, Represented, There)
    /\ Ended(r, Below(j), Represented)

LEMMA CurrentIs ==
  ASSUME InspectInv, Walking
  PROVE  /\ link \in 1..Len(Retained) /\ Len(results) = link /\ Current = results[link]
         /\ link \in DOMAIN results /\ Current \in Inspections
         /\ MissingIs(Current, link, Represented, There)
         /\ Underway(Current, Below(link), Represented, Awaited)
         /\ Retained[link] \in Nodes /\ Up[Retained[link]] = "top"
<1>1. /\ link \in 1..Len(Retained) + 1 /\ link <= Len(Retained) /\ Len(results) = link
      /\ results \in Seq(Inspections) /\ Len(Retained) \in Nat
  BY RetainedIs DEF InspectInv, InspectTyped
<1>2. link \in 1..Len(Retained) /\ link \in DOMAIN results /\ Current = results[link]
  BY <1>1 DEF Current
<1>3. Current \in Inspections
  BY <1>1, <1>2
<1>4. MissingIs(results[link], link, Represented, There)
      /\ Underway(results[link], Below(link), Represented, Awaited)
  BY <1>2 DEF InspectInv, Tracked
<1> QED
  BY <1>1, <1>2, <1>3, <1>4, RetainedIs

LEMMA EndsInv ==
  ASSUME InspectInv, Walking, NEW r, Says(r, link), Ends(r), Same, lost' \subseteq lost,
         left' \in 0..TotalLimit
  PROVE  InspectInv'
<1>1. /\ link \in 1..Len(Retained) /\ Len(results) = link /\ results \in Seq(Inspections)
      /\ r \in Inspections /\ DOMAIN results = 1..link
  BY CurrentIs DEF InspectInv, InspectTyped, Says
<1>2. /\ results' = [results EXCEPT ![link] = r] /\ link' = link + 1 /\ phase' = "stat"
      /\ stack' = <<>> /\ names' = {} /\ child' = "none"
  BY <1>1 DEF Ends, Update
<1>3. /\ results' \in Seq(Inspections) /\ Len(results') = link /\ DOMAIN results' = 1..link
      /\ results'[link] = r /\ \A j \in 1..link : j # link => results'[j] = results[j]
  BY <1>1, <1>2
<1>4. ~Walking'
  BY <1>2 DEF Walking
<1>5. InspectTyped'
  <2>1. link + 1 \in 1..Len(Retained) + 1 /\ link = link + 1 - 1
    BY <1>1, RetainedIs
  <2> QED
    BY <1>2, <1>3, <1>4, <2>1 DEF InspectTyped
<1>6. TreeSound'
  BY SameTree DEF InspectInv
<1>7. Place' /\ Around'
  BY <1>2, <1>4 DEF Place, Around
<1>8. Tracked'
  <2>1. ASSUME NEW j \in DOMAIN results'
        PROVE  /\ MissingIs(results'[j], j, Represented', There')
               /\ Ended(results'[j], Below(j)', Represented')
    <3>1. Represented' = Represented /\ There' = There /\ Below(j)' = Below(j)
      BY SameIs
    <3>2. CASE j = link
      BY <1>3, <3>1, <3>2 DEF Says
    <3>3. CASE j # link
      <4>1. results'[j] = results[j] /\ j \in DOMAIN results
        BY <1>1, <1>3, <2>1, <3>3
      <4> QED
        BY <3>1, <3>3, <4>1 DEF InspectInv, Tracked
    <3> QED
      BY <3>2, <3>3
  <2> QED
    BY <1>4, <2>1 DEF Tracked
<1> QED
  BY <1>5, <1>6, <1>7, <1>8 DEF InspectInv

\* A walk that goes on: what it leaves to come to is still awaited.
LEMMA WalkInv ==
  ASSUME InspectInv, Walking, Walking', NEW r \in Inspections, Same, lost' \subseteq lost,
         results' = [results EXCEPT ![link] = r], link' = link, left' \in 0..TotalLimit,
         phase' \in {"open", "list", "entries"},
         names' \subseteq Nodes, stack' \in Seq(Nodes), child' \in Nodes \cup {"none"},
         Place', Around', MissingIs(r, link, Represented, There),
         Underway(r, Below(link), Represented, Awaited')
  PROVE  InspectInv'
<1>1. /\ link \in 1..Len(Retained) /\ Len(results) = link /\ results \in Seq(Inspections)
      /\ DOMAIN results = 1..link
  BY CurrentIs DEF InspectInv, InspectTyped
<1>2. /\ results' \in Seq(Inspections) /\ Len(results') = link /\ DOMAIN results' = 1..link
      /\ results'[link] = r /\ \A j \in 1..link : j # link => results'[j] = results[j]
  BY <1>1
<1>3. InspectTyped'
  BY <1>1, <1>2, RetainedIs DEF InspectTyped
<1>4. TreeSound'
  BY SameTree DEF InspectInv
<1>5. Tracked'
  <2>1. ASSUME NEW j \in DOMAIN results'
        PROVE  /\ MissingIs(results'[j], j, Represented', There')
               /\ IF j = link' THEN Underway(results'[j], Below(j)', Represented', Awaited')
                               ELSE Ended(results'[j], Below(j)', Represented')
    <3>1. Represented' = Represented /\ There' = There /\ Below(j)' = Below(j)
      BY SameIs
    <3>2. CASE j = link
      BY <1>2, <3>1, <3>2
    <3>3. CASE j # link
      <4>1. results'[j] = results[j] /\ j \in DOMAIN results
        BY <1>1, <1>2, <2>1, <3>3
      <4>2. MissingIs(results[j], j, Represented, There) /\ Ended(results[j], Below(j), Represented)
        BY <3>3, <4>1 DEF InspectInv, Tracked
      <4> QED
        BY <3>1, <3>3, <4>1, <4>2
    <3> QED
      BY <3>2, <3>3
  <2> QED
    BY <2>1 DEF Tracked
<1> QED
  BY <1>3, <1>4, <1>5 DEF InspectInv

LEMMA NotExhausted ==
  ASSUME NEW r \in Inspections, NEW j, r.exhausted = FALSE, MissingIs(r, j, Represented, There)
  PROVE  Says(r, j)
BY DEF Says, Ended

LEMMA StatTargetInv == ASSUME InspectInv, StatTarget PROVE InspectInv'
<1> DEFINE target == Retained[link]
           k == kind[target]
           open == k = "dir" /\ tracked # NoAuthority
           r == [Result EXCEPT !.object = k, !.exhausted = k \in {"absent", "file"} \/ open]
<1>1. /\ link \in 1..Len(Retained) /\ Len(results) = link - 1 /\ results \in Seq(Inspections)
      /\ target \in Nodes /\ Up[target] = "top" /\ Len(Retained) \in Nat /\ ~Walking
  <2>1. ~Walking
    BY DEF StatTarget, Walking
  <2>2. link \in 1..Len(Retained)
    BY RetainedIs DEF StatTarget, InspectInv, InspectTyped
  <2> QED
    BY <2>1, <2>2, RetainedIs DEF InspectInv, InspectTyped
<1>2. /\ results' = Append(results, r) /\ lost' = {} /\ Same /\ stack' = <<>> /\ names' = {}
      /\ left' = left /\ child = "none"
  BY <1>1, Zenon DEF StatTarget, Same, InspectInv, Place
<1>3. \/ open /\ phase' = "open" /\ child' = target /\ link' = link
      \/ ~open /\ phase' = "stat" /\ child' = "none" /\ link' = link + 1
  BY Zenon DEF StatTarget
<1>4. /\ r \in Inspections /\ r.missing = {} /\ r.object = k
      /\ r.exhausted <=> (k \in {"absent", "file"} \/ open)
  <2>1. k \in Kinds \cup {"blocked"}
    BY <1>1 DEF InspectInv, TreeSound
  <2>2. PICK b \in BOOLEAN : b <=> (k \in {"absent", "file"} \/ open)
    OBVIOUS
  <2>3. b = (k \in {"absent", "file"} \/ open)
    BY <2>2, Zenon
  <2>4. r = [object |-> k, nonempty |-> FALSE, inspected |-> 0, missing |-> {}, exhausted |-> b]
    <3>1. r = [Result EXCEPT !.object = k, !.exhausted = b]
      BY <2>3, Zenon
    <3> HIDE DEF r, k, open
    <3> QED
      BY <3>1 DEF Result
  <2> HIDE DEF r, k, open
  <2> QED
    BY <2>1, <2>2, <2>4 DEF Inspections
<1> HIDE DEF r
<1>5. /\ results' \in Seq(Inspections) /\ Len(results') = link /\ DOMAIN results' = 1..link
      /\ results'[link] = r /\ \A j \in 1..link : j # link => j \in DOMAIN results /\ results'[j] = results[j]
  <2> HIDE DEF target
  <2> QED
    BY <1>1, <1>2, <1>4
<1>6. MissingIs(r, link, Represented, There)
  BY <1>4 DEF MissingIs
<1>7. \A n \in Below(link) : k = "dir" /\ target \in Above(n)
  <2>1. ASSUME NEW n \in Below(link) PROVE k = "dir" /\ target \in Above(n)
    <3>1. n \in Nodes /\ target \in Above(n) /\ target # n /\ kind[n] # "absent" /\ TreeSound
      BY <1>1, InspectionAssumption DEF Below, InspectInv
    <3> QED
      BY <3>1, LineIsThere
  <2> QED
    BY <2>1
<1>8. TreeSound'
  BY <1>2, SameTree DEF InspectInv
<1>9. \A j \in 1..link : j # link =>
          MissingIs(results'[j], j, Represented, There) /\ Ended(results'[j], Below(j), Represented)
  BY <1>1, <1>5 DEF InspectInv, Tracked
<1>10. Represented' = Represented /\ There' = There /\ \A j : Below(j)' = Below(j)
  BY <1>2, SameIs
<1>11. CASE ~open
  <2>1. phase' = "stat" /\ child' = "none" /\ link' = link + 1 /\ ~Walking'
    BY <1>3, <1>11 DEF Walking
  <2>2. Ended(r, Below(link), Represented)
    BY <1>4, <1>7, <1>11 DEF Ended
  <2>3. InspectTyped'
    <3>1. link + 1 \in 1..Len(Retained) + 1 /\ link = link + 1 - 1 /\ left \in 0..TotalLimit
      BY <1>1 DEF InspectInv, InspectTyped
    <3> QED
      BY <1>2, <1>5, <2>1, <3>1 DEF InspectTyped
  <2>4. Place' /\ Around'
    BY <1>2, <2>1 DEF Place, Around
  <2>5. Tracked'
    BY <1>5, <1>6, <1>9, <1>10, <2>1, <2>2 DEF Tracked
  <2> QED
    BY <1>8, <2>3, <2>4, <2>5 DEF InspectInv
<1>12. CASE open
  <2>1. phase' = "open" /\ child' = target /\ link' = link /\ Walking'
    BY <1>3, <1>12 DEF Walking
  <2>2. InspectTyped'
    <3>1. link \in 1..Len(Retained) + 1 /\ link <= Len(Retained) /\ left \in 0..TotalLimit
      BY <1>1 DEF InspectInv, InspectTyped
    <3> QED
      BY <1>1, <1>2, <1>5, <2>1, <3>1 DEF InspectTyped
  <2>3. Held' = {target}
    BY <1>1, <1>2, <2>1, InspectionAssumption DEF Held
  <2>4. Place'
    BY <1>1, <2>1 DEF Place, Walking
  <2>5. Around'
    BY <1>1, <1>2, <2>1, <2>3, AboveIs DEF Around
  <2>6. \A n \in Below(link) : n \in Awaited'
    BY <1>7, <2>3 DEF Below, Awaited
  <2>7. Underway(r, Below(link), Represented, Awaited')
    BY <1>4, <1>7, <2>6 DEF Underway
  <2>8. Tracked'
    BY <1>5, <1>6, <1>9, <1>10, <2>1, <2>7 DEF Tracked
  <2> QED
    BY <1>8, <2>2, <2>4, <2>5, <2>8 DEF InspectInv
<1> QED
  BY <1>11, <1>12

LEMMA OpenInv == ASSUME InspectInv, Open PROVE InspectInv'
<1>1. /\ phase = "open" /\ Walking /\ child \in Nodes /\ Same /\ lost' = lost /\ left' = left
      /\ left \in 0..TotalLimit /\ stack \in Seq(Nodes) /\ names \subseteq Nodes
  BY DEF Open, Walking, Same, InspectInv, InspectTyped, Place
<1>2. CASE kind[child] = "dir" /\ child \notin lost
  <2>1. /\ stack' = Append(stack, child) /\ child' = "none" /\ names' = names /\ link' = link
        /\ results' = results /\ phase' = IF names = {} THEN "list" ELSE "entries"
    BY <1>2 DEF Open
  <2>2. Walking' /\ phase' \in {"open", "list", "entries"} /\ stack' \in Seq(Nodes)
    BY <1>1, <2>1 DEF Walking
  <2>3. Held' = Held
    <3>1. /\ Len(stack) \in Nat /\ DOMAIN stack = 1..Len(stack) /\ DOMAIN stack' = 1..Len(stack) + 1
          /\ stack'[Len(stack) + 1] = child /\ \A i \in 1..Len(stack) : stack'[i] = stack[i]
      BY <1>1, <2>1
    <3>2. {stack'[i] : i \in DOMAIN stack'} = {stack[i] : i \in DOMAIN stack} \cup {child}
      <4>1. 1..Len(stack) + 1 = (1..Len(stack)) \cup {Len(stack) + 1}
        BY <3>1
      <4> QED
        BY <3>1, <4>1
    <3>3. child # "none"
      BY <1>1, InspectionAssumption
    <3> QED
      BY <2>1, <3>2, <3>3 DEF Held
  <2>4. Awaited' = Awaited
    BY <2>1, <2>3 DEF Awaited
  <2>5. Place'
    BY <2>1, <2>2 DEF Place
  <2>6. Represented' = Represented
    BY <1>1, SameIs
  <2>7. Around'
    BY <1>1, <2>1, <2>3, <2>6 DEF Around, InspectInv, Current
  <2>8. /\ Current \in Inspections /\ MissingIs(Current, link, Represented, There)
        /\ Underway(Current, Below(link), Represented, Awaited')
        /\ results' = [results EXCEPT ![link] = Current]
    <3>1. results \in Seq(Inspections) /\ Current = results[link]
      BY <1>1, CurrentIs DEF InspectInv, InspectTyped
    <3>2. results = [results EXCEPT ![link] = results[link]]
      BY <3>1
    <3> QED
      BY <1>1, <2>1, <2>4, <3>1, <3>2, CurrentIs
  <2> QED
    BY <1>1, <2>1, <2>2, <2>5, <2>7, <2>8, WalkInv
<1>3. CASE ~(kind[child] = "dir" /\ child \notin lost)
  <2> DEFINE r == [Failed(Current) EXCEPT !.nonempty = FALSE]
  <2>1. Ends(r)
    BY <1>3 DEF Open
  <2>2. Current \in Inspections /\ MissingIs(Current, link, Represented, There)
    BY <1>1, CurrentIs
  <2>3. /\ r \in Inspections /\ r.exhausted = FALSE /\ r.missing = Current.missing
        /\ r.inspected = Current.inspected
    <3> HIDE DEF Current
    <3> QED
      BY <2>2 DEF Failed, Inspections
  <2> HIDE DEF r
  <2>4. Says(r, link)
    BY <2>2, <2>3, NotExhausted DEF MissingIs
  <2> QED
    BY <1>1, <2>1, <2>4, EndsInv
<1> QED
  BY <1>2, <1>3

LEMMA ListInv == ASSUME InspectInv, List PROVE InspectInv'
<1> DEFINE d == stack[Len(stack)]
<1>1. /\ phase = "list" /\ Walking /\ stack # <<>> /\ Same /\ lost' = lost /\ left' = left
      /\ left \in 0..TotalLimit /\ stack \in Seq(Nodes) /\ names = {} /\ child = "none"
      /\ link' = link /\ child' = "none" /\ results' = results
      /\ stack' = SubSeq(stack, 1, Len(stack) - 1)
      /\ phase' = IF names' = {} THEN "list" ELSE "entries"
  BY DEF List, Walking, Same, InspectInv, InspectTyped, Place
<1>2. names' = IF d \in lost THEN {} ELSE Children(d)
  BY DEF List
<1>3. Walking' /\ phase' \in {"open", "list", "entries"}
  BY <1>1 DEF Walking
<1>4. /\ Len(stack) \in Nat /\ Len(stack) # 0 /\ DOMAIN stack = 1..Len(stack)
  BY <1>1
<1>5. /\ stack' \in Seq(Nodes) /\ Len(stack') = Len(stack) - 1
      /\ \A i \in 1..Len(stack) - 1 : stack'[i] = stack[i]
  <2>1. Len(stack) - 1 \in 0..Len(stack)
    BY <1>4
  <2> QED
    BY <1>1, <2>1, StartOf
<1>6. d \in Nodes /\ d \in Held /\ Held' \subseteq Held /\ Held \subseteq Held' \cup {d}
  <2>1. Held = {stack[i] : i \in 1..Len(stack)}
    BY <1>1, <1>4 DEF Held
  <2>2. Held' = {stack'[i] : i \in 1..Len(stack) - 1}
    <3>1. DOMAIN stack' = 1..Len(stack) - 1
      BY <1>5
    <3> QED
      BY <1>1, <3>1 DEF Held
  <2>3. Len(stack) \in 1..Len(stack)
    BY <1>4
  <2>4. \A k \in Nat : (\A i \in 1..k : i = k \/ i \in 1..k - 1) /\ (\A i \in 1..k - 1 : i \in 1..k)
    OBVIOUS
  <2>5. /\ \A i \in 1..Len(stack) : i = Len(stack) \/ i \in 1..Len(stack) - 1
        /\ \A i \in 1..Len(stack) - 1 : i \in 1..Len(stack)
    BY <1>4, <2>4
  <2>6. d \in Nodes
    BY <1>1, <1>4, <2>3
  <2> QED
    BY <1>5, <2>1, <2>2, <2>3, <2>5, <2>6
<1>7. names' \subseteq Nodes /\ \A n \in names' : Up[n] = d
  BY <1>2 DEF Children
<1>8. Place'
  BY <1>1, <1>3 DEF Place
<1>9. Represented' = Represented /\ Current' = Current
  BY <1>1, SameIs DEF Current
<1>10. \A n \in Held : /\ Retained[link] \in Above(n)
                       /\ Up[n] = "top" \/ n \in Current.missing \cup Represented
  BY <1>1 DEF InspectInv, Around
<1>11. Around'
  <2> HIDE DEF d
  <2>1. ASSUME NEW n \in names' PROVE Retained[link] \in Above(n) /\ Up[n] \in Nodes
    <3>1. n \in Nodes /\ Up[n] = d /\ d \in Nodes /\ Retained[link] \in Above(d)
      BY <1>6, <1>7, <1>10
    <3>2. Above(d) \subseteq Above(n)
      BY <3>1, UpIs
    <3> QED
      BY <3>1, <3>2
  <2>2. \A n \in Held' : /\ Retained[link] \in Above(n)
                         /\ Up[n] = "top" \/ n \in Current.missing \cup Represented
    BY <1>6, <1>10
  <2> QED
    BY <1>1, <1>9, <2>1, <2>2 DEF Around
<1>12. /\ Current \in Inspections /\ MissingIs(Current, link, Represented, There)
       /\ Underway(Current, Below(link), Represented, Awaited)
       /\ results' = [results EXCEPT ![link] = Current]
  <2>1. results \in Seq(Inspections) /\ Current = results[link]
    BY <1>1, CurrentIs DEF InspectInv, InspectTyped
  <2>2. results = [results EXCEPT ![link] = results[link]]
    BY <2>1
  <2> QED
    BY <1>1, <2>1, <2>2, CurrentIs
<1>13. ASSUME NEW n \in Below(link), n \in Awaited, n \notin Current.missing \cup Represented
       PROVE  n \in Awaited'
  <2>1. n \in Nodes /\ kind[n] # "absent" /\ Untouched(n) /\ Up[n] # "top" /\ TreeSound
    BY InspectionAssumption DEF Below, InspectInv
  <2>2. PICK a \in Above(n) : a \in Held
    BY <1>1, <1>13 DEF Awaited
  <2>3. CASE a \in Held'
    BY <2>1, <2>2, <2>3 DEF Awaited
  <2>4. CASE a = d
    <3>1. a # n
      BY <1>10, <1>13, <2>1, <2>2
    <3>2. PICK c \in Above(n) : Up[c] = d
      BY <2>1, <2>4, <3>1, LineIs
    <3>3. c \in Nodes /\ kind[c] # "absent" /\ d \notin lost
      BY <2>1, <2>2, <2>4, <3>2, LineIs, LineIsThere, NotLost
    <3>4. c \in names'
      BY <1>2, <3>2, <3>3 DEF Children
    <3> QED
      BY <2>1, <3>2, <3>4 DEF Awaited
  <2> QED
    BY <1>6, <2>2, <2>3, <2>4
<1>14. Underway(Current, Below(link), Represented, Awaited')
  BY <1>12, <1>13 DEF Underway
<1> HIDE DEF d
<1> QED
  BY <1>1, <1>3, <1>5, <1>7, <1>8, <1>11, <1>12, <1>14, WalkInv, InspectionAssumption

LEMMA ExhaustedInv == ASSUME InspectInv, Exhausted PROVE InspectInv'
<1> DEFINE r == [Current EXCEPT !.nonempty = Current.inspected > 0]
<1>1. /\ phase = "list" /\ Walking /\ stack = <<>> /\ Same /\ lost' = lost /\ left' = left
      /\ left \in 0..TotalLimit /\ names = {} /\ child = "none" /\ Ends(r)
  BY DEF Exhausted, Walking, Same, InspectInv, InspectTyped, Place
<1>2. /\ Current \in Inspections /\ MissingIs(Current, link, Represented, There)
      /\ Underway(Current, Below(link), Represented, Awaited)
  BY <1>1, CurrentIs
<1>3. Awaited = {}
  BY <1>1 DEF Awaited, Held
<1>4. /\ r \in Inspections /\ r.exhausted = Current.exhausted /\ r.missing = Current.missing
      /\ r.inspected = Current.inspected /\ r.object = Current.object
      /\ r.nonempty <=> Current.inspected > 0
  <2> DEFINE b == Current.inspected > 0
  <2>1. b \in BOOLEAN
    OBVIOUS
  <2> HIDE DEF b, Current
  <2> QED
    BY <1>2, <2>1 DEF Inspections, b
<1> HIDE DEF r
<1>5. MissingIs(r, link, Represented, There)
  BY <1>2, <1>4 DEF MissingIs
<1>6. Ended(r, Below(link), Represented)
  BY <1>2, <1>3, <1>4 DEF Ended, Underway, MissingIs
<1> QED
  BY <1>1, <1>4, <1>5, <1>6, EndsInv DEF Says

\* An entry that was looked at is counted, as missing from what git tracks
\* unless it is in it.
Seen(n) == [Current EXCEPT !.inspected = @ + 1, !.missing = @ \cup ({n} \ Represented)]

LEMMA SeenIs ==
  ASSUME InspectInv, Walking, NEW n \in names, kind[n] # "absent"
  PROVE  /\ Seen(n) \in Inspections /\ MissingIs(Seen(n), link, Represented, There)
         /\ Seen(n).exhausted = Current.exhausted /\ Seen(n).object = Current.object
         /\ Seen(n).missing = Current.missing \cup ({n} \ Represented)
<1> DEFINE c == Current
<1>1. /\ c \in Inspections /\ MissingIs(c, link, Represented, There)
      /\ n \in Nodes /\ Retained[link] \in Above(n) /\ Up[n] \in Nodes
  BY CurrentIs DEF InspectInv, InspectTyped, Around
<1>2. n \in There
  BY <1>1 DEF There
<1>3. Seen(n) = [c EXCEPT !.inspected = @ + 1, !.missing = @ \cup ({n} \ Represented)]
  BY DEF Seen
<1> HIDE DEF c
<1>4. /\ Seen(n) \in Inspections /\ Seen(n).missing = c.missing \cup ({n} \ Represented)
      /\ Seen(n).inspected = c.inspected + 1 /\ c.inspected \in Nat
      /\ Seen(n).exhausted = c.exhausted /\ Seen(n).object = c.object
  <2> DEFINE new == {n} \ Represented
  <2>1. Seen(n) = [c EXCEPT !.inspected = @ + 1, !.missing = @ \cup new] /\ new \in SUBSET Nodes
    BY <1>1, <1>3
  <2> HIDE DEF new
  <2>2. /\ c = [object |-> c.object, nonempty |-> c.nonempty, inspected |-> c.inspected,
                missing |-> c.missing, exhausted |-> c.exhausted]
        /\ c.object \in Kinds \cup {"blocked"} /\ c.nonempty \in BOOLEAN /\ c.inspected \in Nat
        /\ c.missing \in SUBSET Nodes /\ c.exhausted \in BOOLEAN
    BY <1>1 DEF Inspections
  <2>3. Seen(n) = [object |-> c.object, nonempty |-> c.nonempty, inspected |-> c.inspected + 1,
                   missing |-> c.missing \cup new, exhausted |-> c.exhausted]
    BY <2>1, <2>2
  <2> QED
    BY <2>2, <2>3, <2>1 DEF Inspections, new
<1>5. MissingIs(Seen(n), link, Represented, There)
  BY <1>1, <1>2, <1>4 DEF MissingIs
<1> QED
  BY <1>4, <1>5 DEF c

LEMMA EntryInv == ASSUME InspectInv, NEW n \in Nodes, Entry(n) PROVE InspectInv'
<1> DEFINE gone == kind[n] = "absent" \/ Up[n] \in lost
           full == Current.inspected >= TreeLimit \/ left = 0
           deep == kind[n] = "dir" /\ Depth(n) >= DepthLimit
<1>1. /\ phase = "entries" /\ n \in names /\ Walking /\ Same /\ lost' \subseteq lost
      /\ left \in 0..TotalLimit /\ stack \in Seq(Nodes) /\ names \subseteq Nodes /\ child = "none"
  BY DEF Entry, Walking, Same, InspectInv, InspectTyped, Place
<1>2. /\ full => Ends(Bounded(Current)) /\ left' = left
      /\ ~full /\ gone => Ends([Failed(Current) EXCEPT !.nonempty = Current.inspected > 0]) /\ left' = left
      /\ ~full /\ ~gone => left' = left - 1
      /\ ~full /\ ~gone /\ deep => Ends(Bounded(Seen(n)))
      /\ ~full /\ ~gone /\ ~deep =>
            /\ Update(Seen(n)) /\ names' = names \ {n} /\ link' = link /\ stack' = stack
            /\ IF kind[n] = "dir" THEN phase' = "open" /\ child' = n
               ELSE phase' = (IF names' = {} THEN "list" ELSE "entries") /\ child' = "none"
  BY Zenon DEF Entry, Seen
<1>3. Current \in Inspections /\ MissingIs(Current, link, Represented, There)
  BY <1>1, CurrentIs
<1>4. CASE full
  <2> DEFINE r == Bounded(Current)
  <2>1. /\ r \in Inspections /\ r.exhausted = FALSE /\ r.missing = Current.missing
        /\ r.inspected = Current.inspected
    <3> HIDE DEF Current
    <3> QED
      BY <1>3 DEF Bounded, Inspections
  <2>2. Ends(r) /\ left' = left
    BY <1>2, <1>4
  <2> HIDE DEF r
  <2>3. Says(r, link)
    BY <1>3, <2>1, NotExhausted DEF MissingIs
  <2> QED
    BY <1>1, <2>2, <2>3, EndsInv
<1>5. CASE ~full /\ gone
  <2> DEFINE b == Current.inspected > 0
             r == [Failed(Current) EXCEPT !.nonempty = Current.inspected > 0]
  <2>1. /\ r \in Inspections /\ r.exhausted = FALSE /\ r.missing = Current.missing
        /\ r.inspected = Current.inspected
    <3>1. b \in BOOLEAN /\ r = [Failed(Current) EXCEPT !.nonempty = b]
      OBVIOUS
    <3> HIDE DEF b, r, Current
    <3> QED
      BY <1>3, <3>1 DEF Failed, Inspections
  <2>2. Ends(r) /\ left' = left
    BY <1>2, <1>5
  <2> HIDE DEF r
  <2>3. Says(r, link)
    BY <1>3, <2>1, NotExhausted DEF MissingIs
  <2> QED
    BY <1>1, <2>2, <2>3, EndsInv
<1>6. ASSUME ~full, ~gone PROVE InspectInv'
  <2>1. left' \in 0..TotalLimit
    <3>1. left' = left - 1 /\ left # 0 /\ TotalLimit \in Nat
      BY <1>2, <1>6, InspectionAssumption
    <3> QED
      BY <1>1, <3>1
  <2> DEFINE seen == Seen(n)
  <2>2. /\ seen \in Inspections /\ MissingIs(seen, link, Represented, There)
        /\ seen.exhausted = Current.exhausted /\ seen.object = Current.object
        /\ seen.missing = Current.missing \cup ({n} \ Represented)
    BY <1>1, <1>6, SeenIs
  <2>3. CASE deep
    <3> DEFINE r == Bounded(seen)
    <3>1. Ends(r)
      BY <1>2, <1>6, <2>3
    <3>2. /\ r \in Inspections /\ r.exhausted = FALSE /\ r.missing = seen.missing
          /\ r.inspected = seen.inspected
      <4> HIDE DEF seen
      <4> QED
        BY <2>2 DEF Bounded, Inspections
    <3> HIDE DEF r, seen
    <3>3. Says(r, link)
      BY <2>2, <3>2, NotExhausted DEF MissingIs
    <3> QED
      BY <1>1, <2>1, <3>1, <3>3, EndsInv
  <2>4. CASE ~deep
    <3>1. /\ Update(seen) /\ names' = names \ {n} /\ link' = link /\ stack' = stack
          /\ \/ kind[n] = "dir" /\ phase' = "open" /\ child' = n
             \/ kind[n] # "dir" /\ phase' = (IF names' = {} THEN "list" ELSE "entries") /\ child' = "none"
      BY <1>2, <1>6, <2>4
    <3> HIDE DEF gone, full, deep, seen
    <3>2. Walking' /\ phase' \in {"open", "list", "entries"} /\ n # "none"
      BY <3>1, InspectionAssumption DEF Walking
    <3>3. /\ results' = [results EXCEPT ![link] = seen] /\ Current' = seen
      <4>1. /\ results \in Seq(Inspections) /\ Len(results) = link /\ link \in DOMAIN results
        BY <1>1, CurrentIs DEF InspectInv, InspectTyped
      <4>2. results' = [results EXCEPT ![link] = seen]
        BY <3>1, <4>1 DEF Update
      <4>3. Len(results') = link /\ results'[link] = seen
        BY <4>1, <4>2
      <4> QED
        BY <4>2, <4>3 DEF Current
    <3>4. Held' = Held \cup (IF kind[n] = "dir" THEN {n} ELSE {})
      BY <1>1, <3>1, <3>2 DEF Held
    <3>5. Place'
      BY <3>1, <3>2 DEF Place
    <3>6. Represented' = Represented
      BY <1>1, SameIs
    <3>7. \A x \in Held \cup names : Retained[link] \in Above(x)
      BY <1>1 DEF InspectInv, Around
    <3>8. \A x \in Held : Up[x] = "top" \/ x \in Current.missing \cup Represented
      BY <1>1 DEF InspectInv, Around
    <3>9. \A x \in names : Up[x] \in Nodes
      BY <1>1 DEF InspectInv, Around
    <3>10. Around'
      <4>1. \A x \in Held' \cup names' : Retained[link] \in Above(x)
        BY <1>1, <3>1, <3>4, <3>7
      <4>2. \A x \in Held' : Up[x] = "top" \/ x \in seen.missing \cup Represented
        BY <2>2, <3>4, <3>8
      <4>3. \A x \in names' : Up[x] \in Nodes
        BY <3>1, <3>9
      <4> QED
        BY <3>1, <3>3, <3>6, <4>1, <4>2, <4>3 DEF Around
    <3>11. ASSUME NEW m \in Below(link), m \in Awaited, m \notin seen.missing \cup Represented
           PROVE  m \in Awaited'
      <4>1. m \in Nodes /\ kind[m] # "absent" /\ TreeSound
        BY DEF Below, InspectInv
      <4>2. PICK a \in Above(m) : a \in Held \cup names
        BY <3>11 DEF Awaited
      <4>3. CASE a # n
        BY <3>1, <3>4, <4>1, <4>2, <4>3 DEF Awaited
      <4>4. CASE a = n
        <5>1. n # m
          BY <2>2, <3>11
        <5>2. kind[n] = "dir"
          BY <4>1, <4>2, <4>4, <5>1, LineIsThere
        <5> QED
          BY <3>4, <4>1, <4>2, <4>4, <5>2 DEF Awaited
      <4> QED
        BY <4>3, <4>4
    <3>12. Underway(seen, Below(link), Represented, Awaited')
      <4>1. Underway(Current, Below(link), Represented, Awaited)
        BY <1>1, CurrentIs
      <4> QED
        BY <2>2, <3>11, <4>1 DEF Underway
    <3>13. /\ names' \subseteq Nodes /\ stack' \in Seq(Nodes) /\ child' \in Nodes \cup {"none"}
      BY <1>1, <3>1
    <3> QED
      BY <1>1, <2>1, <2>2, <3>1, <3>2, <3>3, <3>5, <3>10, <3>12, <3>13, WalkInv
  <2> QED
    BY <2>3, <2>4
<1> QED
  BY <1>4, <1>5, <1>6

LEMMA ClassifyInv == ASSUME InspectInv, Classify PROVE InspectInv'
<1>1. /\ phase = "stat" /\ phase' = "done" /\ ~Walking /\ ~Walking' /\ Same /\ lost' = lost
      /\ link' = link /\ stack' = stack /\ names' = names /\ child' = child /\ left' = left
      /\ link > Len(Retained)
  BY DEF Classify, Walking, Same
<1>2. /\ results \in Seq(Inspections) /\ Len(results) = link - 1 /\ link = Len(Retained) + 1
      /\ Len(results) \in Nat /\ DOMAIN results = 1..Len(results)
  BY <1>1, RetainedIs DEF InspectInv, InspectTyped
<1>3. \A j \in DOMAIN results : Says(results[j], j)
  BY <1>1, <1>2 DEF InspectInv, Tracked, Says
<1>4. /\ DOMAIN results' = DOMAIN results
      /\ \A j \in DOMAIN results : results'[j] = results[j] \/ results'[j] = Failed(results[j])
  <2>1. PICK answered \in BOOLEAN :
           results' = IF answered THEN results
                      ELSE [i \in DOMAIN results |->
                              IF results[i].missing = {} THEN results[i] ELSE Failed(results[i])]
    BY DEF Classify
  <2> QED
    BY <2>1
<1>5. ASSUME NEW j \in DOMAIN results PROVE Says(results'[j], j)
  <2>1. CASE results'[j] = results[j]
    BY <1>3, <2>1
  <2>2. CASE results'[j] = Failed(results[j])
    <3> DEFINE c == results[j]
               r == Failed(c)
    <3>1. c \in Inspections /\ MissingIs(c, j, Represented, There)
      BY <1>3 DEF Says
    <3> HIDE DEF c
    <3>2. /\ r \in Inspections /\ r.exhausted = FALSE /\ r.missing = c.missing
          /\ r.inspected = c.inspected
      BY <3>1 DEF Failed, Inspections
    <3> HIDE DEF r
    <3>3. Says(r, j)
      BY <3>1, <3>2, NotExhausted DEF MissingIs
    <3> QED
      BY <2>2, <3>3 DEF r, c
  <2> QED
    BY <1>4, <2>1, <2>2
<1>6. results' \in Seq(Inspections) /\ Len(results') = Len(results)
  <2>1. results' = [i \in 1..Len(results) |-> results'[i]]
    <3>1. PICK answered \in BOOLEAN :
           results' = IF answered THEN results
                      ELSE [i \in DOMAIN results |->
                              IF results[i].missing = {} THEN results[i] ELSE Failed(results[i])]
      BY DEF Classify
    <3>2. CASE answered
      BY <1>2, <3>1, <3>2
    <3>3. CASE ~answered
      BY <1>2, <3>1, <3>3
    <3> QED
      BY <3>2, <3>3
  <2>2. \A i \in 1..Len(results) : results'[i] \in Inspections
    BY <1>2, <1>5 DEF Says
  <2> QED
    BY <1>2, <2>1, <2>2
<1>7. InspectTyped'
  BY <1>1, <1>2, <1>6 DEF InspectInv, InspectTyped
<1>8. TreeSound'
  BY <1>1, SameTree DEF InspectInv
<1>9. Place' /\ Around'
  BY <1>1 DEF InspectInv, Place, Around
<1>10. Tracked'
  <2>1. Represented' = Represented /\ There' = There /\ \A j : Below(j)' = Below(j)
    BY <1>1, SameIs
  <2> QED
    BY <1>1, <1>4, <1>5, <2>1 DEF Tracked, Says
<1> QED
  BY <1>7, <1>8, <1>9, <1>10 DEF InspectInv

LEMMA ReplaceInv == ASSUME InspectInv, NEW n \in Nodes, NEW k \in Kinds, Replace(n, k) PROVE InspectInv'
<1>1. /\ Up[n] \in {"top"} \cup {d \in Nodes : kind[d] = "dir"}
      /\ kind' = [m \in Nodes |-> IF m = n THEN k ELSE IF n \in Above(m) THEN "absent" ELSE kind[m]]
      /\ replaced' = replaced \cup {n} /\ lost' = lost \cup {m \in Nodes : n \in Above(m)}
      /\ tracked' = tracked /\ link' = link /\ phase' = phase /\ stack' = stack /\ names' = names
      /\ child' = child /\ left' = left /\ results' = results
  BY DEF Replace
<1>2. \A m \in Nodes : Untouched(m)' <=> Untouched(m) /\ n \notin Above(m)
  BY <1>1 DEF Untouched
<1>3. TreeSound'
  <2>1. kind' \in [Nodes -> Kinds \cup {"blocked"}]
    BY <1>1 DEF InspectInv, TreeSound, Kinds
  <2>2. ASSUME NEW m \in Nodes, kind'[m] # "absent" PROVE Up[m] = "top" \/ kind'[Up[m]] = "dir"
    <3>1. CASE m = n
      <4> SUFFICES ASSUME Up[n] # "top" PROVE kind'[Up[n]] = "dir"
        BY <3>1
      <4>1. Up[n] \in Nodes /\ kind[Up[n]] = "dir" /\ n \notin Above(Up[n])
        BY <1>1, UpIs
      <4>2. Up[n] # n
        BY <4>1, AboveIs
      <4> QED
        BY <1>1, <4>1, <4>2
    <3>2. CASE m # n
      <4> SUFFICES ASSUME Up[m] # "top" PROVE kind'[Up[m]] = "dir"
        OBVIOUS
      <4>1. n \notin Above(m) /\ kind'[m] = kind[m]
        BY <1>1, <2>2, <3>2
      <4>2. Up[m] \in Nodes /\ kind[Up[m]] = "dir"
        BY <2>2, <4>1, InspectionAssumption DEF InspectInv, TreeSound
      <4>3. Up[m] # n /\ n \notin Above(Up[m])
        BY <4>1, <4>2, UpIs
      <4> QED
        BY <1>1, <4>2, <4>3
    <3> QED
      BY <3>1, <3>2
  <2>3. ASSUME NEW m \in lost' PROVE ~Untouched(m)'
    <3>1. CASE m \in Nodes /\ n \in Above(m)
      BY <1>2, <3>1
    <3>2. CASE m \in lost
      <4>1. ~Untouched(m)
        BY <3>2 DEF InspectInv, TreeSound
      <4> QED
        BY <1>1, <4>1 DEF Untouched
    <3> QED
      BY <1>1, <2>3, <3>1, <3>2
  <2> QED
    BY <2>1, <2>2, <2>3 DEF TreeSound
<1>4. /\ Walking' = Walking /\ Held' = Held /\ Awaited' = Awaited /\ Represented' = Represented
      /\ Current' = Current
  BY <1>1 DEF Walking, Held, Awaited, Represented, Current
<1>5. InspectTyped'
  BY <1>1, <1>4 DEF InspectInv, InspectTyped
<1>6. Place' /\ Around'
  BY <1>1, <1>4 DEF InspectInv, Place, Around
<1>7. There \subseteq There'
  BY <1>1 DEF There
<1>8. \A j : Below(j)' \subseteq Below(j)
  <2>1. ASSUME NEW j, NEW m \in Below(j)' PROVE m \in Below(j)
    <3>1. m \in Nodes /\ Retained[j] \in Above(m) /\ Up[m] \in Nodes /\ kind'[m] # "absent" /\ Untouched(m)'
      BY <2>1 DEF Below
    <3>2. Untouched(m) /\ n \notin Above(m)
      BY <1>2, <3>1
    <3>3. m # n
      BY <3>1, <3>2, AboveIs
    <3> QED
      BY <1>1, <3>1, <3>2, <3>3 DEF Below
  <2> QED
    BY <2>1
<1>9. Tracked'
  <2>1. ASSUME NEW j \in DOMAIN results
        PROVE  /\ MissingIs(results[j], j, Represented, There')
               /\ IF Walking /\ j = link THEN Underway(results[j], Below(j)', Represented, Awaited)
                                          ELSE Ended(results[j], Below(j)', Represented)
    <3>1. /\ MissingIs(results[j], j, Represented, There)
          /\ IF Walking /\ j = link THEN Underway(results[j], Below(j), Represented, Awaited)
                                     ELSE Ended(results[j], Below(j), Represented)
      BY DEF InspectInv, Tracked
    <3>2. Below(j)' \subseteq Below(j)
      BY <1>8
    <3> QED
      BY <1>7, <3>1, <3>2 DEF MissingIs, Underway, Ended
  <2> QED
    BY <1>1, <1>4, <2>1 DEF Tracked
<1> QED
  BY <1>3, <1>5, <1>6, <1>9 DEF InspectInv

LEMMA InspectInitInv == InspectInit => InspectInv
<1> SUFFICES ASSUME InspectInit PROVE InspectInv
  OBVIOUS
<1>1. /\ kind \in WorkingTrees /\ lost = {} /\ link = 1 /\ phase = "stat" /\ stack = <<>> /\ names = {}
      /\ child = "none" /\ left = TotalLimit /\ results = <<>> /\ ~Walking
  BY DEF InspectInit, Walking
<1>2. InspectTyped
  <2>1. results \in Seq(Inspections) /\ Len(results) = 0 /\ stack \in Seq(Nodes)
    BY <1>1
  <2>2. left \in 0..TotalLimit /\ link \in 1..Len(Retained) + 1 /\ link - 1 = 0
    BY <1>1, RetainedIs, InspectionAssumption
  <2> QED
    BY <1>1, <2>1, <2>2 DEF InspectTyped
<1>3. TreeSound
  BY <1>1 DEF WorkingTrees, TreeSound
<1>4. Place /\ Around /\ Tracked
  BY <1>1 DEF Place, Around, Tracked
<1> QED
  BY <1>2, <1>3, <1>4 DEF InspectInv

LEMMA InspectStepInv == ASSUME InspectInv, [InspectNext]_inspectVars PROVE InspectInv'
<1>1. CASE UNCHANGED inspectVars
  <2>1. /\ kind' = kind /\ replaced' = replaced /\ lost' = lost /\ tracked' = tracked /\ link' = link
        /\ phase' = phase /\ stack' = stack /\ names' = names /\ child' = child /\ left' = left
        /\ results' = results
    BY <1>1 DEF inspectVars
  <2>2. InspectTyped' /\ Place'
    BY <2>1 DEF InspectInv, InspectTyped, Place, Walking
  <2>3. TreeSound'
    BY <2>1, SameTree DEF InspectInv, Same
  <2>4. Around'
    BY <2>1 DEF InspectInv, Around, Walking, Held, Current, Represented
  <2>5. Tracked'
    <3>1. /\ Represented' = Represented /\ There' = There /\ Awaited' = Awaited /\ Walking' = Walking
          /\ \A j : Below(j)' = Below(j)
      BY <2>1, SameIs DEF Same, Awaited, Held, Walking
    <3> QED
      BY <2>1, <3>1 DEF InspectInv, Tracked
  <2> QED
    BY <2>2, <2>3, <2>4, <2>5 DEF InspectInv
<1> QED
  BY <1>1, StatTargetInv, OpenInv, ListInv, ExhaustedInv, ClassifyInv, EntryInv, ReplaceInv
  DEF InspectNext

-----------------------------------------------------------------------------
(* What the invariant says of an inspection *)

LEMMA InspectTypes == ASSUME InspectInv PROVE InspectTypeOK
<1>1. link \in 1..Len(Proposed) + 1 /\ Len(results) <= Len(Retained)
  <2>1. /\ link \in 1..Len(Retained) + 1 /\ Len(results) = IF Walking THEN link ELSE link - 1
        /\ Walking => link <= Len(Retained)
    BY DEF InspectInv, InspectTyped
  <2>2. Len(Proposed) \in Nat
    BY InspectionAssumption
  <2>3. CASE Walking
    BY <2>1, <2>2, <2>3, RetainedIs
  <2>4. CASE ~Walking
    BY <2>1, <2>2, <2>4, RetainedIs
  <2> QED
    BY <2>3, <2>4
<1> QED
  BY <1>1 DEF InspectInv, InspectTyped, InspectTypeOK

\* At the end there is one result for each link.
LEMMA AtTheEnd ==
  ASSUME InspectInv, phase = "done"
  PROVE  /\ DOMAIN results = 1..Len(Retained)
         /\ \A j \in DOMAIN results : MissingIs(results[j], j, Represented, There)
                                       /\ Ended(results[j], Below(j), Represented)
<1>1. ~Walking /\ link = Len(Retained) + 1 /\ Len(results) = link - 1 /\ results \in Seq(Inspections)
  BY DEF InspectInv, InspectTyped, Walking
<1>2. Len(results) = Len(Retained)
  BY <1>1, RetainedIs
<1>3. DOMAIN results = 1..Len(Retained)
  BY <1>1, <1>2
<1> QED
  BY <1>1, <1>3 DEF InspectInv, Tracked

LEMMA AtRiskIs ==
  ASSUME NEW n \in Nodes
  PROVE  AtRisk(n) <=> kind[n] # "absent" /\ Up[n] # "top" /\ n \notin Represented
<1>1. n \in Represented <=> \E m \in tracked : m \in Nodes /\ n \in Above(m)
  BY DEF Represented, Above
<1> QED
  BY <1>1 DEF AtRisk

LEMMA NothingLost == ASSUME InspectInv PROVE NothingIsOverwritten
<1> SUFFICES ASSUME phase = "done", Collisions = {}, Incomplete = {}, NEW i \in DOMAIN Proposed,
                    NEW n \in Nodes, Proposed[i] \in Above(n), AtRisk(n), Untouched(n)
             PROVE  FALSE
  BY DEF NothingIsOverwritten
<1>1. Len(Proposed) <= TransitionLimit
  <2>1. Len(Proposed) \in Nat /\ TransitionLimit \in Nat
    BY InspectionAssumption
  <2>2. ~(Len(Proposed) > TransitionLimit)
    BY DEF Incomplete
  <2> QED
    BY <2>1, <2>2
<1>2. Retained = Proposed /\ i \in DOMAIN results
  BY <1>1, AtTheEnd, RetainedIs, InspectionAssumption
<1>3. kind[n] # "absent" /\ Up[n] \in Nodes /\ n \notin Represented
  BY AtRiskIs, InspectionAssumption
<1>4. n \in Below(i)
  BY <1>2, <1>3 DEF Below
<1>5. results[i].exhausted
  BY <1>2 DEF Incomplete
<1>6. results[i].object = "dir" /\ n \in results[i].missing /\ results[i].nonempty
  BY <1>2, <1>3, <1>4, <1>5, AtTheEnd DEF Ended
<1> QED
  BY <1>2, <1>6 DEF Collisions

LEMMA OnlyRealCollisions == ASSUME InspectInv PROVE CollisionsAreReal
<1> SUFFICES ASSUME phase = "done", replaced = {}, NEW i \in Collisions
             PROVE  \E n \in Nodes : Retained[i] \in Above(n) /\ AtRisk(n) /\ kind[Up[n]] = "dir"
  BY DEF CollisionsAreReal
<1>1. i \in DOMAIN results /\ results[i].missing # {}
  BY DEF Collisions
<1>2. PICK n \in results[i].missing : TRUE
  BY <1>1
<1>3. Retained[i] \in Above(n) /\ Up[n] \in Nodes /\ n \notin Represented /\ n \in There
  BY <1>1, AtTheEnd DEF MissingIs
<1>4. n \in Nodes /\ kind[n] # "absent" /\ Up[n] # "top"
  BY <1>3, InspectionAssumption DEF There
<1>5. AtRisk(n) /\ kind[Up[n]] = "dir"
  BY <1>3, <1>4, AtRiskIs DEF InspectInv, TreeSound
<1> QED
  BY <1>3, <1>4, <1>5

\* The inspection of directories that are to become links names every file at
\* risk that was there all the time, or says that it could not look, and names
\* none that is not (worktree_collision.py), for any tree, limits, tracked paths
\* and replacements by other programs.
THEOREM InspectionStaysTrue == InspectSpec => []InspectionIsTrue
<1>1. InspectInit => InspectInv
  BY InspectInitInv
<1>2. InspectInv /\ [InspectNext]_inspectVars => InspectInv'
  BY InspectStepInv
<1>3. InspectInv => InspectionIsTrue
  BY InspectTypes, NothingLost, OnlyRealCollisions DEF InspectionIsTrue
<1> QED
  BY <1>1, <1>2, <1>3, PTL DEF InspectSpec
=============================================================================
