--------------------------- MODULE BaselineProofs ---------------------------
(* Theorems about BaselineLifecycle, for any number of processes and builds. *)
EXTENDS BaselineInvariant, TLAPS

\* The initial states are type-correct.
LEMMA InitTyped == Init => TypeOK
<1> USE ConstantsAssumption
    DEF TypeOK, Tree, Stages, Commands, States, Results, Origins, Labels,
        Holding, Making, Reading
<1> SUFFICES ASSUME Init PROVE TypeOK
  OBVIOUS
<1>1. /\ head \in Tree /\ work \in Tree
      /\ lock \in BOOLEAN /\ stale \in BOOLEAN /\ lost \in BOOLEAN
      /\ pointer \in BuildIds \cup {NoBuild}
      /\ committed \subseteq Sources
      /\ activated \subseteq BuildIds \cup {NoBuild}
  BY DEF Init
<1>2. /\ stage \in [BuildIds -> Stages]
      /\ packet \in [BuildIds -> Sources \cup {NoSource}]
      /\ origin \in [BuildIds -> Origins]
  BY DEF Init
<1>3. /\ pc \in [Procs -> Labels]
      /\ cmd \in [Procs -> Commands]
      /\ force \in [Procs -> BOOLEAN]
      /\ build \in [Procs -> BuildIds \cup {NoBuild}]
      /\ base \in [Procs -> BuildIds \cup {NoBuild}]
      /\ seen \in [Procs -> States]
      /\ sawDiff \in [Procs -> BOOLEAN]
      /\ result \in [Procs -> Results]
  BY DEF Init
<1> QED
  BY <1>1, <1>2, <1>3

\* Every action of every command, of the developer and of the environment
\* keeps the variables in their sets.
LEMMA NextTyped == TypeOK /\ [Next]_vars => TypeOK'
<1> USE ConstantsAssumption
    DEF TypeOK, Tree, Stages, Commands, States, Results, Origins, Labels,
        Holding, Making, Reading
<1> SUFFICES ASSUME TypeOK, [Next]_vars PROVE TypeOK'
  OBVIOUS
<1> USE DEF git, store, locals, history, Goto, Finish, Launch, Forget
<1>1. ASSUME NEW p \in Procs, BuildStep(p) PROVE TypeOK'
  <2>1. CASE EnsureClean(p)
    BY <2>1 DEF EnsureClean
  <2>2. CASE AcquireLock(p)
    <3>1. lock' \in BOOLEAN
      BY <2>2 DEF AcquireLock
    <3>2. pc' \in [Procs -> Labels] /\ result' \in [Procs -> Results]
      BY <2>2 DEF AcquireLock
    <3>3. UNCHANGED <<git, store, stale, locals, history>>
      BY <2>2 DEF AcquireLock
    <3> QED
      BY <3>1, <3>2, <3>3
  <2>3. CASE MakeBuildDir(p)
    <3>1. PICK b \in BuildIds :
             /\ stage' = [stage EXCEPT ![b] = "partial"]
             /\ build' = [build EXCEPT ![p] = b]
      BY <2>3 DEF MakeBuildDir
    <3>2. stage' \in [BuildIds -> Stages]
      BY <3>1
    <3>3. build' \in [Procs -> BuildIds \cup {NoBuild}]
      BY <3>1
    <3>4. pc' \in [Procs -> Labels]
      BY <2>3 DEF MakeBuildDir
    <3> QED
      BY <2>3, <3>2, <3>3, <3>4 DEF MakeBuildDir
  <2>4. CASE WritePacket(p)
    BY <2>4 DEF WritePacket
  <2>5. CASE VerifyPacket(p)
    BY <2>5 DEF VerifyPacket
  <2>6. CASE WriteMetadata(p)
    BY <2>6 DEF WriteMetadata
  <2>7. CASE Recheck(p)
    BY <2>7 DEF Recheck
  <2>8. CASE ReplacePointer(p)
    BY <2>8 DEF ReplacePointer
  <2>9. CASE ClearStale(p)
    BY <2>9 DEF ClearStale
  <2>10. CASE Abort(p)
    BY <2>10 DEF Abort
  <2>11. CASE Cleanup(p)
    BY <2>11 DEF Cleanup
  <2>12. CASE ReleaseLock(p)
    BY <2>12 DEF ReleaseLock
  <2> QED
    BY <1>1, <2>1, <2>2, <2>3, <2>4, <2>5, <2>6, <2>7, <2>8, <2>9, <2>10,
       <2>11, <2>12 DEF BuildStep
<1>2. ASSUME NEW p \in Procs, JudgeStep(p) PROVE TypeOK'
  BY <1>2 DEF JudgeStep, Resolve, CheckFreshness, MissingBaseline, Judge,
              BaselineStateOf
<1>3. ASSUME NEW p \in Procs, CliBaseline(p) \/ PostCommit(p) \/ Exit(p)
      PROVE TypeOK'
  <2>1. CASE CliBaseline(p)
    BY <2>1 DEF CliBaseline
  <2>2. CASE PostCommit(p)
    BY <2>2 DEF PostCommit
  <2>3. CASE Exit(p)
    BY <2>3 DEF Exit
  <2> QED
    BY <1>3, <2>1, <2>2, <2>3
<1>4. ASSUME NEW p \in Procs, Start(p) PROVE TypeOK'
  <2>1. ASSUME NEW f \in BOOLEAN, Baseline(p, f) PROVE TypeOK'
    BY <2>1 DEF Baseline
  <2>2. ASSUME NEW f \in BOOLEAN, NEW refresh \in BOOLEAN,
               InitAuto(p, f, refresh)
        PROVE  TypeOK'
    <3>1. work' \in Tree
      BY <2>2 DEF InitAuto
    <3>2. /\ cmd' \in [Procs -> Commands] /\ force' \in [Procs -> BOOLEAN]
          /\ UNCHANGED <<head, committed, lock, store, stale, build, base,
                         seen, sawDiff, history>>
      BY <2>2 DEF InitAuto
    <3>3. pc' \in [Procs -> Labels] /\ result' \in [Procs -> Results]
      BY <2>2 DEF InitAuto
    <3> QED
      BY <3>1, <3>2, <3>3
  <2>3. ASSUME NEW c \in {"diff", "review"}, Diff(p, c) PROVE TypeOK'
    BY <2>3 DEF Diff
  <2>4. ASSUME NEW f \in BOOLEAN, Refresh(p, f) PROVE TypeOK'
    BY <2>4 DEF Refresh
  <2> QED
    BY <1>4, <2>1, <2>2, <2>3, <2>4 DEF Start
<1>5. ASSUME NEW p \in Procs, Commit(p) \/ Crash(p) PROVE TypeOK'
  <2>1. CASE Commit(p)
    BY <2>1 DEF Commit
  <2>2. CASE Crash(p)
    BY <2>2 DEF Crash
  <2> QED
    BY <1>5, <2>1, <2>2
<1>6. ASSUME NEW b \in BuildIds, Damage(b) PROVE TypeOK'
  BY <1>6 DEF Damage
<1>7. CASE Edit
  BY <1>7 DEF Edit, Moved
<1>8. CASE BreakLock
  BY <1>8 DEF BreakLock
<1>9. CASE UNCHANGED vars
  BY <1>9 DEF vars
<1> QED
  BY <1>1, <1>2, <1>3, <1>4, <1>5, <1>6, <1>7, <1>8, <1>9 DEF Next, Step

\* Type correctness of BaselineLifecycle: the commands, the developer and the
\* environment keep every variable in its set.
THEOREM TypeCorrect == Spec => []TypeOK
<1> QED
  BY InitTyped, NextTyped, PTL DEF Spec

-----------------------------------------------------------------------------
\* The inductive invariant holds at the start.
LEMMA InitInd == Init => IndInv
<1> SUFFICES ASSUME Init PROVE IndInv
  OBVIOUS
<1>1. TypeOK
  BY InitTyped
<1>2. OneBuilder /\ BuilderInv /\ ReaderInv
  BY DEF Init, OneBuilder, BuilderInv, ReaderInv, Early, Making, Holding,
         Reading
<1>3. ActiveInv /\ OriginInv /\ MarkInv
  BY ConstantsAssumption DEF Init, ActiveInv, OriginInv, MarkInv, Tree
<1> QED
  BY <1>1, <1>2, <1>3 DEF IndInv

\* Every step of build_current_baseline keeps the invariant.  The double
\* fault in which the cleanup cannot read active.json is excluded: it would
\* remove the active build.
LEMMA BuildStepInd ==
  ASSUME "unreadable" \notin Faults, IndInv, TypeOK',
         NEW p \in Procs, BuildStep(p)
  PROVE  IndInv'
<1> USE ConstantsAssumption
    DEF IndInv, TypeOK, Tree, Stages, Results, Origins, Labels, Holding,
        Making, Reading, Early, Finished, OneBuilder, BuilderInv, ActiveInv,
        ReaderInv, OriginInv, MarkInv, Covered, Pending, git, store, locals,
        history, Goto, Finish
<1>1. CASE EnsureClean(p)
  BY <1>1 DEF EnsureClean
<1>2. CASE AcquireLock(p)
  \* Whoever gets the lock finds no other holder: they all hold it.
  <2>1. OneBuilder'
    BY <1>2 DEF AcquireLock
  <2>2. BuilderInv' /\ ActiveInv' /\ ReaderInv' /\ OriginInv'
    BY <1>2 DEF AcquireLock
  <2>3. MarkInv'
    BY <1>2 DEF AcquireLock
  <2> QED
    BY <2>1, <2>2, <2>3
<1>3. CASE MakeBuildDir(p)
  \* The new directory is unused, so it was never active and no reader has it.
  <2>1. PICK b \in BuildIds :
           /\ stage[b] = "unused"
           /\ stage' = [stage EXCEPT ![b] = "partial"]
           /\ build' = [build EXCEPT ![p] = b]
    BY <1>3 DEF MakeBuildDir
  <2>2. b \notin activated
    BY <2>1
  <2> QED
    BY <1>3, <2>1, <2>2 DEF MakeBuildDir
<1>4. CASE WritePacket(p)
  BY <1>4 DEF WritePacket
<1>5. CASE VerifyPacket(p)
  BY <1>5 DEF VerifyPacket
<1>6. CASE WriteMetadata(p)
  BY <1>6 DEF WriteMetadata
<1>7. CASE Recheck(p)
  \* Here clean content becomes committed content: the packet is what the
  \* tree holds (OriginInv), and the tree's source is that of HEAD.
  <2>1. ASSUME pc'[p] = "replace", origin[build[p]] = "clean"
        PROVE  packet[build[p]] = head.src /\ head.src \in committed
    BY <1>7, <2>1 DEF Recheck, Acceptable, OnlyBootstrap
  <2> QED
    BY <1>7, <2>1 DEF Recheck
<1>8. CASE ReplacePointer(p)
  \* The build is finished and was never active; no other process is inside.
  <2>1. /\ build[p] \in BuildIds \ activated
        /\ stage[build[p]] \in Finished /\ packet[build[p]] \in Sources
        /\ \A q \in Procs \ {p} : pc[q] \notin Holding
    BY <1>8 DEF ReplacePointer
  <2> QED
    BY <1>8, <2>1 DEF ReplacePointer
<1>9. CASE ClearStale(p)
  BY <1>9 DEF ClearStale
<1>10. CASE Abort(p)
  BY <1>10 DEF Abort
<1>11. CASE Cleanup(p)
  \* Only a build that was never active is removed.
  <2>1. build[p] \in activated => stage' = stage
    BY <1>11 DEF Cleanup
  <2> QED
    BY <1>11, <2>1 DEF Cleanup
<1>12. CASE ReleaseLock(p)
  BY <1>12 DEF ReleaseLock
<1> HIDE DEF IndInv
<1> QED
  BY <1>1, <1>2, <1>3, <1>4, <1>5, <1>6, <1>7, <1>8, <1>9, <1>10, <1>11,
     <1>12 DEF BuildStep

\* As long as the active build, its packet and HEAD stay what they are, every
\* pending hook stays pending or leaves its trace, and no process newly gets
\* to the replacement, a baseline that is behind stays accounted for.
LEMMA StillCovered ==
  ASSUME MarkInv,
         UNCHANGED <<pointer, packet, origin, head>>,
         stale \/ lost => stale' \/ lost',
         \A h \in Procs : Pending(h) => Pending(h)' \/ stale' \/ lost',
         \A q \in Procs : pc'[q] = "replace" =>
                            pc[q] = "replace" /\ build'[q] = build[q]
  PROVE  MarkInv'
<1>1. ASSUME NEW b, NEW others \in SUBSET Procs, Covered(b, others)
      PROVE  Covered(b, others)'
  BY <1>1 DEF Covered
<1> QED
  BY <1>1 DEF MarkInv

\* Every other step of a running command keeps the invariant, and so do its
\* start, the commit that starts a hook, and its death.
LEMMA ProcessInd ==
  ASSUME IndInv, TypeOK', NEW p \in Procs,
         \/ JudgeStep(p) \/ CliBaseline(p) \/ PostCommit(p) \/ Exit(p)
         \/ Start(p) \/ Commit(p) \/ Crash(p)
  PROVE  IndInv'
<1> DEFINE Parts == OneBuilder /\ BuilderInv /\ ActiveInv /\ ReaderInv /\ OriginInv
<1> USE DEF TypeOK, Tree, Stages, Results, Origins, Labels, Holding, Making,
        Reading, Early, Finished, OneBuilder, BuilderInv, ActiveInv,
        ReaderInv, OriginInv, git, store, locals, history, Goto, Finish,
        Launch, Forget
<1>1. CASE Resolve(p)
  BY <1>1, StillCovered DEF Pending, Resolve, IndInv
<1>2. CASE CheckFreshness(p)
  BY <1>2, StillCovered DEF Pending, CheckFreshness, BaselineStateOf, IndInv
<1>3. CASE MissingBaseline(p)
  BY <1>3, StillCovered DEF Pending, MissingBaseline, IndInv
<1>4. CASE Judge(p)
  BY <1>4, StillCovered DEF Pending, Judge, IndInv
<1>5. CASE CliBaseline(p)
  <2>1. Parts'
    BY <1>5 DEF CliBaseline, IndInv
  <2>2. MarkInv'
    BY <1>5, StillCovered DEF Pending, CliBaseline, IndInv
  <2> QED
    BY <2>1, <2>2 DEF IndInv
<1>6. CASE PostCommit(p)
  \* A hook either stays pending or marks the baseline stale.
  <2>1. Parts'
    BY <1>6 DEF PostCommit, IndInv
  <2>2. MarkInv'
    BY <1>6, StillCovered DEF Pending, PostCommit, IndInv
  <2> QED
    BY <2>1, <2>2 DEF IndInv
<1>7. CASE Exit(p)
  \* A hook that ends while pending is recorded as lost.
  <2>1. Parts'
    BY <1>7 DEF Exit, IndInv
  <2>2. /\ UNCHANGED <<pointer, packet, origin, head>>
        /\ stale \/ lost => stale' \/ lost'
    BY <1>7 DEF Exit, IndInv
  <2>3. \A h \in Procs : Pending(h) => Pending(h)' \/ stale' \/ lost'
    <3>1. Pending(p) => lost'
      BY <1>7 DEF Exit, IndInv, Pending
    <3>2. \A h \in Procs \ {p} : Pending(h) => Pending(h)'
      BY <1>7 DEF Exit, IndInv, Pending
    <3> QED
      BY <3>1, <3>2
  <2>4. \A q \in Procs : pc'[q] = "replace" =>
                         pc[q] = "replace" /\ build'[q] = build[q]
    BY <1>7 DEF Exit, IndInv
  <2>5. MarkInv'
    BY <2>2, <2>3, <2>4, StillCovered DEF IndInv
  <2> QED
    BY <2>1, <2>5 DEF IndInv
<1>8. ASSUME NEW f \in BOOLEAN, Baseline(p, f) PROVE IndInv'
  BY <1>8, StillCovered DEF Pending, Baseline, IndInv
<1>9. ASSUME NEW f \in BOOLEAN, NEW refresh \in BOOLEAN,
             InitAuto(p, f, refresh)
      PROVE  IndInv'
  <2>1. Parts'
    BY <1>9 DEF InitAuto, IndInv
  <2>2. MarkInv'
    BY <1>9, StillCovered DEF Pending, InitAuto, IndInv
  <2> QED
    BY <2>1, <2>2 DEF IndInv
<1>10. ASSUME NEW c \in {"diff", "review"}, Diff(p, c) PROVE IndInv'
  BY <1>10, StillCovered DEF Pending, Diff, IndInv
<1>11. CASE Commit(p)
  \* HEAD moves, and with it a hook becomes pending.
  <2>1. Parts'
    BY <1>11 DEF Commit, IndInv
  <2>2. Pending(p)' /\ \A q \in Procs : pc'[q] = "replace" => q # p
    BY <1>11 DEF Commit, IndInv, Pending
  <2>3. MarkInv'
    BY <2>2 DEF MarkInv, Covered
  <2> QED
    BY <2>1, <2>3 DEF IndInv
<1>12. CASE Crash(p)
  <2>1. Parts'
    BY <1>12 DEF Crash, IndInv
  <2>2. /\ UNCHANGED <<pointer, packet, origin, head>>
        /\ stale \/ lost => stale' \/ lost'
    BY <1>12 DEF Crash, IndInv
  <2>3. \A h \in Procs : Pending(h) => Pending(h)' \/ stale' \/ lost'
    <3>1. Pending(p) => lost'
      BY <1>12 DEF Crash, IndInv, Pending
    <3>2. \A h \in Procs \ {p} : Pending(h) => Pending(h)'
      BY <1>12 DEF Crash, IndInv, Pending
    <3> QED
      BY <3>1, <3>2
  <2>4. \A q \in Procs : pc'[q] = "replace" =>
                         pc[q] = "replace" /\ build'[q] = build[q]
    BY <1>12 DEF Crash, IndInv
  <2>5. MarkInv'
    BY <2>2, <2>3, <2>4, StillCovered DEF IndInv
  <2> QED
    BY <2>1, <2>5 DEF IndInv
<1>13. ASSUME NEW f \in BOOLEAN, Refresh(p, f) PROVE IndInv'
  BY <1>13, StillCovered DEF Pending, Refresh, IndInv
<1> QED
  BY <1>1, <1>2, <1>3, <1>4, <1>5, <1>6, <1>7, <1>8, <1>9, <1>10, <1>11,
     <1>12, <1>13 DEF JudgeStep, Start

\* What happens to the files from outside keeps the invariant: an edit, a
\* damaged packet, a lock removed while nothing runs.
LEMMA OutsideInd ==
  ASSUME IndInv, TypeOK',
         \/ \E b \in BuildIds : Damage(b)
         \/ Edit
         \/ BreakLock
         \/ UNCHANGED vars
  PROVE  IndInv'
<1> USE DEF IndInv, TypeOK, Tree, Stages, Results, Origins, Labels, Holding,
        Making, Reading, Early, Finished, OneBuilder, BuilderInv, ActiveInv,
        ReaderInv, OriginInv, MarkInv, Covered, Pending, git, store, locals,
        history
<1>1. ASSUME NEW b \in BuildIds, Damage(b) PROVE IndInv'
  BY <1>1 DEF Damage
<1>2. CASE Edit
  \* A packet whose tree moves is no longer "clean".
  BY <1>2 DEF Edit, Moved
<1>3. CASE BreakLock
  BY <1>3 DEF BreakLock
<1>4. CASE UNCHANGED vars
  BY <1>4 DEF vars
<1> QED
  BY <1>1, <1>2, <1>3, <1>4

\* The inductive invariant: every action keeps every part of IndInv.
THEOREM Inductive == ASSUME "unreadable" \notin Faults PROVE Spec => []IndInv
<1>1. IndInv /\ [Next]_vars => IndInv'
  <2> SUFFICES ASSUME IndInv, [Next]_vars PROVE IndInv'
    OBVIOUS
  <2>1. TypeOK'
    BY NextTyped DEF IndInv
  <2> QED
    BY <2>1, BuildStepInd, ProcessInd, OutsideInd DEF Next, Step
<1> QED
  BY InitInd, <1>1, PTL DEF Spec

-----------------------------------------------------------------------------
\* At every instant the build that active.json names is finished, whatever
\* command failed or died half-way.
THEOREM ActiveAlwaysFinished ==
  ASSUME "unreadable" \notin Faults PROVE Spec => []ActiveBuildFinished
<1>1. IndInv => ActiveBuildFinished
  BY DEF IndInv, ActiveInv, Finished, ActiveBuildFinished
<1> QED
  BY Inductive, <1>1, PTL

\* The lock file keeps two builders apart.
THEOREM MutualExclusion ==
  ASSUME "unreadable" \notin Faults PROVE Spec => []OneBuilder
<1>1. IndInv => OneBuilder
  BY DEF IndInv
<1> QED
  BY Inductive, <1>1, PTL

\* The packet a judgment resolved stays on disk until the judgment is over,
\* although the reader takes no lock.
THEOREM PacketsStayReadable ==
  ASSUME "unreadable" \notin Faults PROVE Spec => []JudgedPacketStays
<1>1. IndInv => JudgedPacketStays
  BY DEF IndInv, ActiveInv, ReaderInv, Finished, JudgedPacketStays
<1> QED
  BY Inductive, <1>1, PTL

\* Without --force only committed content becomes trusted, as long as the
\* tree does not move between the scan and the second check.
THEOREM TrustIsCommitted ==
  ASSUME "unreadable" \notin Faults PROVE Spec => []TrustedContentWasCommitted
<1>1. IndInv => TrustedContentWasCommitted
  BY DEF IndInv, ActiveInv, OriginInv, TrustedContentWasCommitted
<1> QED
  BY Inductive, <1>1, PTL

\* In a repository at rest a baseline that is behind HEAD is marked stale,
\* unless a hook was refused, locked out or killed, or a newer marker erased.
THEOREM StalenessAccounted ==
  ASSUME "unreadable" \notin Faults PROVE Spec => []BehindOnlyIfLost
<1>1. IndInv => BehindOnlyIfLost
  BY DEF IndInv, MarkInv, Covered, Pending, BehindOnlyIfLost, Settled, Behind
<1> QED
  BY Inductive, <1>1, PTL

\* Every step but the replacement leaves the pointer, the builds that were
\* ever active, and their packets alone.
LEMMA StoreKept ==
  ASSUME IndInv, [Next]_vars, \A p \in Procs : ~ReplacePointer(p)
  PROVE  /\ UNCHANGED <<pointer, activated>>
         /\ \A b \in activated : packet'[b] = packet[b]
<1> DEFINE Kept == /\ UNCHANGED <<pointer, activated>>
                   /\ \A b \in activated : packet'[b] = packet[b]
<1> USE DEF git, store, locals, history
<1>1. ASSUME NEW p \in Procs, BuildStep(p), ~WritePacket(p) PROVE Kept
  BY <1>1 DEF BuildStep, EnsureClean, AcquireLock, MakeBuildDir,
     VerifyPacket, WriteMetadata, Recheck, ClearStale, Abort, Cleanup,
     ReleaseLock
<1>2. ASSUME NEW p \in Procs, WritePacket(p) PROVE Kept
  <2>1. build[p] \notin activated
    BY <1>2 DEF WritePacket, IndInv, BuilderInv
  <2> QED
    BY <1>2, <2>1 DEF WritePacket, IndInv, TypeOK
<1>3. ASSUME NEW p \in Procs,
             \/ JudgeStep(p) \/ CliBaseline(p) \/ PostCommit(p) \/ Exit(p)
             \/ Start(p) \/ Commit(p) \/ Crash(p)
      PROVE  Kept
  BY <1>3 DEF JudgeStep, Resolve, CheckFreshness, MissingBaseline, Judge,
     CliBaseline, PostCommit, Exit, Start, Baseline, Refresh, InitAuto, Diff,
     Commit, Crash
<1>4. ASSUME \/ \E b \in BuildIds : Damage(b)
             \/ Edit
             \/ BreakLock
             \/ UNCHANGED vars
      PROVE  Kept
  BY <1>4 DEF Damage, Edit, BreakLock, vars
<1> QED
  BY <1>1, <1>2, <1>3, <1>4 DEF Next, Step

\* The pointer is moved only by the process that holds the lock, never by one
\* that serves CI or the workbench, and never back to an earlier build.
THEOREM OnlyBuilders ==
  ASSUME "unreadable" \notin Faults PROVE Spec => OnlyBuildersActivate
<1>1. ASSUME IndInv, [Next]_vars, pointer' # pointer
      PROVE  /\ pointer' \notin activated \cup {NoBuild}
             /\ lock
             /\ \E p \in Procs : /\ build[p] = pointer' /\ pc[p] \in Holding
                                 /\ cmd[p] # "review"
  <2>1. PICK p \in Procs : ReplacePointer(p)
    BY <1>1, StoreKept
  <2>2. pointer' = build[p] /\ pc[p] = "replace"
    BY <2>1 DEF ReplacePointer
  <2>3. build[p] \notin activated /\ build[p] # NoBuild
    BY <1>1, <2>2 DEF IndInv, BuilderInv, Making
  <2>4. lock /\ pc[p] \in Holding
    BY <1>1, <2>2 DEF IndInv, OneBuilder, Holding, Making
  <2>5. cmd[p] # "review"
    BY <1>1, <2>2 DEF IndInv, ReaderInv, Reading
  <2> QED
    BY <2>2, <2>3, <2>4, <2>5
<1>2. IndInv /\ [Next]_vars =>
        [pointer' # pointer =>
           /\ pointer' \notin activated \cup {NoBuild}
           /\ lock
           /\ \E p \in Procs : /\ build[p] = pointer' /\ pc[p] \in Holding
                               /\ cmd[p] # "review"]_vars
  BY <1>1
<1> QED
  BY Inductive, <1>2, PTL DEF Spec, OnlyBuildersActivate

\* The files on disk implement the abstract store: the replacement of
\* active.json is the acceptance, every other step of every process is
\* invisible to a reader of the store.
THEOREM Refinement ==
  ASSUME "unreadable" \notin Faults PROVE Spec => ImplementsAcceptedBaseline
<1>1. Init => Store!Init
  BY DEF Init, Store!Init, Accepted
<1>2. ASSUME IndInv, IndInv', [Next]_vars
      PROVE  [Store!Next]_(Store!vars)
  <2>1. ASSUME NEW p \in Procs, ReplacePointer(p) PROVE Store!Next
    <3> DEFINE b == build[p]
    <3>1. /\ b \in BuildIds /\ b \notin activated
          /\ stage[b] \in {"complete", "damaged"} /\ packet[b] \in Sources
      BY <1>2, <2>1 DEF ReplacePointer, IndInv, BuilderInv, TypeOK, Making,
         Finished
    <3>2. /\ pointer' = b /\ activated' = activated \cup {b}
          /\ stage' = stage /\ packet' = packet
      BY <2>1 DEF ReplacePointer
    <3>3. Accepted[b] = NoSource
      BY <3>1 DEF Accepted
    <3>4. Accepted' = [Accepted EXCEPT ![b] = packet[b]]
      BY <3>1, <3>2 DEF Accepted
    <3> QED
      BY <3>1, <3>2, <3>3, <3>4 DEF Store!Next, Store!Accept
  <2>2. CASE \A p \in Procs : ~ReplacePointer(p)
    <3>1. /\ UNCHANGED <<pointer, activated>>
          /\ \A b \in activated : packet'[b] = packet[b]
      BY <1>2, <2>2, StoreKept
    <3>2. \A b \in activated : /\ stage[b] \in {"complete", "damaged"}
                               /\ stage'[b] \in {"complete", "damaged"}
      BY <1>2, <3>1 DEF IndInv, ActiveInv, Finished
    <3>3. Accepted' = Accepted
      BY <3>1, <3>2 DEF Accepted
    <3> QED
      BY <3>1, <3>3 DEF Store!vars
  <2> QED
    BY <2>1, <2>2
<1> QED
  BY Inductive, <1>1, <1>2, PTL DEF Spec, Store!Spec, ImplementsAcceptedBaseline
=============================================================================
