-------------------------- MODULE BaselineLifecycle --------------------------
(***************************************************************************)
(* The trusted baseline of one repository and the SourcePack commands that *)
(* build it and judge against it: build_current_baseline, its lock file,   *)
(* the active pointer, the stale marker, the commands `baseline`, `init`   *)
(* and `diff`, the post-commit hook, and the developer who edits and       *)
(* commits meanwhile.  Every command is an operating-system process that   *)
(* shares nothing with the others but the files under .sourcepack/ and the *)
(* git work tree; each action is one read or write of that shared state.   *)
(***************************************************************************)
EXTENDS Naturals, FiniteSets

CONSTANTS
    Procs,      \* process slots: commands that may run at the same time
    BuildIds,   \* names of build directories (a bound on build attempts)
    Sources,    \* versions of the repository's source content
    NoBuild,    \* "no build": active.json does not exist
    NoSource,   \* "nothing scanned yet"
    Faults      \* which faults the environment may inject

FaultKinds == {"git", "io", "lockwrite", "unreadable", "crash", "damage"}

ASSUME ConstantsAssumption ==
    /\ NoBuild \notin BuildIds
    /\ NoSource \notin Sources
    /\ Sources # {}
    /\ Faults \subseteq FaultKinds

VARIABLES
    head,       \* the tree of the commit HEAD names
    work,       \* the tree in the working directory
    lock,       \* does .sourcepack/state/baseline.lock exist?
    pointer,    \* active_build_id of baseline/active.json
    stage,      \* what exists of baseline/builds/<id>
    packet,     \* the source content recorded in that build's packet
    stale,      \* does .sourcepack/state/baseline_stale.json exist?
    pc,         \* where each process is in its command
    cmd,        \* the command it runs
    force,      \* its --force flag
    build,      \* build_dir of build_current_baseline
    base,       \* the build validate_baseline resolved for this process
    seen,       \* the baseline state it read there
    sawDiff,    \* was diff_text non-empty?
    result,     \* how the command ended
    committed,  \* history: every source content that was ever committed
    origin,     \* history: how the tree behaved while a build was made
    activated,  \* history: builds the pointer has named
    lost        \* history: a commit's staleness went unrecorded

git     == <<head, work, committed>>
store   == <<pointer, stage, packet>>
locals  == <<cmd, force, build, base, seen, sawDiff>>
history == <<origin, activated, lost>>
vars    == <<git, lock, store, stale, pc, locals, result, history>>

-----------------------------------------------------------------------------
\* A tree is its source content and whether SourcePack's own bootstrap
\* change (the .sourcepack/ line of .gitignore and the two workspace files)
\* is in it.
Tree == [src : Sources, ign : BOOLEAN]

Stages   == {"unused", "partial", "packet", "complete", "damaged", "removed"}
Commands == {"none", "baseline", "refresh", "hook", "diff", "review"}
States   == {"none", "missing", "corrupt", "stale", "present"}
Results  == {"none", "built", "kept", "failed", "locked", "marked",
             "PASS", "WARN", "FAIL"}
Origins  == {"none", "clean", "moved", "forced"}

\* The steps of build_current_baseline between taking the lock and letting
\* go of it; before and after them the process owns nothing.
Making  == {"scan", "verify", "metadata", "recheck", "replace", "unmark",
            "cleanup"}
Holding == Making \cup {"mkdir", "release"}
Reading == {"resolve", "freshness", "missing", "judge"}
Labels  == Holding \cup Reading
             \cup {"idle", "hook", "cli", "begin", "lock", "done"}

TypeOK ==
    /\ head \in Tree /\ work \in Tree
    /\ lock \in BOOLEAN /\ stale \in BOOLEAN /\ lost \in BOOLEAN
    /\ pointer \in BuildIds \cup {NoBuild}
    /\ stage \in [BuildIds -> Stages]
    /\ packet \in [BuildIds -> Sources \cup {NoSource}]
    /\ pc \in [Procs -> Labels]
    /\ cmd \in [Procs -> Commands]
    /\ force \in [Procs -> BOOLEAN]
    /\ build \in [Procs -> BuildIds \cup {NoBuild}]
    /\ base \in [Procs -> BuildIds \cup {NoBuild}]
    /\ seen \in [Procs -> States]
    /\ sawDiff \in [Procs -> BOOLEAN]
    /\ result \in [Procs -> Results]
    /\ committed \subseteq Sources
    /\ origin \in [BuildIds -> Origins]
    /\ activated \subseteq BuildIds \cup {NoBuild}

\* A clean checkout on which no SourcePack command has run yet; .gitignore may
\* already hold the .sourcepack/ line.
Init ==
    /\ head \in Tree /\ work = head /\ committed = {head.src}
    /\ lock = FALSE /\ stale = FALSE
    /\ pointer = NoBuild
    /\ stage = [b \in BuildIds |-> "unused"]
    /\ packet = [b \in BuildIds |-> NoSource]
    /\ pc = [p \in Procs |-> "idle"]
    /\ cmd = [p \in Procs |-> "none"]
    /\ force = [p \in Procs |-> FALSE]
    /\ build = [p \in Procs |-> NoBuild]
    /\ base = [p \in Procs |-> NoBuild]
    /\ seen = [p \in Procs |-> "none"]
    /\ sawDiff = [p \in Procs |-> FALSE]
    /\ result = [p \in Procs |-> "none"]
    /\ origin = [b \in BuildIds |-> "none"]
    /\ activated = {} /\ lost = FALSE

-----------------------------------------------------------------------------
(* Control of one process *)

Goto(p, label) == pc' = [pc EXCEPT ![p] = label]

Finish(p, r) ==
    /\ pc' = [pc EXCEPT ![p] = "done"]
    /\ result' = [result EXCEPT ![p] = r]

\* Bound: a command starts only while every running one can still get a
\* build directory of its own.
Room ==
    LET unused  == {b \in BuildIds : stage[b] = "unused"}
        running == {p \in Procs : pc[p] # "idle" /\ build[p] = NoBuild}
    IN  Cardinality(running) < Cardinality(unused)

\* A fresh command line: cmd and --force; every other local is unset.
Launch(p, label, c, f) ==
    /\ pc[p] = "idle" /\ Room
    /\ Goto(p, label)
    /\ cmd' = [cmd EXCEPT ![p] = c]
    /\ force' = [force EXCEPT ![p] = f]

\* The process is gone and its memory with it.
Forget(p) ==
    /\ pc' = [pc EXCEPT ![p] = "idle"]
    /\ cmd' = [cmd EXCEPT ![p] = "none"]
    /\ force' = [force EXCEPT ![p] = FALSE]
    /\ build' = [build EXCEPT ![p] = NoBuild]
    /\ base' = [base EXCEPT ![p] = NoBuild]
    /\ seen' = [seen EXCEPT ![p] = "none"]
    /\ sawDiff' = [sawDiff EXCEPT ![p] = FALSE]
    /\ result' = [result EXCEPT ![p] = "none"]

\* _git_worktree_dirty together with _only_sourcepack_bootstrap_changes: the
\* tree t may be trusted without --force.
OnlyBootstrap(t) == t.src = head.src /\ t.ign /\ ~head.ign
Acceptable(t) == t = head \/ OnlyBootstrap(t)
-----------------------------------------------------------------------------
(* build_current_baseline *)

\* ensure_gitignore_entry, then the first dirty-tree check.
EnsureClean(p) ==
    LET tree == [work EXCEPT !.ign = TRUE] IN
    /\ pc[p] = "begin"
    /\ work' = tree
    /\ \/ /\ Acceptable(tree) \/ force[p]
          /\ Goto(p, "lock")
          /\ UNCHANGED result
       \/ /\ ~(Acceptable(tree) \/ force[p]) \/ "git" \in Faults
          /\ Finish(p, "failed")
    /\ UNCHANGED <<head, committed, lock, store, stale, locals, history>>

\* Mutant: the lock file is opened without O_EXCL.
AcquireLock_NoExcl(p) ==
    /\ pc[p] = "lock"
    /\ lock' = TRUE
    /\ Goto(p, "mkdir")
    /\ UNCHANGED <<git, store, stale, locals, result, history>>

\* acquire_baseline_lock: O_CREAT|O_EXCL either creates the file or fails.
\* When writing the pid into the created file fails, the exception leaves
\* the file behind and the caller without the handle it would release.
AcquireLock(p) ==
    /\ pc[p] = "lock"
    /\ \/ /\ ~lock
          /\ lock' = TRUE
          /\ Goto(p, "mkdir")
          /\ UNCHANGED result
       \/ /\ lock
          /\ Finish(p, "locked")
          /\ UNCHANGED lock
       \/ /\ ~lock /\ "lockwrite" \in Faults
          /\ lock' = TRUE
          /\ Finish(p, "failed")
    /\ UNCHANGED <<git, store, stale, locals, history>>

\* Mutant: mkdir(exist_ok=True) under an id that may be taken.
MakeBuildDir_ExistOk(p) ==
    /\ pc[p] = "mkdir"
    /\ \E b \in BuildIds :
          /\ stage' = [stage EXCEPT ![b] = "partial"]
          /\ build' = [build EXCEPT ![p] = b]
    /\ Goto(p, "scan")
    /\ UNCHANGED <<git, lock, pointer, packet, stale, cmd, force, base, seen,
                   sawDiff, result, history>>

\* build_dir.mkdir(exist_ok=False) under a new _unique_build_id.
MakeBuildDir(p) ==
    /\ pc[p] = "mkdir"
    /\ \E b \in BuildIds :
          /\ stage[b] = "unused"
          /\ stage' = [stage EXCEPT ![b] = "partial"]
          /\ build' = [build EXCEPT ![p] = b]
    /\ Goto(p, "scan")
    /\ UNCHANGED <<git, lock, pointer, packet, stale, cmd, force, base, seen,
                   sawDiff, result, history>>

\* _write_baseline_packet: the scan of the working tree and the packet.
WritePacket(p) ==
    LET b == build[p] IN
    /\ pc[p] = "scan"
    /\ stage' = [stage EXCEPT ![b] = "packet"]
    /\ packet' = [packet EXCEPT ![b] = work.src]
    /\ origin' = [origin EXCEPT ![b] = IF force[p] THEN "forced" ELSE "clean"]
    /\ Goto(p, "verify")
    /\ UNCHANGED <<git, lock, pointer, stale, locals, result, activated, lost>>

\* Mutant: a packet that does not verify is tried again.
VerifyPacket_Retry(p) ==
    /\ pc[p] = "verify"
    /\ Goto(p, IF stage[build[p]] = "packet" THEN "metadata" ELSE "verify")
    /\ UNCHANGED <<git, lock, store, stale, locals, result, history>>

\* verify_packet over the written packet.
VerifyPacket(p) ==
    /\ pc[p] = "verify"
    /\ Goto(p, IF stage[build[p]] = "packet" THEN "metadata" ELSE "cleanup")
    /\ UNCHANGED <<git, lock, store, stale, locals, result, history>>

\* metadata.json is written and read back.
WriteMetadata(p) ==
    LET b == build[p] IN
    /\ pc[p] = "metadata"
    /\ stage' = [stage EXCEPT ![b] = IF @ = "packet" THEN "complete" ELSE @]
    /\ Goto(p, "recheck")
    /\ UNCHANGED <<git, lock, pointer, packet, stale, locals, result, history>>

\* Mutant: the tree is checked only once, before the scan.
Recheck_Skipped(p) ==
    /\ pc[p] = "recheck"
    /\ Goto(p, "replace")
    /\ UNCHANGED <<git, lock, store, stale, locals, result, history>>

\* The second dirty-tree check, just before activation.
Recheck(p) ==
    /\ pc[p] = "recheck"
    /\ \/ /\ Acceptable(work) \/ force[p]
          /\ Goto(p, "replace")
       \/ /\ ~(Acceptable(work) \/ force[p]) \/ "git" \in Faults
          /\ Goto(p, "cleanup")
    /\ UNCHANGED <<git, lock, store, stale, locals, result, history>>

\* Mutant: the build that is replaced is pruned at once.
ReplacePointer_Prune(p) ==
    /\ pc[p] = "replace"
    /\ pointer' = build[p]
    /\ activated' = activated \cup {build[p]}
    /\ stage' = [b \in BuildIds |-> IF b = pointer THEN "removed" ELSE stage[b]]
    /\ Goto(p, "unmark")
    /\ UNCHANGED <<git, lock, packet, stale, locals, result, origin, lost>>

\* _write_json_atomic(active.json): os.replace of a finished temporary file.
ReplacePointer(p) ==
    /\ pc[p] = "replace"
    /\ pointer' = build[p]
    /\ activated' = activated \cup {build[p]}
    /\ Goto(p, "unmark")
    /\ UNCHANGED <<git, lock, stage, packet, stale, locals, result, origin, lost>>

\* The stale marker is unlinked: the build counts as fresh from here on, even
\* if a commit wrote the marker while the build was being made.
ClearStale(p) ==
    /\ pc[p] = "unmark"
    /\ stale' = FALSE
    /\ lost' = (lost \/ (stale /\ packet[build[p]] # head.src))
    /\ result' = [result EXCEPT ![p] = "built"]
    /\ Goto(p, "release")
    /\ UNCHANGED <<git, lock, store, locals, origin, activated>>

\* Any exception between the lock and the end of the body.
Abort(p) ==
    /\ "io" \in Faults
    /\ pc[p] \in (Making \cup {"mkdir"}) \ {"cleanup"}
    /\ Goto(p, "cleanup")
    /\ UNCHANGED <<git, lock, store, stale, locals, result, history>>

\* Mutant: a failed build returns without passing the finally clause.
Cleanup_Return(p) ==
    LET b == build[p] IN
    /\ pc[p] = "cleanup"
    /\ stage' = [stage EXCEPT ![b] = IF pointer = b THEN @ ELSE "removed"]
    /\ Finish(p, "failed")
    /\ UNCHANGED <<git, lock, pointer, packet, stale, locals, history>>

\* The except clause: the build directory is removed unless active.json names
\* it; an active.json that cannot be read counts as naming nothing.
Cleanup(p) ==
    LET b == build[p] IN
    /\ pc[p] = "cleanup"
    /\ \/ /\ b # NoBuild /\ (pointer # b \/ "unreadable" \in Faults)
          /\ stage' = [stage EXCEPT ![b] = "removed"]
       \/ /\ b \in {NoBuild, pointer}
          /\ UNCHANGED stage
    /\ result' = [result EXCEPT ![p] = "failed"]
    /\ Goto(p, "release")
    /\ UNCHANGED <<git, lock, pointer, packet, stale, locals, history>>

\* release_baseline_lock in the finally clause.  A `diff` that built the
\* missing baseline validates it again; every other command ends here.
ReleaseLock(p) ==
    /\ pc[p] = "release"
    /\ lock' = FALSE
    /\ \/ /\ cmd[p] = "diff" /\ result[p] = "built"
          /\ Goto(p, "resolve")
       \/ /\ ~(cmd[p] = "diff" /\ result[p] = "built")
          /\ Goto(p, "done")
    /\ UNCHANGED <<git, store, stale, locals, result, history>>

-----------------------------------------------------------------------------
(* The commands *)

\* `sourcepack baseline [--force]`
Baseline(p, f) ==
    /\ Launch(p, "cli", "baseline", f)
    /\ UNCHANGED <<git, lock, store, stale, build, base, seen, sawDiff, result,
                   history>>

\* cli_baseline refuses a dirty tree, bootstrap changes included, before it
\* calls build_current_baseline; a refresh is a plain build from here on.
CliBaseline(p) ==
    /\ pc[p] = "cli"
    /\ cmd' = [cmd EXCEPT ![p] = IF @ = "refresh" THEN "baseline" ELSE @]
    /\ \/ /\ work = head \/ force[p]
          /\ Goto(p, "begin")
          /\ UNCHANGED result
       \/ /\ ~(work = head \/ force[p]) \/ "git" \in Faults
          /\ Finish(p, "failed")
    /\ UNCHANGED <<git, lock, store, stale, force, build, base, seen, sawDiff,
                   history>>

\* Mutant: a usable baseline is reported under a name no caller knows.
BaselineStateOf_Fresh(b) ==
    IF b = NoBuild THEN "missing"
    ELSE IF stage[b] # "complete" THEN "corrupt"
    ELSE IF stale THEN "stale" ELSE "fresh"

\* The state validate_baseline reports of the build that active.json names.
BaselineStateOf(b) ==
    IF b = NoBuild THEN "missing"
    ELSE IF stage[b] # "complete" THEN "corrupt"
    ELSE IF stale THEN "stale" ELSE "present"

\* `sourcepack baseline refresh [--force]` looks at the tree, ignoring a
\* failing git, and calls cli_baseline without handing its --force on.
Refresh(p, f) ==
    /\ pc[p] = "idle" /\ Room
    /\ cmd' = [cmd EXCEPT ![p] = IF f THEN "refresh" ELSE "baseline"]
    /\ \/ /\ work = head \/ f \/ "git" \in Faults
          /\ Goto(p, "cli")
          /\ UNCHANGED result
       \/ /\ work # head /\ ~f
          /\ Finish(p, "failed")
    /\ UNCHANGED <<git, lock, store, stale, force, build, base, seen, sawDiff,
                   history>>

\* `sourcepack init --auto [--force] [--refresh-baseline]`: without the last
\* flag it builds only where no baseline exists, a decision taken once, here;
\* a dirty tree is refused unless forced.  What it then builds is a baseline
\* like any other.
InitAuto(p, f, refresh) ==
    LET wanted == refresh \/ BaselineStateOf(pointer) = "missing"
        allowed == work = head \/ f IN
    /\ pc[p] = "idle" /\ Room
    /\ cmd' = [cmd EXCEPT ![p] = "baseline"]
    /\ force' = [force EXCEPT ![p] = f]
    /\ \/ /\ wanted /\ allowed
          /\ Goto(p, "begin")
          /\ work' = [work EXCEPT !.ign = TRUE]
          /\ UNCHANGED result
       \/ /\ ~wanted
          /\ Finish(p, "kept")
          /\ work' = [work EXCEPT !.ign = TRUE]
       \/ /\ wanted /\ (~allowed \/ "git" \in Faults)
          /\ Finish(p, "failed")
          /\ UNCHANGED work
    /\ UNCHANGED <<head, committed, lock, store, stale, build, base, seen,
                   sawDiff, history>>

\* Mutant: a hook that finds a dirty tree says so but leaves no marker.
PostCommit_NoMarker(p) ==
    /\ pc[p] = "hook"
    /\ \/ work = head /\ Goto(p, "cli") /\ UNCHANGED result
       \/ work # head /\ Finish(p, "marked")
    /\ UNCHANGED <<git, lock, store, stale, locals, history>>

\* The post-commit hook: a clean tree refreshes the baseline, any other
\* writes the stale marker.
PostCommit(p) ==
    /\ pc[p] = "hook"
    /\ \/ /\ work = head
          /\ Goto(p, "cli")
          /\ UNCHANGED <<stale, result>>
       \/ /\ work # head
          /\ stale' = TRUE
          /\ Finish(p, "marked")
    /\ UNCHANGED <<git, lock, store, locals, history>>

\* `sourcepack diff`, and "review" for `diff --ci` and the workbench, which
\* must not establish trust.  git diff comes first.
\* Staged changes do not show in the unstaged diff, so a dirty tree need not
\* give any text.
Diff(p, c) ==
    /\ Launch(p, "resolve", c, FALSE)
    /\ \E text \in BOOLEAN :
          /\ text => work # head
          /\ sawDiff' = [sawDiff EXCEPT ![p] = text]
    /\ UNCHANGED <<git, lock, store, stale, build, base, seen, result, history>>

\* resolve_active_baseline: active.json is read.
Resolve(p) ==
    /\ pc[p] = "resolve"
    /\ base' = [base EXCEPT ![p] = pointer]
    /\ Goto(p, "freshness")
    /\ UNCHANGED <<git, lock, store, stale, cmd, force, build, seen, sawDiff,
                   result, history>>

\* validate_baseline: the resolved build is verified and the marker read.  A
\* baseline found missing or corrupt after this process built it is not
\* looked at again.
CheckFreshness(p) ==
    LET state == BaselineStateOf(base[p]) IN
    /\ pc[p] = "freshness"
    /\ seen' = [seen EXCEPT ![p] = state]
    /\ \/ /\ state \in {"stale", "present"} \/ result[p] = "built"
          /\ Goto(p, "judge")
          /\ UNCHANGED result
       \/ /\ state = "missing" /\ result[p] # "built"
          /\ Goto(p, "missing")
          /\ UNCHANGED result
       \/ /\ state = "corrupt" /\ result[p] # "built"
          /\ Finish(p, "FAIL")
    /\ UNCHANGED <<git, lock, store, stale, cmd, force, build, base, sawDiff,
                   history>>

\* No baseline: only a local `diff` without any change may create one.
MissingBaseline(p) ==
    LET creates == /\ cmd[p] = "diff" /\ ~sawDiff[p]
                   /\ Acceptable(work) IN
    /\ pc[p] = "missing"
    /\ \/ creates /\ Goto(p, "begin") /\ UNCHANGED result
       \/ ~creates /\ Finish(p, "FAIL")
    /\ UNCHANGED <<git, lock, store, stale, locals, history>>

\* The verdict on the diff: a stale baseline never lets PASS through.
Judge(p) ==
    /\ pc[p] = "judge"
    /\ \E verdict \in {"PASS", "WARN", "FAIL"} :
          /\ seen[p] = "stale" => verdict # "PASS"
          /\ Finish(p, verdict)
    /\ UNCHANGED <<git, lock, store, stale, locals, history>>

\* The process ends.  A hook whose refresh did not build leaves no trace in
\* the repository: it only prints a line.
Exit(p) ==
    /\ pc[p] = "done"
    /\ lost' = (lost \/ (cmd[p] = "hook" /\ result[p] \in {"failed", "locked"}))
    /\ Forget(p)
    /\ UNCHANGED <<git, lock, store, stale, origin, activated>>

-----------------------------------------------------------------------------
(* The environment *)

\* A build whose process already scanned the tree sees it move.
Moved == [b \in BuildIds |->
            IF origin[b] = "clean" /\ \E p \in Procs :
                  pc[p] \in {"verify", "metadata", "recheck"} /\ build[p] = b
            THEN "moved" ELSE origin[b]]

\* The developer edits, reverts, or checks out files.
Edit ==
    /\ \E s \in Sources \ {work.src} : work' = [work EXCEPT !.src = s]
    /\ origin' = Moved
    /\ UNCHANGED <<head, committed, lock, store, stale, pc, locals, result,
                   activated, lost>>

\* git commit of everything, or of a part that leaves the tree dirty; git
\* runs the post-commit hook in a process of its own.
Commit(p) ==
    /\ work # head
    /\ \E t \in Tree \ {head} :
          /\ head' = t
          /\ committed' = committed \cup {t.src}
    /\ Launch(p, "hook", "hook", FALSE)
    /\ UNCHANGED <<work, lock, store, stale, build, base, seen, sawDiff,
                   result, history>>

\* A process dies: its files, the lock among them, stay as they are.
Crash(p) ==
    /\ "crash" \in Faults
    /\ pc[p] # "idle"
    /\ lost' = (lost \/ cmd[p] = "hook")
    /\ Forget(p)
    /\ UNCHANGED <<git, lock, store, stale, origin, activated>>

\* The documented repair of a stale lock: only when nothing is running.
BreakLock ==
    /\ lock
    /\ \A p \in Procs : pc[p] = "idle"
    /\ lock' = FALSE
    /\ UNCHANGED <<git, store, stale, pc, locals, result, history>>

\* Packet bytes change on disk: an edit, a bad merge, a power loss before
\* the packet files reached the disk (only active.json is fsynced).
Damage(b) ==
    /\ "damage" \in Faults
    /\ stage[b] \in {"packet", "complete"}
    /\ stage' = [stage EXCEPT ![b] = "damaged"]
    /\ UNCHANGED <<git, lock, pointer, packet, stale, pc, locals, result, history>>

-----------------------------------------------------------------------------
BuildStep(p) ==
    \/ EnsureClean(p) \/ AcquireLock(p) \/ MakeBuildDir(p) \/ WritePacket(p)
    \/ VerifyPacket(p) \/ WriteMetadata(p) \/ Recheck(p) \/ ReplacePointer(p)
    \/ ClearStale(p) \/ Abort(p) \/ Cleanup(p) \/ ReleaseLock(p)

JudgeStep(p) ==
    Resolve(p) \/ CheckFreshness(p) \/ MissingBaseline(p) \/ Judge(p)

\* What a running process does next, by itself.
Step(p) ==
    BuildStep(p) \/ JudgeStep(p) \/ CliBaseline(p) \/ PostCommit(p) \/ Exit(p)

Start(p) ==
    \/ \E f \in BOOLEAN : Baseline(p, f) \/ Refresh(p, f)
    \/ \E f, refresh \in BOOLEAN : InitAuto(p, f, refresh)
    \/ \E c \in {"diff", "review"} : Diff(p, c)

Next ==
    \/ \E p \in Procs : Step(p) \/ Start(p) \/ Commit(p) \/ Crash(p)
    \/ \E b \in BuildIds : Damage(b)
    \/ Edit
    \/ BreakLock

Spec == Init /\ [][Next]_vars

\* The operating system keeps running a process that can run; nobody is
\* obliged to start a command, to edit, or to repair a lock.
FairSpec == Spec /\ \A p \in Procs : WF_vars(Step(p))

-----------------------------------------------------------------------------
(* Properties *)

\* What active.json names is a finished build: at every instant, whatever
\* command failed or died half-way, the active build was verified, has its
\* metadata, and was not removed; at worst it was damaged afterwards
\* (baseline.py: pointer replaced last, cleanup spares the active build).
ActiveBuildFinished ==
    pointer # NoBuild => stage[pointer] \in {"complete", "damaged"}

\* Two processes are never inside build_current_baseline's locked part at
\* once, and none is there without the lock file (acquire_baseline_lock).
OneBuilder ==
    \A p, q \in Procs :
        pc[p] \in Holding => /\ lock
                             /\ pc[q] \in Holding => p = q

\* A judgment reads the packet it resolved without any lock; no builder ever
\* removes that packet under it (judgment.py reads packet_path long after
\* validate_baseline returned it).
JudgedPacketStays ==
    \A p \in Procs :
        /\ pc[p] \in {"freshness", "judge"}
        /\ base[p] # NoBuild
        => stage[base[p]] \in {"complete", "damaged"}

\* Content enters the trusted baseline without --force only if it was
\* committed, unless the tree moved between the scan and the second check:
\* the second check closes every other window (baseline.py:719-733).
TrustedContentWasCommitted ==
    pointer # NoBuild /\ origin[pointer] = "clean" => packet[pointer] \in committed

\* The refusal's own claim, without that exception: a baseline made without
\* --force holds committed content (DIRTY_BASELINE_REFUSAL, README.md:73).
UnforcedBaselineIsCommitted ==
    pointer # NoBuild /\ origin[pointer] # "forced" => packet[pointer] \in committed

\* Nothing runs, the tree is clean, and a baseline no one forced is active.
Settled ==
    /\ \A p \in Procs : pc[p] = "idle"
    /\ work = head
    /\ pointer # NoBuild /\ origin[pointer] = "clean"

Behind == stage[pointer] = "complete" /\ packet[pointer] # head.src

\* In a repository at rest a baseline that is behind HEAD says so, unless a
\* hook's refresh did not go through (refused, locked out, or killed) or a
\* builder erased a newer marker: the only ways staleness goes unseen.
BehindOnlyIfLost == Settled /\ Behind /\ ~lost => stale

\* Who may move the pointer: the process that holds the lock, never one that
\* serves CI or the workbench (docs/baseline-lifecycle.md:48), and always to
\* a build that was never active before.
OnlyBuildersActivate ==
    [][pointer' # pointer =>
         /\ pointer' \notin activated \cup {NoBuild}
         /\ lock
         /\ \E p \in Procs : /\ build[p] = pointer' /\ pc[p] \in Holding
                             /\ cmd[p] # "review"]_vars

\* Every command ends: nothing waits for the lock, for a reader, or for the
\* developer.
CommandsEnd == \A p \in Procs : pc[p] # "idle" ~> pc[p] = "idle"

\* A lock that was taken is given back, whichever way the build ends.
LockGivenBack == lock ~> ~lock

\* The store that readers see: the active build, and for every build that was
\* ever active the content it was accepted with, as long as it is on disk.
Accepted == [b \in BuildIds |->
                IF b \in activated /\ stage[b] \in {"complete", "damaged"}
                THEN packet[b] ELSE NoSource]

Store == INSTANCE AcceptedBaseline WITH active <- pointer, accepted <- Accepted

\* All of the above in one sentence: whatever interleaves, fails or dies, the
\* files on disk implement the abstract store.
ImplementsAcceptedBaseline == Store!Spec
=============================================================================
