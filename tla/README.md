# Formal models of SourcePack

SourcePack judges proposed changes to a repository against a trusted baseline
of that repository, under a policy, and reports PASS, WARN or FAIL. This
directory holds TLA+ specifications of the parts of SourcePack that keep state
and are shared between processes or threads, and of the algorithms that decide a
verdict, with TLC configurations that check them on small instances, and proofs,
checked by TLAPS, that every safety property the runs check holds for every
instance. Every definition is written from the source under
`src/src/sourcepack/`; `PROJECT.json` gives the lines each one stands for.

    tlc -workers 2 -config MCBaselineSafety.cfg MCBaselineLifecycle
    tlc -workers 2 -config MCFiles.cfg MCFiles
    tlapm BaselineProofs.tla

## 1. Inventory

Everything below runs on one machine, except the hosted control plane and its
client. There is no daemon: every command line is a process of its own, and what
commands share is files under `.sourcepack/` in the repository, one ledger under
the user's home directory, and the git work tree.

| Part | Code | State | Operations | What is hard, and what makes it correct |
|---|---|---|---|---|
| Baseline lifecycle | `baseline.py`, parts of `cli.py`, `judgment.py` | `baseline/active.json`, `baseline/builds/<id>`, `state/baseline.lock`, `state/baseline_stale.json` | `baseline`, `baseline refresh`, `init --auto`, the post-commit hook, `validate_baseline`, the implicit build of `diff` | Builders, readers and the developer interleave; builds fail or die half-way. The pointer always names a finished build, builders exclude each other, readers (who take no lock) keep what they resolved, only committed content is trusted, an outdated baseline is marked. |
| Local permissions | `local_allow_trust.py`, parts of `cli.py`, `judgment.py` | `trust/active_allows.jsonl` of the user, `.sourcepack/policy/allow.jsonl` of each repository | `allow`, `disallow`, `policy remove`, the two reads of a judgment | Two files, two writes, an undo by hand, no lock, one ledger for all repositories. Only recorded permissions count, a removal lasts, the files agree, a failed command changes nothing. |
| Workbench review | `workbench.py` | a review lock, an executor with one worker, `reports/latest.json` | `POST /api/workbench/v1/review`, closing the server | Handler threads, worker thread, callbacks and the closing main thread; timeouts after which the review goes on. One review at a time, the lock comes back whatever happens, an answer carries its own report. |
| Hosted control plane | `hosted.py` | SQLite tables: memberships, repositories, services, tokens, assignments, user credentials, idempotency, audit | creates with an idempotency key, role changes, removals, revocations, login, refresh, logout | Requests on connections of their own, retries after lost answers, checks on one connection and writes on the next. An owner remains, revoked services have no live token, one key has one answer, the audit tells the state. |
| Judgment | `judgment.py`, `analysis.py`, `ai_analysis.py`, `remediation.py`, `finding_identity.py` | none | diff, evidence and policy in; findings, dispositions and verdict out | Order of rules, downgrades, incomplete evidence, four stages that each rebuild the report, files that change between two reads. A pass is earned, and no finding vanishes. |
| Policy and overrides | `policy.py`, `policy_authority.py`, `overrides.py` | policy files, override ledger | resolution of organization, repository and pre-change policy; expiry | Which version of a policy has authority over a change that edits it. |
| Packets and scanner | `packet.py`, `paths.py` | packet directory | scan, clean, write, verify | Files change while they are scanned, limits, crash before the receipt. A verified packet holds what its receipt says. |
| Git access | `git.py`, `git_acquisition.py`, `repository_state.py` | none | bounded git calls, choice of the diff | Reader threads, a bounded queue, limit against timeout. The call ends and says truly whether its output is complete. |
| Diff parser, collisions | `diff_parser.py`, `worktree_collision.py` | none | parse, compare | Inside a hunk a line may look like a header; a hunk may end early; four header lines name one path; the directory behind a proposed link changes under the walk. What git writes is read as git meant it. |
| Repository evidence | `repository_evidence.py`, `dependencies.py`, `evidence.py`, `ecosystems/` | none | manifests, scripts and imports to evidence | Scope and precedence between manifests. |
| Reports | `reports/`, `commands/report.py` | `reports/latest.*`, archive | write, read | Several files for one report, one of them atomic; a bounded number of findings. A report says what it left out. |
| Execution ledger | `execution_ledger.py` | `execution.jsonl` | record a run, clear, find evidence for a claim | HEAD and work tree are read before and after the run; torn lines; a clear between open and append. Evidence is a run that happened and succeeded. |
| Decision ledger | `decision_ledger.py` | `decisions.jsonl` | append report and failure events, follow parents | Appends of several processes, crash between related events. An override reaches back to an error that was recorded. |
| Architecture contract | `architecture_contract.py` | contract file | build state, evaluate a change | Rules retire, replace each other and come back; a change may edit the contract it is judged by. No rule is forgotten from one baseline to the next. |
| Evidence bundles, replay | `evidence_bundle.py`, `replay.py` | bundle directory | create, verify, replay | The ledger grows and reports are overwritten while a bundle is made. What verifies is whole. |
| Fleet | `fleet.py` | none | discover, read, summarize | Six limits, files that change; a summary says what it did not see. |
| Cloud client | `cloud.py` | `cloud.json`, `credentials.json` | login, logout | Lost answers, files written in steps, two clients on one machine. A logout that says revoked leaves nothing valid. |
| Command center | `command_center*.py` | none | diagnostic sections and a bounded snapshot for the browser | Files read one by one, fields derived twice, reduction to a limit. Degraded inputs do not look healthy, and every state has a snapshot. |
| Command line, schemas, rendering, scripts | `cli.py`, `commands/`, `schemas.py`, `schema_contracts.py`, `reason_codes.py`, `workbench_static/`, `scripts/` | none | parsing, printing, lookups | No state of their own. |

How they interact. `diff` (in a terminal, or called by the Workbench) resolves
the active baseline, acquires the diff from git, reads policy and permissions
(readable file first, then the authority ledger), judges, and writes the report.
Where the local policy lets it, a missing baseline is built on the way, with the
same builder that `baseline`, `baseline refresh`, `init --auto` and the
post-commit hook run. The builder writes a packet and replaces the pointer. The
review appends to the decision ledger what it found, and asks the execution
ledger about the commands a change says were run. Bundles, fleet summaries and
the command center only read what the others wrote. The hosted plane shares
nothing with these but the reports clients send to it.

## 2. Modules

| Module | What it is |
|---|---|
| `BaselineLifecycle` | processes that build, refresh, hook, diff and review over the shared files; developer, crashes and faults |
| `AcceptedBaseline` | what the baseline store promises to a reader (abstract specification) |
| `BaselineInvariant`, `BaselineProofs`, `MCBaselineLifecycle` | the inductive invariant of `BaselineLifecycle`, in named parts; its theorems and the refinement of `AcceptedBaseline`; the TLC instance |
| `AllowLedger`, `AllowLedgerProofs`, `MCAllowLedger` | local permissions; their theorems; their processes, repositories and ledgers |
| `WorkbenchReview` | the browser's review operation |
| `GitBounded` | one bounded call of git with its threads |
| `HostedGovernance` | the control plane's organization |
| `CloudSessions` | a user's credentials on the server and on his machine |
| `PolicyResolution` | organization, repository and pre-change policy |
| `PatchJudgment` | the findings of a patch against a packet (EXTENDS `PolicyResolution`) |
| `ChangeReview`, `MCChangeReview` | one review from its request to its report (EXTENDS `PatchJudgment`); its requests, patches and packets |
| `DiffParser` | the parser of unified diffs, beside a grammar of what git writes |
| `ArchitectureContract` | contracts, changes and baselines that follow each other |
| `JsonLines` | a file of JSON lines with appends in one or two writes |
| `ExecutionLedger` | recorded commands and the claims they support |
| `DecisionLedger` | reports, failures and overrides as events |
| `EvidenceBundle` | bundles of a ledger, and their verification |
| `PacketFiles` | scan, cleaning, writing and verification of a packet |
| `ReportFiles` | a report of bounded length, rebuilt and written |
| `PolicyFile` | the reading of the policy file |
| `SymlinkInspection` | the walk of a directory that is to become a link |
| `Fleet`, `MCFleet` | summaries of reports and ledgers; their limits |
| `CommandCenter` | what the browser is shown of a repository |
| `ThreadProofs` | theorems of `WorkbenchReview` and `GitBounded` |
| `HostedProofs` | theorems of `HostedGovernance` and `CloudSessions` |
| `ReviewProofs` | theorems of `ChangeReview`, with `PatchJudgment` and `PolicyResolution` |
| `ChangeProofs` | theorems of `ArchitectureContract`, `DiffParser` and `SymlinkInspection` |
| `LedgerProofs` | theorems of `ExecutionLedger` and `DecisionLedger` |
| `FileProofs` | theorems of `EvidenceBundle`, `PolicyFile`, `CommandCenter`, `PacketFiles`, `ReportFiles` and `Fleet` |
| `MCThreads` | the TLC instance of `WorkbenchReview` and `GitBounded` |
| `MCPermissions` | the TLC instance of `AllowLedger` (by `MCAllowLedger`), `HostedGovernance` and `CloudSessions` |
| `MCReview` | the TLC instance of `ChangeReview`, `DiffParser`, `ArchitectureContract`, `ExecutionLedger`, `DecisionLedger` |
| `MCFiles` | the TLC instance of `Fleet`, `ReportFiles`, `PacketFiles`, `SymlinkInspection`, `PolicyFile`, `EvidenceBundle`, `CommandCenter` |

The four MC modules at the end explore components that share no state: each
behaviour moves one component, the variable `part` says which, and the others
wait in one initial state. The fairness of a component is asked for the behaviours
in which it moves. `MCPermissions`, `MCReview` and `MCFiles` EXTEND their components, so the
names of these are distinct (`DiffSpec`, `packetVars`), TLC evaluates every
assumption of the proofs, and a run checks the very formula a theorem states.

A component whose property is an invariant has its type invariant as the first
part of that property.

Definitions named `X_Something` beside a definition `X` are mutants: `X` with a
plausible bug. `PROJECT.json` says which property each of them breaks.

### BaselineLifecycle

A process slot runs one command at a time (`cmd`), and `pc` is where it is in
it. Each action is one read or write of shared state: the two looks at the work
tree (`EnsureClean`, `Recheck`), the creation of the lock file (`AcquireLock`),
the build directory (`MakeBuildDir`), the packet (`WritePacket`), its
verification (`VerifyPacket`), the metadata (`WriteMetadata`), the replacement
of the pointer (`ReplacePointer`), the removal of the stale marker
(`ClearStale`), and the two `finally` parts (`Cleanup`, `ReleaseLock`). Readers
go through `Resolve`, `CheckFreshness`, `MissingBaseline` and `Judge`.

A tree is the version of its source content and whether SourcePack's own
bootstrap changes (the `.gitignore` line and workspace files) are in it, because
the dirty check lets exactly those pass (`OnlyBootstrap`). A packet is the source
version it was scanned from; the bytes are left out. Faults are chosen with the
constant `Faults`: failing git, failing I/O, a lock file that is created and
cannot be written, a crash at any step, damage to a packet on disk, and a double
fault (`"unreadable"`: the build fails, and then the pointer cannot be read to
find out what to clean up).

`committed`, `origin`, `activated` and `lost` are history variables: what was
ever committed, how the tree behaved while a build was made (`"clean"`: not forced
and nothing moved between the scan and the second check), what was ever active,
and whether the staleness of a commit went unrecorded.

### AllowLedger

A permission is a record of a repository, a value and an id. An action is one
file read or one atomic replacement. `held` and `text` are the copies a command
works on between its reads and writes. `overlapped` remembers that two commands
were between read and write at once, `spoiled` that a file was edited by hand or
an undo was cut off; the properties say what holds without them, and the run
`allow_shared` shows what happens with the first. Three states of a readable file are
distinguished (well formed, malformed, with a line that is not JSON). Expiry, and
the limits on the number and length of records, are left out.

### WorkbenchReview

One handler thread per request (`handler`, `answer`), the review lock, a future
per request (`job`, `registered`), the executor's queue and worker (`queue`,
`worker`, `alive`) and the main thread that closes the server (`closer`). The
executor and its futures are Python's; they are modelled from how `workbench.py`
uses them and marked external in the map. A handler's wait may time out at any
moment. A review has three steps (judge, write, load), each of which may fail;
and may hang for good.

One behaviour is in the model without a property. A future wakes its waiter
before it runs its callbacks, so the answer to a finished review may reach the
browser before the lock is given back, and a review asked for at that instant
is told 409 once. `docs/workbench-review-flow.md` does not promise otherwise.

### GitBounded

One call of `_bounded_process`: the caller's loop (`main`, `open`, `state`), the
two reader threads (`reader`, `buffer`, `taken`), the queue between them, and git
with its pipes as the environment. Bytes are counted, not named: an event says
which part of which stream it is, so that a hole would show. git may write, hang,
end with or without an error, close its pipes early, or start a helper that
inherits them. The end of a process has two steps, as the pipes are closed before
the parent can see that it is gone. The call is one without input: the writer
thread that feeds `git check-ignore` is left out.

The helper matters. After the kill the loop waits for the end of both pipes and has
no deadline of its own, so a helper that keeps a pipe open keeps the call from
ending, its timeout notwithstanding. `CallEnds` excepts exactly that; no document
of the repository promises more.

### HostedGovernance

The rows of one organization. Creates and membership changes begin with
`BEGIN IMMEDIATE` and are one action each, check and write together. The other
changes check the permission on one connection and write on another: `Permit`,
then the write, with whatever commits in between. A create that is sent again is
`Replay`. `role` holds one membership per user because the table has one row per
user and organization (a removed one is taken up again). The users'
own credentials are in `CloudSessions`; password checks, the migration of the
schema and the reads are not modelled.

### CloudSessions

The server's table of credentials with its three operations, and the clients
`sourcepack cloud login` and `logout` on one machine. A refresh reads the row in
one transaction and writes in the next (`pending` is what it read). A login
writes `cloud.json` and then `credentials.json`, each truncated, written and made
private in a step of its own; a logout reads the file, asks the server to revoke,
and removes the file whatever it was told. Requests and answers are lost, and a
client may die between any two steps. Time does not pass, so nothing expires.
`SessionsEnd` leaves out the rows in `raced`: two refreshes of one credential, or
a refresh and a revocation, may both win (`hosted.py:113`).

### PolicyResolution, PatchJudgment, ChangeReview

`PolicyResolution` translates the resolution of the organization's pack and the
repository's file into one set of rules with the authority of each, and the guard
that judges a change of the policy by the policy before the change. A glob is the
set of paths it matches. `PatchJudgment` is what a patch is found to be against a
packet: imports that no manifest accounts for, commands that no manifest has,
secrets, links, lock files, renames. A line is what the judgment looks for in it,
and the two ecosystems are one. `ChangeReview` is `build_repo_change_report`:
its arguments, every early return, the reads of git, the policy, the ledger of
permissions and the baseline one after the other with somebody editing in
between, and the stages that each rebuild the report from the findings of the
stage before (rules of the policy, local permissions, ignored paths, architecture
and execution evidence).

`command_manifest_uncertain` and `dependency_manifest_uncertain` are one finding.
What the architecture and execution parts add is an input here, and judged in
modules of their own.

The organization's rules are the ones a change must not get past. The code lets it
past one of them: the limit on changed lines belongs to whoever set the value in
effect (`judgment.py:1411`), so that a repository with a lower limit owns the finding;
and as the finding has no path, a permission for the empty path, which `allow path ""`
records, takes it (`judgment.py:1799`). `LimitLifted` says just this case, one of the
ledgers holds such a permission, and `OrganizationRuleHolds` excepts nothing else.
The run `organization_limit_lifted` states the rule without the exception.

### DiffParser

`parse_unified_diff` one line at a time, on every sequence of line kinds. A
grammar of what git writes is followed beside it (`strict`), and `files` is what
the parser should have read by it; `MaxOdd` bounds the lines that git would not
write there. The grammar has modified and new files; deletions, renames,
copies and binary files are read by the same parser, and their lines are odd ones.
The quoting of paths is reduced to safe, escaping and null.

### ArchitectureContract

A file is what the parser finds in it: whether it parses and what it imports. The
tree is edited freely, a change is reviewed by the accepted contract, and a
baseline accepts the tree and carries the state of the rules on (`BuildState`). A
baseline that cannot be read loses that state (`Damage`), and the properties
except just that. A file that is gone and a file that is new may be called a rename or
not, as git decides by likeness. A change that touches the contract is reported as
such and reviewed no further, so that `SilentChangeAddsNoViolation` is about changes
of the files.

### ExecutionLedger, DecisionLedger, JsonLines

A recorder looks at the repository, runs the command, looks again, opens the
ledger and appends its line in one write or two; it may die anywhere, and the
ledger may be cleared between its opening and its writing. What a line says of HEAD
and of the work tree before and after is left out, as nothing that reads the ledger
asks for it. `DecisionLedger`
appends the event of a report, of its failures and of overrides one by one; an
override is eligible if it names a failure of just that finding that can still be
read. A broken line swallows the line after it; `torn` remembers that this may
have happened.

### EvidenceBundle

A bundle is collected from one reading of the decision ledger, while the ledger
and the report file go on changing, and is edited after it was made. A
verification is four steps with the world moving between them. The replay of the
report and the parent chain of report events are abstracted to whether they
succeed.

### PacketFiles

The scan, directory by directory and file by file, with its limits and the errors
that leave a file or a directory out of a scan that is complete all the same; the
cleaning of the output directory with its limit; the inventory, for which each file
is read again; the four files written one by one with the receipt last; and a
verification that reads them one by one and may go on to compare with the
repository. Contents are numbers and as long as they say; directories are one level
deep; files are edited at any time, and a writer may fail or die.

Three variables of history carry the properties. `there` and `touched` (in `scan`)
are the files that have been there since the scan began and those edited since they
were scanned; `found` (in `check`) is the packet directory at the moment the receipt
was read; `seen` is what each file has contained since then. `verify_packet` reads
`manifest.json` twice, once to compare its hash and once to compare the repository
with what it lists, and nothing ties the second reading to the receipt: a writer
that works on the directory meanwhile can have its manifest compared in the place of
the one that was hashed. `VerifiedIsTrue` says what a pass means in spite of that.
Of the inventory and the context only the packet they belong to matters later:
`verify_packet` compares their hashes and never reads them, so `out` does not repeat
what is in `scan`.

One writer works on a directory at a time. Baselines are built in a directory of
their own under the build lock; two runs of `sourcepack pack` with one `--out` hold
no lock, and are not modelled. `BaselineLifecycle` takes a packet as a whole: what
it assumes of a packet that verifies is what `PacketsAreTrue` says.

### ReportFiles

The construction of a report with a bounded number of findings, its rebuilding by
the later stages, which raises unless the findings come in the order of severity and
id (a warning whose id comes after the limit's own is "late"), and the writing of `latest.json` and of its siblings after it,
by reviews that overlap, fail or die.

### PolicyFile, SymlinkInspection

How two things are read that others may replace meanwhile. `PolicyFile` is the
look, the opening, the chunks and the second look at `.sourcepack/policy.json`,
with a directory descriptor where the system has one and by paths elsewhere;
`meant` collects what the policy really was during the call. By paths, a link in the
place of the directory leads the look to another directory, where there may be no
policy, and the call then says that there is none (`policy.py:449`):
`LookedThroughLink` in `PolicyReadIsTrue`. The model assumes that each
write moves the modification time, that inode numbers are not used again while
the call lasts, and that nothing is moved away and back. `SymlinkInspection` is the walk of
`worktree_collision.py` with its four limits: on the links inspected, on the
entries of one of them and of all, and on depth. `Above(n)` is a path with all
that contains it, the least set closed under `Up`.

### Fleet, CommandCenter

`Fleet` discovers, reads and summarizes reports or ledgers, under any of its six
limits, while they change. A call on a single file or link is left out.
`CommandCenter` is the six diagnostic sections and the snapshot: files are read
one by one and a read may return anything, the snapshot is built from what was
read, checked against itself, reduced when it is too long, and checked again
before it is given out. The JSON schema, tables, excerpts and cards are left out;
a snapshot derives nothing from the overrides it carries, and the overview's
word `available` is the sections' `success`.

## 3. Runs

| Run | Instance | Shows |
|---|---|---|
| `baseline_safety` | 2 processes, 2 builds, 2 source versions; I/O faults, failing lock write, crashes | the invariants and the refinement of `AcceptedBaseline` |
| `baseline_liveness` | the same with 1 source version, failing git and damaged packets, fair processes | every command ends, the lock is given back |
| `baseline_laundered` | no faults at all | a documented statement that does not hold (finding 1) |
| `allow_shared` | `MCAllowLedger`: 2 processes, one of them working in 2 repositories, 2 permissions for one value, a hand-made line; no faults | removals do not last when commands of two repositories overlap (finding 2) |
| `threads` | `MCThreads`: 2 review requests with all faults; and one call of git with 2 pipes, up to 4 units of output in all, limit 3, chunks of 2, a queue of 1 and pipes of 1, failing readers, a helper | the lock follows the review, answers carry their report, requests are answered; complete means whole, nothing is left behind, the call ends |
| `permissions` | `MCPermissions`: the ledgers of `allow_shared`, with I/O faults, crashes and edits; 2 users, 2 repositories, 1 service, 2 tokens, 9 creates, 1 thread; 2 clients, 1 refresher and 2 credentials; 1 client, 2 refreshers and 3 credentials | judgments go by what was recorded, the files agree, removals last, failures change nothing; an owner remains, a revoked service is silent, one key has one answer, the audit tells the state, sessions end where they are said to |
| `review` | `MCReview`: 8 requests, 8 patches, 3 packets, 3 packs, 3 policy files, 3 ledgers, 1 edit; diffs of up to 8 lines with hunks of at most 1 line a side and 1 line git would not write; contracts over 2 python files, 2 layers and 2 rules; 2 recorders with 2 runs; 2 writers with 3 events | a verdict is earned and nothing vanishes on the way to it; git's diffs are read; rules are not forgotten; evidence and overrides are real |
| `organization_limit_lifted` | `MCChangeReview`, the first of these | a limit of the organization is lifted by a lower one and a local permission (finding 6) |
| `manifest_unparsed` | the first of these | a manifest that cannot be parsed passes (finding 3) |
| `truncated_hunk` | the second of these | a diff cut off in a hunk is well formed (finding 4) |
| `files` | `MCFiles`: fleet limits one by one, 2 lines, 1 change; 2 reviews, 1 finding at most, 2 rebuilds; 3 sources in 2 directories, each limit and error, 1 edit, 2 packets; links with limits of 2, depth 1 and 1 replacement; a policy of up to 2 chunks and more, 2 files, 2 directories, 3 writes; 3 ledger events; 7 reports and 4 sets of hooks for the command center | summaries, reports, packets, inspections, policies, bundles and snapshots say nothing that is not so |
| `snapshot_refused` | the last of these | two kinds of report have no snapshot (finding 5) |

Why the bounds are enough for the interesting cases. Two processes give every
pairwise race: builder against builder, builder against reader, builder against
hook; races of three are covered by the proofs. Two build directories allow a
replaced baseline to be read while the next one is active. Two source versions
distinguish "what was scanned" from "what is committed". Two permissions with one
value and different ids are the smallest case of a duplicate; two repositories
are the smallest case of sharing. Two requests give a review and one that finds
it busy or queues behind a failed start. A limit of 3 with chunks of 2 and 4
units in all lets output end below, at and above the limit, in the middle of a
chunk and at its end, in one pipe or both, and a queue of 1 makes readers wait
for each other. Two owners are the smallest case in which both
removals would be wrong; nine creates contain a repeated key with the same body,
with another body, and from another actor. Three credentials are one that is
refreshed twice.

Eight lines are a file with both headers and a hunk, and the beginning of the
next file with its header, in every order that one odd line allows; a hunk of
one line a side is the smallest whose payload may look like a header. The eight
patches have a change of each kind that the rules and the judgment tell apart:
code with an import and a secret, the use of a command, a manifest that declares
what code needs, the policy itself, a rename out of a glob, an unsafe link with a
deletion, a binary file, and a change of a manifest alone that is over the limits of
the organization and of the repository. Every limit of a scan, a walk or a summary is set so
that runs stay below it, meet it, and pass it. Two chunks are the smallest policy of which parts can
be mixed. Three events are a report, its failure and its override.

Deadlock is not checked where the system may stop: when all build names are used
up and all processes are idle (`baseline_liveness`), and in the runs whose parts
come to an end: requests answered and the server closed, the call returned
(`threads`), the review done, the diff read, the runs and events used up
(`review`, `truncated_hunk`), the summary made, the report written, the
inspection over, the request answered (`files`, `snapshot_refused`).

### Fairness

`BaselineLifecycle`: `WF_vars(Step(p))` for each running process: the operating
system schedules it, and no step of a command waits for anything, as the lock is
tried once. Nothing is assumed of the developer, of crashes or of commands being
started. The liveness run leaves crashes out, because a crash leaves the lock
file behind until somebody removes it, as the documentation says.

`WorkbenchReview`: weak fairness of each handler, of the worker thread and of the
main thread while it drains the queue. None for `Review`: a review may hang for
ever, and `EveryRequestAnswered` holds even so, since the handler's wait has a
timeout. Handlers are daemon threads: a process that ends right after the server was
closed (`workbench.py:344-348`, `384-402`) ends them too, and the browser sees the
connection break. The fairness of handlers says that the process lives as long as
they need, and the property is about that.

`GitBounded`: weak fairness of the readers, of the caller, of its deadline (time
passes), and of the death of a killed process. None of git or its helper, which may
hang for ever.

No other module states fairness: a review, a scan or a walk is a loop over what is
there, and its end depends on nobody else.

## 4. Proofs

All theorems hold for any constants that satisfy the named assumptions, so for any
number of processes, builds, repositories, requests, users, rules, files and so on.
Every safety property of a passing run, invariant or action property, and the
refinement is stated by a theorem. The assumptions say what the constants are
(limits are numbers, contents and error names differ); each that says more is named
below, and TLC evaluates each on the runs of its component.

The proofs have one shape. The invariant is a conjunction of named parts; a lemma
for the initial states, one for each action (for a long action one for each part it
disturbs), and the theorem that combines them.

### `BaselineProofs`

`TypeCorrect` needs nothing. The others assume that `"unreadable"` is not among the
faults: in that double fault the builder removes the build that is active (the
finally part of `build_current_baseline` takes "cannot read the pointer" for "not
active"), and none of this holds. `OneBuilder` is not inductive: one has to know
what a process in each step owns. `IndInv` says so in parts: `BuilderInv` (how far
the build directory of a builder is, and that it was never active), `ActiveInv`
(builds that were ever active stay), `ReaderInv` (a reader holds a build that was
active), `OriginInv` (what a packet made in an undisturbed tree holds) and `MarkInv`
(who still has to report that a packet is behind: the marker, a hook on its way, or
`lost`). `Inductive` has one lemma per group of actions. From it follow
`ActiveAlwaysFinished`, `MutualExclusion`, `PacketsStayReadable`,
`TrustIsCommitted`, `StalenessAccounted`, the action property `OnlyBuilders`, and
`Refinement`: the pointer's replacement is `Accept`, and every other step is a
stutter.

### `AllowLedgerProofs`

`LedgerInv` relates each command's copies to the files: while nothing overlapped,
`held` is the authority ledger until it is written, and the readable file is behind
it by exactly the change under way. From it follow `OnlyRecorded` (which holds with
overlaps and edits too), `Agreement`, `FailureIsClean` and `RemovalLasts`.

### `ThreadProofs`

`WorkbenchReview`. `LockMatchesReview` needs `Order`: how far a handler is says
whether its future exists, a waiting handler whose future is not done has its
callback registered, and what is queued or cancelled is a future that exists.
`LockFollowsReview` then says that the lock belongs to the review under way in every
interleaving of handlers, worker and closing thread. `AnswersCarryTheirReport` needs
more: `OneAtATime`, that at most one future is between its start and its callbacks,
and `OwnReport`, that the report file holds the report of that review from its
writing to its loading, unless a diff in a terminal wrote since.

`GitBounded`. `CallInv` follows every chunk from the pipe to what is kept.
`CountInv`: what came into a pipe is in the pipe, in its reader's buffer, or taken.
`LaneInv`: the chunks of one stream lie in the queue in order, without a hole, up to
what its reader has taken, and begin where the kept part ends as long as all is
well. `EndInv`: a reader that ended has read everything or has reported an error,
and its end is the last that the queue holds of it; so `open` counts the readers
whose end the caller has yet to see. `CallerInv` ties the result to these. From it
follow `CompleteOutputIsWhole`, `BoundedOutputIsTooLong`, `ReturnLeavesNothing` and
the action property `OutputKeptInOrder`, for any limit, chunk, queue and pipe; TLC
checks one value of each.

### `HostedProofs`

`HostedGovernance`. Each of `OwnerForever`, `SilentForever`, `ToldOnce` and
`AuditForever` has its own short inductive argument over `TypeOK`; `ToldOnce` rests
on the answers being rows of the idempotency table. They assume what the prefixes of
generated ids give: ids of different kinds differ.

`CloudSessions`. `SessionsDoEnd` rests on `RootsOK` (every row descends from a login
that is older), `OneLivePerLogin` itself, `StepsOK` (what a client at each step
holds and what it was told), `AllSaid` (what the last logout said stays true) and
`FileOK` (while clients did not overlap or die, the file names the credential of the
last login that was not logged out). It assumes `SessionAssumption`.

### `ReviewProofs`

A review has an exit at nearly every step, and each leaves a report of its own, so
no verdict property is inductive by itself. What makes them so is `Fatal(f)`: an
error that no permission of any ledger is for and no policy may ignore. A stage may
rebuild the report, but a fatal finding stays in it, and the verdict stays FAIL.
`IInv` says of each place in the review that what went wrong so far has left one:
`TroubleFails` (what could not be acquired), `PolicyCounts` (a policy that did not
resolve, or whose file a change touches), `Guarded` (past the guard the resolution
records a change of the policy), and `Answered`: from the judgment on there is a
fatal finding, or nothing was to be judged and the review knows it, or
`JudgedWhole`: every finding of the judgment is in the report or on record.
`StagesInOrder` says what is still empty at each stage.

`PassesAreEarned` and `PolicyChangesFail` follow. `FindingsDoNotVanish` is the
action property, by the stages after the judgment. `OrganizationRules` needs one
more invariant, `OrganizationHeld`, and beneath it that what the organization's
rules alone find is also found, and fatal, under the effective rules, one lemma per
rule (`ProtectionHolds`, `TestsHold` and so on): the merge of the two sets of rules
takes the stricter value and keeps the authority of the organization. The limit on
changed lines is the one rule whose authority may pass to the repository. For it
`LimitHolds` says that the limit in effect is exceeded too, and `LimitHeld` that the
finding which says so is in the report or was taken, and taken by a permission for
the empty path (`LimitPermitted`), which needs the repository's limit to be the lower
one. So the theorem holds for every ledger of permissions, with the exception
`LimitLifted` and no other.

`ReviewAssumption` and `PolicyAssumption` say that requests, policies and patches
are values of their kinds, and that "unset" and "bad" are no values of a rule.

### `ChangeProofs`

`ArchitectureContract`. The invariant is that contents and state are well formed,
that the state follows the accepted contract (`StateFollowsContract`), that rules in
force are declared (`EnforcedAreDeclared`), and that the findings are those of the
tree as it is (`FindingsAreCurrent`). `RulesAreNeverForgotten` follows from how one
baseline's state is built from the last one's; `SilentReviewIsSafe` relates the
review, by the accepted contract, to the state that the next baseline computes by
the proposed one. The theorems assume `ArchitectureAssumption`.

`DiffParser`. `DiffInv` has two halves. `Sound`, for any lines at all: whatever
leaves the repository among the paths of the parser's state has made the diff
malformed. `Followed`, while no odd line came: the parser and the grammar are in
corresponding places, with the same counts left in a hunk, and what the parser has
closed, with what it has open, is `diffed`. `DiffsAreRead` follows for diffs of any
length. It assumes that a path cannot both be accepted and escape
(`normalize_diff_path` does the one or the other).

`SymlinkInspection`. That a walk which exhausted its tree has seen everything is a
statement about paths it never came to, so the invariant follows them: `Tracked`
says that every path below a link that was there all the time is counted as missing
from the tracked paths, is represented among them, or is below something the walk
still holds or has still to look at (`Awaited`); and that what is called missing was
there. `Around` keeps the walk below its link, `TreeSound` keeps files from
containing anything however often others replace them. That a path is not inside
itself is `InspectionAssumption`; what lies above a path is defined as a least
closed set, not by recursion, and its lemmas follow from that definition.

### `LedgerProofs`

`ExecutionLedger`. `FilesKnown` says which file a recorder has open, `HalfWritten`
and `LinesApart` what the pieces in the ledger can be, and `ReadIsRecorded` and
`RecordedIsRead` relate what a reader can parse to what `exec` said was recorded;
`Counted` bounds the runs by the ids given out. `EvidenceCannotBeMadeUp` follows,
for any number of recorders and runs.

`DecisionLedger`. `OverridesLeadBack` is about events that were read when another
was made. `ParentsFirst` says that an event's parent was made before it, in the same
batch or in the ledger; `Numbered` that an id names one event among those made;
`AppendedIsRead` that what can be read was appended, and the converse while no line
was broken.

### `FileProofs`

`EvidenceBundle`. A bundle is made of one reading of a ledger that goes on growing,
so that it is whole only as far as the ledger went when its verification began
(`known`). `Traced` says that an event hashed the report it is about unless that
report was overwritten, and no report's content comes back; hence `AsItWas`, that
once the verification has found the bundle's report in place, everything recorded of
it by then hashed that very report; hence `Compared`, that what was collected by
hash is all there was (`BundleIsWhole`).

`PolicyFile`. `FileSystem` says that directories and files are not used again, and
`FileRead` that as long as the opened file has its first modification time, the
chunks read are a prefix of one content, which was the repository's policy if the
directory held. `FileHeld` is the same for what the second look found unchanged.
`PolicyIsOnes` follows for files of any length in any number of chunks; that a policy
is absent is known from the look alone, and holds unless that went through a link.

`CommandCenter`. `CenterInv` lists what has been read at each step of each of the
seven requests. A snapshot that is too long is composed again with parts of the
report left out; `Alike` says which fields nothing is derived from, and that
derivation and check come out the same for artifacts that are alike. `ShownIsTrue`
assumes that at least one item is displayed and that "nothing" is not an answer.

`PacketFiles`. Of the writer: `SoFar` says which of the four files belong to the
packet being written, and that there is no receipt until the others are there;
`Scanned` that a file which has been there is scanned, ignored or to come;
`AsScanned` that a file nobody touched since its scan is as it was scanned and
listed. Of a verification: `Since` says that whatever differs from what was found
when the receipt was read is of a later packet or of none, so that an artifact which
matches the receipt now was there from the beginning (`CheckArtifactInv`);
`ComparedSoFar` that each file compared was in the repository since then.
`PacketIsTrue` follows, with any number of writers one after the other.

`ReportFiles`. `Honest` is kept by the constructor of reports, and so by every
rebuilding and in every file. That the siblings of `latest.json` agree with it needs
`OneByOne`: as long as no two reviews overlapped and none was cut off, one writes at
a time, and the files it has written so far hold its report. Counting by severity is
a statement about a permutation of the findings, for which the module has its lemmas
on `Sorted`. `ReportAssumption` asks that the files have different names.

`Fleet`. `Searched` says where each file that was there all the time is: among the
found, or in the subdirectory still to come, unless a limit was met; `Reached` which
of them have been read; `ReadTruly` that what was read is what is there unless
somebody changed it, and that a ledger whose events were cut off has its limit
recorded; `WithinEvents` that the budget of events is kept. Found files are read in
the order of their names, and that any set of them has such an order is proved by
its least counterexample. While this was proved two choices of limit, written with
CASE whose arms overlap, had to be rewritten: TLA+ takes any true arm where the code
takes the first.

### Only model-checked

The liveness properties (`CommandsEnd`, `LockGivenBack`, `EveryRequestAnswered`,
`GitCallEnds`): fairness and ENABLED are out of the prover's reach. The library's
induction theorems are too, as they take the property as a parameter that no prover
here can instantiate; where an induction on numbers is needed (`ReviewProofs`,
`FileProofs`) it is done by the least counterexample, with the lemma `Least`. The
findings are counterexamples and stay with TLC.

## 5. Findings

Each is quoted with its lines under "findings" in `PROJECT.json`.

1. `baseline_laundered`: an edit made after the first look at the work tree and
   reverted before the second is trusted without `--force`.
2. `allow_shared`: commands in two repositories rewrite one ledger without a
   lock, and a permission that was removed comes back.
3. `manifest_unparsed`: a command whose manifest cannot be parsed leaves no
   finding, and the change passes.
4. `truncated_hunk`: a hunk that ends before its counts is accepted.
5. `snapshot_refused`: for an incomplete report, and for one of an unsupported
   version, the command center's check of its own snapshot expects another
   wording of one activity than the builder writes, and there is no snapshot.
6. `organization_limit_lifted`: where the repository's limit on changed lines is lower
   than the organization's, a permission for the empty path lets a change pass that
   is over both.

Seen while modelling, and not runs of their own:

- Baseline. A builder removes the stale marker that a newer commit's hook has just
  written (`baseline.py:744`; in `BehindOnlyIfLost` this is `lost`).
  `baseline refresh --force` loses its flag (`cli.py:817`). A lock file whose
  owner could not be written stays (`baseline.py:463`). When the clean-up cannot
  read the pointer it removes the active build (`baseline.py:751`). Whether a
  baseline is missing is decided before the lock is taken (`judgment.py:1230`,
  `cli.py:481`).
- Permissions. `allow` for a value that is already allowed makes every later
  judgment refuse the ledger (`cli.py:674`, `judgment.py:1752`). `allow path` takes an
  empty path, and that permission is then for every finding of the repository's that
  has none (`judgment.py:1779-1808`; finding 6 is one case).
- Judgment. An inventory that cannot be read only warns (`judgment.py:925`; other
  than `docs/adversarial-hardening-plan.md:357`). The paths of a change are empty when
  git fails (`policy_authority.py:28`). The second file of a plain diff without
  `diff --git` is swallowed by the first (`diff_parser.py:162`).
- Architecture. A file that cannot be parsed is reported under another reason
  code than `docs/reason-codes.md:59` names (`architecture_contract.py:361`).
- Reports. A later stage that rebuilds a report which met the limit on findings raises
  `ValueError` (`reports/json.py:283`, from `judgment.py:1323`); a report of that
  length may also pass the limit of its replay snapshot (`reports/json.py:177`).
- Packets. A directory that cannot be listed counts as scanned; when it is the top
  one the packet is empty and its scan complete (`packet.py:249`). The inventory may
  list another content than was packed, and nothing compares the two
  (`packet.py:309`). `verify --against` passes when the manifest it compares is no
  longer the one whose hash it checked (`packet.py:611`).
- Policy. Without directory descriptors, a link in the place of `.sourcepack` that
  leads to a directory without a policy is read as no policy, where any other link is
  an error (`policy.py:449`).
- Ledgers. Half a line destroys the line that is appended next. An entry
  appended to a ledger that was cleared since it was opened is lost. The hash of an
  artifact is taken when its event is appended, not when the report was made.
- Bundles and summaries. A bundle is written although its own verification
  failed. A ledger that vanished counts as an empty one in a fleet summary.
- Hosted plane. The permission is checked on another connection than the write
  (`hosted.py:310`). Overlapping refreshes may each leave a valid credential
  (`hosted.py:113`). A login that fails while it saves leaves a valid credential in
  no file, and a logout after a login that died between write and `chmod` says it
  was local only.
- Command center. The reduction of a report drops its authority, so that an
  incomplete report would count as complete afterwards; the check refuses such
  reports before it matters (`command_center_endpoint.py:222`). The overview
  calls a report with an unknown verdict available, the snapshot unsupported.
  Two validations of the baseline in one snapshot may disagree, and the overrides
  section may say that a ledger is there with a count of 0 when it appears between
  its two looks.

## 6. What is not modelled, and why

- Repository evidence and dependencies (`repository_evidence.py`,
  `dependencies.py`, `evidence.py`, `ecosystems/`): the parsing of manifests,
  scripts and imports keeps no state. What the judgment asks of it is an input of
  `PatchJudgment`.
- Schemas, reason codes, rendering to HTML, markdown and SARIF, the wording and
  the advice of findings, the parsing of arguments, the browser code, and the
  scripts for continuous integration: tables and layout.
- `tools/`: measurements over other repositories, which the program does not use.
- `replay.py`: shows again what one saved report says and changes no state.
- Of modelled parts: the writer thread of a git call with input and the parsing
  of what git prints; the redaction and hashing of output; the quoting of paths and the
  syntax of globs; limits on the length of a permission and its expiry; the schema
  migration, uploads and paginated reads of the hosted plane, and its cached
  policy, which nothing trusts; time in `CloudSessions`; the
  validation of each policy field beyond valid, bad and reserved.

What would come next: the second ecosystem in `PatchJudgment`, with the precedence
between manifests of `repository_evidence.py`; a refinement that shows
`PacketFiles` to implement the packet of `BaselineLifecycle`, and two writers in one
directory; the input-writing
thread of `GitBounded`; and an abstract review, of which `ChangeReview` is shown
to be an implementation as `BaselineLifecycle` is of `AcceptedBaseline`.
