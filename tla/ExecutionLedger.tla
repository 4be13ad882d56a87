-------------------------- MODULE ExecutionLedger ---------------------------
(***************************************************************************)
(* execution_ledger.py: `sourcepack exec` runs a command and appends what  *)
(* it saw to a ledger; a review asks the ledger about the commands that a  *)
(* change says were run.  Commands are recorded next to each other, the    *)
(* ledger may be cleared at any time, and a recorder may die.              *)
(***************************************************************************)
EXTENDS JsonLines, FiniteSets

CONSTANTS
    Recorders,      \* processes that run `sourcepack exec`
    ExecCommands,   \* the commands they run
    Answers,        \* _command_matches: the commands that answer to each claim
    MaxRuns         \* runs in all

ASSUME RecorderAssumption == /\ Answers \in [ExecCommands -> SUBSET ExecCommands]
                             /\ MaxRuns \in Nat

VARIABLES
    lines,      \* ledger.jsonl
    log,        \* which file that is: clearing removes it
    stage,      \* where each recorder is
    entry,      \* what it has observed
    opened,     \* the file it opened for appending
    runs,       \* how many commands were run
    recorded,   \* the runs that exec reported as recorded, with the file they went to
    torn        \* a line may have been broken: a recorder died in it or two met

execVars == <<lines, log, stage, entry, opened, runs, recorded, torn>>

Stages == {"idle", "looked", "ran", "open", "half", "dead"}
NoEntry == [id |-> 0]

ExecInit ==
    /\ lines = <<>> /\ log = 0 /\ runs = 0 /\ recorded = {} /\ torn = FALSE
    /\ stage = [r \in Recorders |-> "idle"] /\ entry = [r \in Recorders |-> NoEntry]
    /\ opened = [r \in Recorders |-> 0]

At(r, s, t) == stage[r] = s /\ stage' = [stage EXCEPT ![r] = t]

-----------------------------------------------------------------------------
(* run_and_record *)

Look(r, command) ==
    /\ At(r, "idle", "looked") /\ runs < MaxRuns /\ runs' = runs + 1
    /\ entry' = [entry EXCEPT ![r] = [id |-> runs + 1, command |-> command, exit |-> 0]]
    /\ UNCHANGED <<lines, log, opened, recorded, torn>>

\* A command that cannot be found or takes too long has an exit code too.
Run(r, exit) ==
    /\ At(r, "looked", "ran") /\ entry' = [entry EXCEPT ![r].exit = exit]
    /\ UNCHANGED <<lines, log, opened, runs, recorded, torn>>

Open(r) ==
    /\ At(r, "ran", "open") /\ opened' = [opened EXCEPT ![r] = log]
    /\ UNCHANGED <<lines, log, entry, runs, recorded, torn>>

\* What is written to a file that was cleared away is lost.
Write(r, piece) == lines' = IF opened[r] = log THEN Append(lines, piece) ELSE lines

Closed(r) == recorded' = recorded \cup {[entry |-> entry[r], file |-> opened[r]]}

AppendWhole(r) ==
    /\ At(r, "open", "idle") /\ Write(r, Whole(entry[r])) /\ Closed(r)
    /\ torn' = (torn \/ (opened[r] = log /\ ~LineBegins(lines, Len(lines))))
    /\ UNCHANGED <<log, entry, opened, runs>>

AppendBegin(r) ==
    /\ At(r, "open", "half") /\ Write(r, Begun(entry[r]))
    /\ torn' = (torn \/ (opened[r] = log /\ ~LineBegins(lines, Len(lines))))
    /\ UNCHANGED <<log, entry, opened, runs, recorded>>

AppendRest(r) ==
    /\ At(r, "half", "idle") /\ Write(r, Rest(entry[r])) /\ Closed(r)
    /\ torn' = (torn \/ (opened[r] = log /\ lines # <<>>
                         /\ lines[Len(lines)] # Begun(entry[r])))
    /\ UNCHANGED <<log, entry, opened, runs>>

Die(r) ==
    /\ stage[r] \notin {"idle", "dead"} /\ stage' = [stage EXCEPT ![r] = "dead"]
    /\ torn' = (torn \/ stage[r] = "half")
    /\ UNCHANGED <<lines, log, entry, opened, runs, recorded>>

\* clear_ledger
Clear ==
    /\ lines # <<>> /\ lines' = <<>> /\ log' = log + 1 /\ torn' = FALSE
    /\ UNCHANGED <<stage, entry, opened, runs, recorded>>

Quiet == (\A r \in Recorders : stage[r] \in {"idle", "dead"}) /\ runs = MaxRuns /\ UNCHANGED execVars

ExecNext ==
    \/ \E r \in Recorders :
         \/ \E c \in ExecCommands : Look(r, c)
         \/ \E exit \in {0, 1} : Run(r, exit)
         \/ Open(r) \/ AppendWhole(r) \/ AppendBegin(r) \/ AppendRest(r) \/ Die(r)
    \/ Clear \/ Quiet

ExecSpec == ExecInit /\ [][ExecNext]_execVars

-----------------------------------------------------------------------------
(* evidence_for_claim *)

Matching(claim) == {e \in Readable(lines) : e.command \in Answers[claim]}

\* Mutant: the latest run decides.
Evidence_Latest(claim) ==
    IF Matching(claim) = {} THEN "execution_evidence_missing"
    ELSE IF (CHOOSE e \in Matching(claim) : \A f \in Matching(claim) : f.id <= e.id).exit = 0
    THEN "execution_evidence_present" ELSE "execution_failed"

Evidence(claim) ==
    LET exits == {e.exit : e \in Matching(claim)}
    IN CASE exits = {} -> "execution_evidence_missing"
         [] Cardinality(exits) > 1 -> "execution_inconclusive"
         [] exits = {0} -> "execution_evidence_present"
         [] OTHER -> "execution_failed"

Supported(claim) == Evidence(claim) = "execution_evidence_present"

-----------------------------------------------------------------------------
(* Properties *)

\* Every variable holds a value of its kind.
ExecTypeOK ==
    /\ stage \in [Recorders -> Stages] /\ runs \in 0..MaxRuns
    /\ \A r \in Recorders : entry[r].id \in 0..MaxRuns /\ opened[r] <= log
    /\ \A i \in DOMAIN lines : lines[i].entry.id \in 1..MaxRuns

\* A claim that the ledger supports was really run, with success, and its
\* recording was finished: a recorder that died is not evidence.
SupportIsReal ==
    \A claim \in ExecCommands : Supported(claim) =>
        \E d \in recorded : d.entry.command \in Answers[claim] /\ d.entry.exit = 0

\* As long as no line was broken, a recorded failure of a command keeps the
\* claim that it passed from being supported until the ledger is cleared,
\* whatever was recorded before and after it.
FailuresCount ==
    ~torn => \A d \in recorded :
        d.file = log /\ d.entry.exit # 0 =>
            \A claim \in ExecCommands : d.entry.command \in Answers[claim] => ~Supported(claim)

\* What `claims` and findings are derived from: success that was seen, and no
\* failure passed over.
EvidenceIsReal == ExecTypeOK /\ SupportIsReal /\ FailuresCount
=============================================================================
