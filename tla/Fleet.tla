-------------------------------- MODULE Fleet -------------------------------
(***************************************************************************)
(* fleet.py: the reports, or the decision ledgers, below a directory are   *)
(* found, read one by one within limits and summarized, while others write,*)
(* grow and remove them.                                                   *)
(***************************************************************************)
EXTENDS Integers, Sequences, SequencesExt, FiniteSets

CONSTANTS
    Order,      \* the files there may be, in the order of their paths
    Sub,        \* those in a subdirectory
    Limits,     \* the limits a call may have: entries, depth, records, file, read, events
    MaxLines,   \* lines of a file (a bound)
    MaxChanges  \* changes by others (a bound)

\* A ledger of two lines is among those there may be.
ASSUME FleetAssumption ==
    /\ Order \in Seq(STRING) /\ IsInjective(Order) /\ Sub \subseteq ToSet(Order)
    /\ Limits \subseteq [entries : Nat, depth : Nat, records : Nat, file : Nat, read : Nat, events : Nat]
    /\ MaxLines \in Nat /\ MaxLines >= 2

Files == ToSet(Order)
Gone == <<>>                        \* an empty file says as little as none
Says == {"PASS", "FAIL", "odd", "broken"}
Torn == MaxLines + 1                \* a line of a ledger that does not parse

VARIABLES
    mode,       \* "reports" or "ledgers"
    limits,
    disk,       \* reports: what each says, and filling.  Ledgers: the parent
                \* of each event, as its line, or 0
    changes,
    pc,         \* "top", "sub", "look", "read", "done"
    consumed, found, limit,         \* _discover
    at, size, bytes, readLimit, failed,
    taken,      \* what was read of each file
    kept,       \* the lines of each ledger whose events were kept
    steady      \* history: the files nobody changed since the call began

call == <<mode, limits>>
fleetVars == <<call, disk, changes, pc, consumed, found, limit, at, size, bytes, readLimit, failed,
          taken, kept, steady>>

None == "none"
Contents(m) ==
    IF m = "reports" THEN {<<s>> : s \in Says} \cup {<<"PASS", "filling">>}
    ELSE {<<0>>, <<0, 1>>, <<Torn, 1>>}

FleetInit ==
    /\ mode \in {"reports", "ledgers"} /\ limits \in Limits
    /\ disk \in [Files -> Contents(mode) \cup {Gone}]
    /\ changes = 0 /\ pc = "top" /\ consumed = 0 /\ found = <<>> /\ limit = None
    /\ at = 1 /\ size = 0 /\ bytes = 0 /\ readLimit = None /\ failed = FALSE
    /\ taken = [f \in {} |-> <<>>] /\ steady = {f \in Files : disk[f] # Gone} /\ kept = taken

-----------------------------------------------------------------------------
(* The others *)

Change(f, content) ==
    /\ changes < MaxChanges /\ changes' = changes + 1 /\ pc # "done"
    /\ disk' = [disk EXCEPT ![f] = content] /\ steady' = steady \ {f}
    /\ UNCHANGED <<call, pc, consumed, found, limit, at, size, bytes, readLimit, failed, taken, kept>>

Others ==
    \E f \in Files :
       \/ \E content \in Contents(mode) \cup {Gone} : content # disk[f] /\ Change(f, content)
       \/ /\ mode = "ledgers" /\ disk[f] # Gone /\ Len(disk[f]) < MaxLines
          /\ \E parent \in {0, Len(disk[f])} : Change(f, Append(disk[f], parent))

-----------------------------------------------------------------------------
(* _discover *)

Before(f, g) == \E i, j \in DOMAIN Order : i < j /\ Order[i] = f /\ Order[j] = g

\* The files of a set, sorted by their paths.
InOrder(files) ==
    CHOOSE s \in [1..Cardinality(files) -> files] :
        ToSet(s) = files /\ \A i, j \in DOMAIN s : i < j => Before(s[i], s[j])

Present == {f \in Files : disk[f] # Gone /\ (f \in Sub <=> pc = "sub")}
\* With no depth left the walk ends at the first directory, in name order.
BeforeSub == {f \in Present : \A s \in Sub : Before(f, s)}

ListDirectory ==
    LET deep == pc = "top" /\ limits.depth = 0
        reach == InOrder(IF deep THEN BeforeSub ELSE Present)
        room == limits.records - Len(found)
        entries == Cardinality(Present) + IF pc = "top" THEN 1 ELSE 0
        all == found \o SubSeq(reach, 1, IF Len(reach) < room THEN Len(reach) ELSE room)
        met == IF consumed + entries > limits.entries THEN "directory_entries"
               ELSE IF Len(reach) > room THEN "artifact_paths"
               ELSE IF deep THEN "nesting_depth" ELSE None
    IN
    /\ pc \in {"top", "sub"} /\ limit' = met
    /\ consumed' = IF met = "directory_entries" THEN limits.entries ELSE consumed + entries
    /\ pc' = IF pc = "top" /\ met = None THEN "sub" ELSE "look"
    /\ found' = CASE met = "directory_entries" -> found
                  [] pc = "sub" /\ met = None -> InOrder(ToSet(all))
                  [] OTHER -> all
    /\ UNCHANGED <<call, disk, changes, at, size, bytes, readLimit, failed, taken, kept, steady>>

-----------------------------------------------------------------------------
(* summarize_reports and summarize_ledgers *)

Stop == pc' = "done"
With(files, file, value) == [f \in DOMAIN files \cup {file} |-> IF f = file THEN value ELSE files[f]]

\* stat: a limit, or a file that is gone, ends the reading.
Look ==
    /\ pc = "look"
    /\ IF at > Len(found) THEN Stop /\ UNCHANGED <<size, readLimit, failed>>
       ELSE LET s == Len(disk[found[at]]) IN
            /\ size' = s
            /\ failed' = (s = 0)
            /\ readLimit' = IF s > limits.file THEN "individual_file_bytes"
                            ELSE IF bytes + s > limits.read THEN "aggregate_read_bytes" ELSE None
            /\ IF failed' \/ readLimit' # None THEN Stop ELSE pc' = "read"
    /\ UNCHANGED <<call, disk, changes, consumed, found, limit, at, bytes, taken, kept, steady>>

\* The events of the ledgers read so far.
KeptEvents == UNION {{f} \X kept[f] : f \in DOMAIN kept}
Room == limits.events - Cardinality(KeptEvents)
Valid(lines) == {i \in DOMAIN lines : lines[i] # Torn}

\* read_events(max_events = ...): the first that fit.
Kept(lines, room) ==
    {i \in Valid(lines) : Cardinality({j \in Valid(lines) : j <= i}) <= room}

\* A ledger that is gone counts as empty; more events than fit end the reading.
ReadLedger ==
    LET content == disk[found[at]]
        more == Kept(content, Room) # Valid(content) IN
    /\ pc = "read" /\ mode = "ledgers" /\ bytes' = bytes + size
    /\ taken' = With(taken, found[at], content)
    /\ kept' = With(kept, found[at], Kept(content, Room))
    /\ at' = at + 1 /\ readLimit' = IF more THEN "events" ELSE None
    /\ pc' = IF more THEN "done" ELSE "look"
    /\ UNCHANGED <<call, disk, changes, consumed, found, limit, size, failed, steady>>

\* It cannot be opened, or is no text.
ReadFails ==
    /\ pc = "read" /\ mode = "ledgers" /\ Stop /\ failed' = TRUE /\ bytes' = bytes + size
    /\ UNCHANGED <<call, disk, changes, consumed, found, limit, at, size, readLimit, taken, kept, steady>>

\* A report that is gone, or has grown beyond the limit, is listed as unreadable.
ReadReport ==
    LET content == disk[found[at]]
        unreadable == content = Gone \/ Len(content) > limits.file IN
    /\ pc = "read" /\ mode = "reports"
    /\ taken' = With(taken, found[at], IF unreadable THEN <<"broken">> ELSE content)
    /\ bytes' = bytes + IF unreadable THEN 0 ELSE Len(content)
    /\ at' = at + 1 /\ pc' = "look"
    /\ UNCHANGED <<call, disk, changes, consumed, found, limit, size, readLimit, failed, kept, steady>>

FleetNext == ListDirectory \/ Look \/ ReadLedger \/ ReadFails \/ ReadReport \/ Others

FleetSpec == FleetInit /\ [][FleetNext]_fleetVars

-----------------------------------------------------------------------------
(* What the summary says *)

\* Mutant: what was found counts, not what was read.
Complete_Found == limit = None /\ ~failed

\* _bounds, _ledger_producer_bounds
Complete == limit = None /\ ~failed /\ readLimit = None

\* verdict_counts: the reports that say v.
Counted(v) == {f \in DOMAIN taken : taken[f] # Gone /\ taken[f][1] = v}
\* An event is known by its ledger and line; its parent is in the same ledger.
MissingParents(f) == {taken[f][i] : i \in kept[f]} \ (kept[f] \cup {0})

-----------------------------------------------------------------------------
(* Properties *)

\* Files are read in the order they were found, within the limits.
FleetTypeOK ==
    /\ pc \in {"top", "sub", "look", "read", "done"} /\ Len(found) <= limits.records
    /\ consumed <= limits.entries /\ IsInjective(found)
    /\ DOMAIN taken \subseteq ToSet(found) /\ DOMAIN kept \subseteq DOMAIN taken
    /\ steady \subseteq {f \in Files : disk[f] # Gone}
    /\ Room \in 0..limits.events

\* A summary that calls itself complete counts every file that was there all
\* the time, with the verdict it has, or every event of it.
CompleteMissesNothing ==
    (pc = "done" /\ Complete) =>
        \A f \in steady :
            /\ f \in DOMAIN taken
            /\ IF mode = "ledgers" THEN kept[f] = Valid(disk[f]) ELSE f \in Counted(disk[f][1])

\* A parent that is reported missing is missing from its ledger, also where
\* the reading met a limit and while the ledger grew.
MissingIsMissing ==
    pc = "done" => \A f \in DOMAIN kept : \A i \in MissingParents(f) : taken[f][i] = Torn

\* A complete summary misses nothing, and none reports a parent as missing
\* that is there.
SummaryIsTrue == FleetTypeOK /\ CompleteMissesNothing /\ MissingIsMissing
=============================================================================
