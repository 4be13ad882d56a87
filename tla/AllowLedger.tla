---------------------------- MODULE AllowLedger ----------------------------
(***************************************************************************)
(* Local permissions: `sourcepack allow`, `sourcepack disallow` and        *)
(* `sourcepack policy remove`.  A permission is a line of two files.  The  *)
(* authority ledger under the user's home, shared by every repository of   *)
(* the machine, is what counts; the readable allow.jsonl inside the        *)
(* repository shows it.  The commands rewrite both without any lock and    *)
(* undo the first write by hand when the second fails; a judgment reads    *)
(* both.  Each action is one file read or one atomic replacement.  The     *)
(* order of the lines is abstracted.                                       *)
(***************************************************************************)
EXTENDS Naturals, FiniteSets

CONSTANTS
    Procs,     \* process slots: commands that may run at the same time
    Repos,     \* the repositories of this machine
    Cwd,       \* the repositories each process slot runs commands in
    Values,    \* what is allowed: scope and value of a permission
    Ids,       \* permission ids: a hash of scope, value and time
    Entries,   \* the permissions that may be asked for (a bound)
    Forged,    \* lines somebody may add to allow.jsonl by hand
    NoEntry,   \* "not asked about anything"
    NoId,      \* `disallow` and a judgment name no id
    Faults     \* which faults the environment may inject

ASSUME LedgerAssumption ==
    /\ Cwd \in [Procs -> SUBSET Repos]
    /\ Entries \subseteq [repo : Repos, value : Values, id : Ids]
    /\ Forged \subseteq [repo : Repos, value : Values, id : Ids]
    /\ NoEntry \notin [repo : Repos, value : Values, id : Ids \cup {NoId}]
    /\ NoId \notin Ids
    /\ Faults \subseteq {"io", "crash", "edit"}

VARIABLES
    authority,   \* the records of trust/active_allows.jsonl
    readable,    \* the records of each repository's allow.jsonl
    garbled,     \* does that file hold a line that is not JSON?
    pc,          \* where each process is in its command
    op,          \* "allow", "disallow", "remove" or "judge"
    entry,       \* the permission it was asked about
    held,        \* the authority records this process read
    text,        \* the readable records, as this process read them
    overlapped,  \* history: two commands were between read and write at once
    spoiled      \* history: a file was edited by hand or an undo was cut off

ledgers == <<authority, readable, garbled>>
locals  == <<op, entry, held, text>>
history == <<overlapped, spoiled>>
vars    == <<ledgers, pc, locals, history>>

Records == Entries \cup Forged
Asked   == [repo : Repos, value : Values, id : Ids \cup {NoId}] \cup {NoEntry}
Labels  == {"idle", "read", "authority", "readable", "write", "undo",
            "policy", "trust", "judged"}

TypeOK ==
    /\ authority \subseteq Records
    /\ readable \in [Repos -> SUBSET Records]
    /\ garbled \in [Repos -> BOOLEAN]
    /\ pc \in [Procs -> Labels]
    /\ op \in [Procs -> {"none", "allow", "disallow", "remove", "judge"}]
    /\ entry \in [Procs -> Asked]
    /\ held \in [Procs -> SUBSET Records]
    /\ text \in [Procs -> SUBSET Records]
    /\ overlapped \in BOOLEAN /\ spoiled \in BOOLEAN

Init ==
    /\ authority = {}
    /\ readable = [r \in Repos |-> {}]
    /\ garbled = [r \in Repos |-> FALSE]
    /\ pc = [p \in Procs |-> "idle"]
    /\ op = [p \in Procs |-> "none"]
    /\ entry = [p \in Procs |-> NoEntry]
    /\ held = [p \in Procs |-> {}]
    /\ text = [p \in Procs |-> {}]
    /\ overlapped = FALSE /\ spoiled = FALSE

-----------------------------------------------------------------------------
Own(records, r) == {e \in records : e.repo = r}

\* What a removal takes out: the permission of that id or, when no id is named,
\* every permission for that scope and value, of that repository only.
Matching(records, e) ==
    {x \in records : x.repo = e.repo /\ (IF e.id = NoId THEN x.value = e.value
                                                      ELSE x.id = e.id)}

\* _parse_policy_ledger_data: two lines for one scope and value make the whole
\* ledger malformed.
Malformed(records) == \E x, y \in records : x # y /\ x.value = y.value

Goto(p, label) == pc' = [pc EXCEPT ![p] = label]

\* Between its read of the authority ledger and its last write, a command
\* works on a copy.
Critical == {"authority", "readable", "write", "undo"}

Start(p, o, e) ==
    /\ pc[p] = "idle"
    /\ op' = [op EXCEPT ![p] = o]
    /\ entry' = [entry EXCEPT ![p] = e]
    /\ Goto(p, IF o = "judge" THEN "policy" ELSE "read")
    /\ UNCHANGED <<ledgers, held, text, history>>

Finish(p) ==
    /\ Goto(p, "idle")
    /\ op' = [op EXCEPT ![p] = "none"]
    /\ entry' = [entry EXCEPT ![p] = NoEntry]
    /\ held' = [held EXCEPT ![p] = {}]
    /\ text' = [text EXCEPT ![p] = {}]

-----------------------------------------------------------------------------
(* add_active_allow and remove_active_allows *)

\* _authority_records; an id that is taken and a removal that matches nothing
\* end the command here.
ReadAuthority(p) ==
    LET taken   == \E x \in authority : x.repo = entry[p].repo /\ x.id = entry[p].id
        nothing == Matching(authority, entry[p]) = {} IN
    /\ pc[p] = "read"
    /\ \/ /\ IF op[p] = "allow" THEN ~taken ELSE ~nothing
          /\ held' = [held EXCEPT ![p] = authority]
          /\ overlapped' = (overlapped \/ \E q \in Procs \ {p} : pc[q] \in Critical)
          /\ Goto(p, "authority")
          /\ UNCHANGED <<op, entry, text>>
       \/ /\ (op[p] = "allow" /\ taken) \/ "io" \in Faults
          /\ Finish(p)
          /\ UNCHANGED overlapped
       \/ /\ op[p] # "allow" /\ nothing
          /\ Finish(p)
          /\ UNCHANGED overlapped
    /\ UNCHANGED <<ledgers, spoiled>>

\* The authority ledger is replaced by the copy with the change in it.
WriteAuthority(p) ==
    /\ pc[p] = "authority"
    /\ \/ /\ authority' = IF op[p] = "allow" THEN held[p] \cup {entry[p]}
                          ELSE held[p] \ Matching(held[p], entry[p])
          /\ Goto(p, "readable")
          /\ UNCHANGED locals
       \/ /\ "io" \in Faults
          /\ Finish(p)
          /\ UNCHANGED authority
    /\ UNCHANGED <<readable, garbled, overlapped, spoiled>>

\* Mutant: a file that cannot be read ends the command without an undo.
ReadReadable_NoUndo(p) ==
    LET r == entry[p].repo IN
    /\ pc[p] = "readable"
    /\ \/ /\ ~garbled[r]
          /\ text' = [text EXCEPT ![p] = readable[r]]
          /\ Goto(p, "write")
          /\ UNCHANGED <<op, entry, held>>
       \/ /\ garbled[r] \/ "io" \in Faults
          /\ Finish(p)
    /\ UNCHANGED <<ledgers, history>>

\* The readable file is read; when that fails the first write is undone.
ReadReadable(p) ==
    LET r == entry[p].repo IN
    /\ pc[p] = "readable"
    /\ \/ /\ ~garbled[r]
          /\ text' = [text EXCEPT ![p] = readable[r]]
          /\ Goto(p, "write")
       \/ /\ garbled[r] \/ "io" \in Faults
          /\ Goto(p, "undo")
          /\ UNCHANGED text
    /\ UNCHANGED <<ledgers, op, entry, held, history>>

\* Mutant: of several permissions for one value, one line is taken out.
WriteReadable_OneLine(p) ==
    LET r == entry[p].repo IN
    /\ pc[p] = "write"
    /\ \E x \in Matching(held[p], entry[p]) \cup {entry[p]} :
          readable' = [readable EXCEPT ![r] =
                         IF op[p] = "allow" THEN text[p] \cup {x} ELSE text[p] \ {x}]
    /\ Finish(p)
    /\ UNCHANGED <<authority, garbled, history>>

\* The readable file is replaced, or removed with its last line: `disallow`
\* takes out the lines whose id it removed from the authority ledger.
WriteReadable(p) ==
    LET r == entry[p].repo
        removed == Matching(held[p], entry[p])
        kept == {x \in text[p] : \A y \in removed : x.id # y.id} IN
    /\ pc[p] = "write"
    /\ \/ /\ readable' = [readable EXCEPT ![r] =
                            IF op[p] = "allow" THEN text[p] \cup {entry[p]} ELSE kept]
          /\ garbled' = [garbled EXCEPT ![r] = FALSE]
          /\ Finish(p)
       \/ /\ "io" \in Faults
          /\ Goto(p, "undo")
          /\ UNCHANGED <<readable, garbled, locals>>
    /\ UNCHANGED <<authority, overlapped, spoiled>>

\* Mutant: the undo takes the change back out of the current ledger's readable
\* counterpart instead of restoring the copy.
Undo_FromReadable(p) ==
    /\ pc[p] = "undo"
    /\ authority' = UNION {readable[r] : r \in Repos}
    /\ Finish(p)
    /\ UNCHANGED <<readable, garbled, history>>

\* authority_original is written back and the command reports the failure.
Undo(p) ==
    /\ pc[p] = "undo"
    /\ \/ /\ authority' = held[p]
          /\ UNCHANGED spoiled
       \/ /\ "io" \in Faults
          /\ spoiled' = TRUE
          /\ UNCHANGED authority
    /\ Finish(p)
    /\ UNCHANGED <<readable, garbled, overlapped>>

-----------------------------------------------------------------------------
(* _policy_entries_for_judgment *)

\* The readable file must parse completely, though nothing is taken from it.
ReadPolicy(p) ==
    LET r == entry[p].repo IN
    /\ pc[p] = "policy"
    /\ \/ /\ ~garbled[r] /\ ~Malformed(readable[r])
          /\ Goto(p, "trust")
          /\ UNCHANGED locals
       \/ /\ garbled[r] \/ Malformed(readable[r]) \/ "io" \in Faults
          /\ Finish(p)
    /\ UNCHANGED <<ledgers, history>>

\* Mutant: the permissions are taken from the repository's own file.
ReadTrust_Readable(p) ==
    /\ pc[p] = "trust"
    /\ held' = [held EXCEPT ![p] = readable[entry[p].repo]]
    /\ Goto(p, "judged")
    /\ UNCHANGED <<ledgers, op, entry, text, history>>

\* Only this repository's records of the authority ledger permit anything.
ReadTrust(p) ==
    LET own == Own(authority, entry[p].repo) IN
    /\ pc[p] = "trust"
    /\ \/ /\ ~Malformed(own)
          /\ held' = [held EXCEPT ![p] = own]
          /\ Goto(p, "judged")
          /\ UNCHANGED <<op, entry, text>>
       \/ /\ Malformed(own) \/ "io" \in Faults
          /\ Finish(p)
    /\ UNCHANGED <<ledgers, history>>

\* The verdict is given: what `held` names was waived.
Judged(p) ==
    /\ pc[p] = "judged"
    /\ Finish(p)
    /\ UNCHANGED <<ledgers, history>>

-----------------------------------------------------------------------------
(* The environment *)

\* Somebody edits an allow.jsonl: adds the line e, deletes the file, or leaves
\* a line that is not JSON.  Bound: once, and not after an undo was cut off.
HandEdit(e) ==
    /\ "edit" \in Faults /\ ~spoiled
    /\ \/ /\ readable' = [readable EXCEPT ![e.repo] = @ \cup {e}]
          /\ UNCHANGED garbled
       \/ /\ readable' = [readable EXCEPT ![e.repo] = {}]
          /\ garbled' = [garbled EXCEPT ![e.repo] = FALSE]
       \/ /\ garbled' = [garbled EXCEPT ![e.repo] = TRUE]
          /\ UNCHANGED readable
    /\ spoiled' = TRUE
    /\ UNCHANGED <<authority, pc, locals, overlapped>>

\* A process dies; what it had written stays.
Crash(p) ==
    /\ "crash" \in Faults
    /\ pc[p] # "idle"
    /\ spoiled' = (spoiled \/ pc[p] \in {"readable", "write", "undo"})
    /\ Finish(p)
    /\ UNCHANGED <<ledgers, overlapped>>

Step(p) ==
    \/ ReadAuthority(p) \/ WriteAuthority(p) \/ ReadReadable(p)
    \/ WriteReadable(p) \/ Undo(p) \/ ReadPolicy(p) \/ ReadTrust(p) \/ Judged(p)

\* A question about the permissions for one scope and value, whatever their id.
Unnamed(e) == [repo |-> e.repo, value |-> e.value, id |-> NoId]

Command(p) ==
    \E e \in UNION {Own(Entries, r) : r \in Cwd[p]} :
        \/ \E o \in {"allow", "remove"} : Start(p, o, e)
        \/ \E o \in {"disallow", "judge"} : Start(p, o, Unnamed(e))

Next ==
    \/ \E p \in Procs : Step(p) \/ Command(p) \/ Crash(p)
    \/ \E e \in Forged : HandEdit(e)

Spec == Init /\ [][Next]_vars

-----------------------------------------------------------------------------
(* Properties *)

\* A judgment goes by nothing but permissions that `allow` recorded for its
\* own repository: a line written into allow.jsonl by hand never counts.
OnlyRecordedCounts ==
    \A p \in Procs : pc[p] = "judged" => held[p] \subseteq Entries

\* A permission comes into force only by an `allow` for it, or by the undo of
\* a removal of it that failed.
ComesIntoForce(e) ==
    \E p \in Procs :
        \/ pc[p] = "authority" /\ op[p] = "allow" /\ entry[p] = e
        \/ pc[p] = "undo" /\ op[p] # "allow" /\ e \in Matching(held[p], entry[p])

\* A permission that was removed does not come back by itself, as long as no
\* two commands overlapped: not through the undo of another command's failure,
\* not through a crash, not by restoring the readable file.
RemovedStaysRemoved ==
    [][~overlapped => \A e \in authority' \ authority : ComesIntoForce(e)]_vars

\* A command that failed left the authority ledger as it found it, unless the
\* undo itself was cut off or another command overlapped.
FailureChangesNothing ==
    [][\A p \in Procs :
         /\ pc[p] \in Critical \ {"write"} /\ pc'[p] = "idle"
         /\ ~overlapped /\ ~spoiled'
         => authority' = held[p]]_vars

\* With nothing running, no hand edit and no cut-off undo behind it, each
\* repository's allow.jsonl shows exactly its active permissions: only then is
\* the file left out of the diff (readable_allow_file_matches_active).
LedgersAgree ==
    /\ \A p \in Procs : pc[p] \notin Critical
    /\ ~overlapped /\ ~spoiled
    => \A r \in Repos : readable[r] = Own(authority, r) /\ ~garbled[r]

\* What the tests say of a removal, whatever else runs on the machine:
\* "disallow immediately revokes permission", and only `allow` restores it
\* (tests/test_local_allow_trust.py:90, 106).
DisallowRevokes ==
    [][\A e \in authority' \ authority : ComesIntoForce(e)]_vars
=============================================================================
