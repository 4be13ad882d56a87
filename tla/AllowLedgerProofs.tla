------------------------- MODULE AllowLedgerProofs -------------------------
(* Theorems about AllowLedger, for any processes, repositories and records. *)
EXTENDS AllowLedger, TLAPS

\* Which command a process is in, and what it was asked about.
CommandInv ==
    \A p \in Procs :
        /\ pc[p] \in Critical \cup {"read"} => op[p] \in {"allow", "disallow", "remove"}
        /\ pc[p] # "idle" => entry[p] # NoEntry
        /\ pc[p] \in Critical \cup {"read"} /\ op[p] = "allow" => entry[p] \in Entries

UniqueIds(records) ==
    \A x, y \in records : x.repo = y.repo /\ x.id = y.id => x = y

\* Every copy of the authority ledger is as good as the ledger: what `allow`
\* recorded, no id twice in one repository.
CopyInv ==
    /\ authority \subseteq Entries /\ UniqueIds(authority)
    /\ \A p \in Procs :
          /\ pc[p] \in Critical \cup {"judged"} =>
               held[p] \subseteq Entries /\ UniqueIds(held[p])
          /\ pc[p] \in Critical /\ op[p] = "allow" =>
               \A x \in held[p] : x.repo = entry[p].repo => x.id # entry[p].id

\* What the ledger holds once p has written it.
Changed(p) ==
    IF op[p] = "allow" THEN held[p] \cup {entry[p]}
    ELSE held[p] \ Matching(held[p], entry[p])

\* While no two commands overlapped, the one that is between its read and its
\* last write knows exactly what the ledger holds.
AloneInv ==
    ~overlapped =>
        /\ \A p, q \in Procs : pc[p] \in Critical /\ pc[q] \in Critical => p = q
        /\ \A p \in Procs :
              /\ pc[p] = "authority" => authority = held[p]
              /\ pc[p] \in {"readable", "write", "undo"} => authority = Changed(p)

Shows(records) == \A r \in Repos : readable[r] = Own(records, r)

\* ... and, while nobody edited a file and no undo was cut off, what the
\* readable files show: the ledger as it was before that command.
ShownInv ==
    ~overlapped /\ ~spoiled =>
        /\ \A r \in Repos : ~garbled[r]
        /\ (\A p \in Procs : pc[p] \notin Critical) => Shows(authority)
        /\ \A p \in Procs :
              /\ pc[p] \in Critical => Shows(held[p])
              /\ pc[p] = "write" => text[p] = readable[entry[p].repo]

LedgerInv == TypeOK /\ CommandInv /\ CopyInv /\ AloneInv /\ ShownInv

-----------------------------------------------------------------------------
(* Types *)

\* A removal takes records out and adds none.
LEMMA MatchingSubset ==
  ASSUME NEW records, NEW e PROVE Matching(records, e) \subseteq records
BY DEF Matching

LEMMA InitTyped == Init => TypeOK
<1> SUFFICES ASSUME Init PROVE TypeOK
  OBVIOUS
<1>1. /\ authority \subseteq Records
      /\ readable \in [Repos -> SUBSET Records]
      /\ garbled \in [Repos -> BOOLEAN]
      /\ overlapped \in BOOLEAN /\ spoiled \in BOOLEAN
  BY DEF Init
<1>2. /\ pc \in [Procs -> Labels]
      /\ op \in [Procs -> {"none", "allow", "disallow", "remove", "judge"}]
      /\ entry \in [Procs -> Asked]
      /\ held \in [Procs -> SUBSET Records]
      /\ text \in [Procs -> SUBSET Records]
  BY DEF Init, Labels, Asked
<1> QED
  BY <1>1, <1>2 DEF TypeOK

\* A command that ends leaves its locals unset.
LEMMA FinishTyped ==
  ASSUME TypeOK, NEW p \in Procs, Finish(p)
  PROVE  /\ pc' \in [Procs -> Labels]
         /\ op' \in [Procs -> {"none", "allow", "disallow", "remove", "judge"}]
         /\ entry' \in [Procs -> Asked]
         /\ held' \in [Procs -> SUBSET Records]
         /\ text' \in [Procs -> SUBSET Records]
BY DEF TypeOK, Finish, Goto, Labels, Asked

\* An entry that names a repository names one of this machine.
LEMMA AskedRepo ==
  ASSUME NEW e \in Asked, e # NoEntry PROVE e.repo \in Repos
BY DEF Asked

\* What Command(p) puts into `entry`.
LEMMA EntryAsked ==
  ASSUME NEW e \in Entries
  PROVE  /\ e \in Asked /\ Unnamed(e) \in Asked
         /\ e # NoEntry /\ Unnamed(e) # NoEntry
BY LedgerAssumption DEF Asked, Unnamed

\* What a running command was asked, in the terms its writes need.
LEMMA EntryTyped ==
  ASSUME TypeOK, CommandInv, NEW p \in Procs
  PROVE  /\ pc[p] # "idle" => entry[p].repo \in Repos
         /\ pc[p] = "authority" /\ op[p] = "allow" => entry[p] \in Records
         /\ pc[p] = "write" /\ op[p] = "allow" => entry[p] \in Records
BY AskedRepo DEF TypeOK, CommandInv, Critical, Records

\* Types and commands hold each other up: what is written is what was asked.
LEMMA NextTyped == TypeOK /\ CommandInv /\ [Next]_vars => TypeOK'
<1> SUFFICES ASSUME TypeOK, CommandInv, [Next]_vars PROVE TypeOK'
  OBVIOUS
<1> USE DEF TypeOK, Labels
<1>1. ASSUME NEW p \in Procs, ReadAuthority(p) PROVE TypeOK'
  BY <1>1, FinishTyped DEF ReadAuthority, Goto, ledgers, Records
<1>2. ASSUME NEW p \in Procs, WriteAuthority(p) PROVE TypeOK'
  <2>1. held[p] \subseteq Records
    BY DEF TypeOK
  <2>2. authority' \subseteq Records
    BY <1>2, <2>1, EntryTyped DEF WriteAuthority
  <2> QED
    BY <1>2, <2>2, FinishTyped DEF WriteAuthority, Goto, locals
<1>3. ASSUME NEW p \in Procs, ReadReadable(p) PROVE TypeOK'
  <2>1. readable[entry[p].repo] \subseteq Records
    BY <1>3, EntryTyped DEF ReadReadable
  <2> QED
    BY <1>3, <2>1 DEF ReadReadable, Goto, ledgers, history
<1>4. ASSUME NEW p \in Procs, WriteReadable(p) PROVE TypeOK'
  <2>1. text[p] \subseteq Records
    OBVIOUS
  <2>2. readable' \in [Repos -> SUBSET Records]
    BY <1>4, <2>1, EntryTyped DEF WriteReadable
  <2>3. garbled' \in [Repos -> BOOLEAN]
    BY <1>4 DEF WriteReadable
  <2> QED
    BY <1>4, <2>2, <2>3, FinishTyped DEF WriteReadable, Goto, locals
<1>5. ASSUME NEW p \in Procs, Undo(p) PROVE TypeOK'
  BY <1>5, FinishTyped DEF Undo
<1>6. ASSUME NEW p \in Procs, ReadPolicy(p) \/ ReadTrust(p) \/ Judged(p) PROVE TypeOK'
  BY <1>6, FinishTyped DEF ReadPolicy, ReadTrust, Judged, Goto, ledgers, history,
     locals, Own
<1>7. ASSUME NEW p \in Procs, Command(p) PROVE TypeOK'
  BY <1>7, EntryAsked DEF Command, Start, Goto, ledgers, history, Own
<1>8. ASSUME NEW p \in Procs, Crash(p) PROVE TypeOK'
  BY <1>8, FinishTyped DEF Crash, ledgers
<1>9. ASSUME NEW e \in Forged, HandEdit(e) PROVE TypeOK'
  <2>1. readable[e.repo] \cup {e} \in SUBSET Records
    BY LedgerAssumption DEF Records
  <2>2. readable' \in [Repos -> SUBSET Records]
    BY <1>9, <2>1 DEF HandEdit
  <2>3. garbled' \in [Repos -> BOOLEAN]
    BY <1>9 DEF HandEdit
  <2> QED
    BY <1>9, <2>2, <2>3 DEF HandEdit, locals
<1>10. CASE UNCHANGED vars
  BY <1>10 DEF vars, ledgers, locals, history
<1> HIDE DEF TypeOK
<1> QED
  BY <1>1, <1>2, <1>3, <1>4, <1>5, <1>6, <1>7, <1>8, <1>9, <1>10 DEF Next, Step

LEMMA NextCommand == TypeOK /\ CommandInv /\ [Next]_vars => CommandInv'
<1> SUFFICES ASSUME TypeOK, CommandInv, [Next]_vars PROVE CommandInv'
  OBVIOUS
<1> USE DEF TypeOK, CommandInv, Critical, Goto
<1>1. ASSUME NEW p \in Procs, Step(p) PROVE CommandInv'
  <2> USE DEF Finish, locals, ledgers, history
  <2>1. CASE ReadAuthority(p)
    BY <2>1 DEF ReadAuthority
  <2>2. CASE WriteAuthority(p)
    BY <2>2 DEF WriteAuthority
  <2>3. CASE ReadReadable(p) \/ WriteReadable(p) \/ Undo(p)
    BY <2>3 DEF ReadReadable, WriteReadable, Undo
  <2>4. CASE ReadPolicy(p) \/ ReadTrust(p) \/ Judged(p)
    BY <2>4 DEF ReadPolicy, ReadTrust, Judged
  <2> QED
    BY <1>1, <2>1, <2>2, <2>3, <2>4 DEF Step
<1>2. ASSUME NEW p \in Procs, Command(p) PROVE CommandInv'
  <2>1. PICK e \in Entries :
           \/ \E o \in {"allow", "remove"} : Start(p, o, e)
           \/ \E o \in {"disallow", "judge"} : Start(p, o, Unnamed(e))
    BY <1>2 DEF Command, Own
  <2> QED
    BY <2>1, EntryAsked DEF Start
<1>3. ASSUME NEW p \in Procs, Crash(p) PROVE CommandInv'
  BY <1>3 DEF Crash, Finish
<1>4. ASSUME NEW e \in Forged, HandEdit(e) PROVE CommandInv'
  BY <1>4 DEF HandEdit, locals
<1>5. CASE UNCHANGED vars
  BY <1>5 DEF vars, locals
<1> HIDE DEF CommandInv, TypeOK
<1> QED
  BY <1>1, <1>2, <1>3, <1>4, <1>5 DEF Next

\* Every variable keeps to its set.
THEOREM TypeCorrect == Spec => []TypeOK
<1>1. Init => CommandInv
  BY DEF Init, CommandInv, Critical
<1> QED
  BY <1>1, InitTyped, NextTyped, NextCommand, PTL DEF Spec

-----------------------------------------------------------------------------
(* What counts *)

LEMMA UniqueSubset ==
  ASSUME NEW S, NEW T \in SUBSET S, UniqueIds(S) PROVE UniqueIds(T)
BY DEF UniqueIds

LEMMA UniqueAdd ==
  ASSUME NEW S, UniqueIds(S), NEW e, \A x \in S : x.repo = e.repo => x.id # e.id
  PROVE  UniqueIds(S \cup {e})
BY DEF UniqueIds

\* Whatever overlaps, the ledger and all its copies hold recorded permissions
\* only: each write puts back a copy, a part of one, or one more of them.
LEMMA NextCopy == TypeOK /\ CommandInv /\ CopyInv /\ [Next]_vars => CopyInv'
<1> SUFFICES ASSUME TypeOK, CommandInv, CopyInv, [Next]_vars PROVE CopyInv'
  OBVIOUS
<1> USE DEF TypeOK, CopyInv, Critical, Goto
<1>1. ASSUME NEW p \in Procs, Step(p) PROVE CopyInv'
  <2> USE DEF Finish, locals, ledgers, history
  <2>1. CASE ReadAuthority(p)
    BY <2>1 DEF ReadAuthority
  <2>2. CASE WriteAuthority(p)
    <3>1. held[p] \ Matching(held[p], entry[p]) \subseteq held[p]
      OBVIOUS
    <3>2. /\ pc[p] = "authority" /\ held[p] \subseteq Entries
          /\ UniqueIds(held[p]) /\ UniqueIds(authority)
      BY <2>2 DEF WriteAuthority
    <3>3. op[p] = "allow" => /\ entry[p] \in Entries
                             /\ UniqueIds(held[p] \cup {entry[p]})
      BY <3>2, UniqueAdd DEF CommandInv
    <3>4. UniqueIds(held[p] \ Matching(held[p], entry[p]))
      BY <3>1, <3>2, UniqueSubset
    <3>5. authority' \subseteq Entries /\ UniqueIds(authority')
      BY <2>2, <3>2, <3>3, <3>4 DEF WriteAuthority
    <3> QED
      BY <2>2, <3>5 DEF WriteAuthority, UniqueIds
  <2>3. CASE ReadReadable(p) \/ WriteReadable(p)
    BY <2>3 DEF ReadReadable, WriteReadable
  <2>4. CASE Undo(p)
    BY <2>4 DEF Undo
  <2>5. CASE ReadPolicy(p) \/ Judged(p)
    BY <2>5 DEF ReadPolicy, Judged
  <2>6. CASE ReadTrust(p)
    <3>1. Own(authority, entry[p].repo) \subseteq authority
      BY DEF Own
    <3>2. UniqueIds(Own(authority, entry[p].repo))
      BY <3>1, UniqueSubset
    <3> QED
      BY <2>6, <3>1, <3>2 DEF ReadTrust
  <2> QED
    BY <1>1, <2>1, <2>2, <2>3, <2>4, <2>5, <2>6 DEF Step
<1>2. ASSUME NEW p \in Procs, Command(p) PROVE CopyInv'
  <2>1. PICK o, e : Start(p, o, e)
    BY <1>2 DEF Command
  <2> QED
    BY <2>1 DEF Start, ledgers
<1>3. ASSUME NEW p \in Procs, Crash(p) PROVE CopyInv'
  BY <1>3 DEF Crash, Finish, ledgers
<1>4. ASSUME NEW e \in Forged, HandEdit(e) PROVE CopyInv'
  BY <1>4 DEF HandEdit, locals
<1>5. CASE UNCHANGED vars
  BY <1>5 DEF vars, locals, ledgers
<1> HIDE DEF CopyInv, TypeOK
<1> QED
  BY <1>1, <1>2, <1>3, <1>4, <1>5 DEF Next

LEMMA CopiesSound == Spec => [](TypeOK /\ CommandInv /\ CopyInv)
<1>1. Init => CommandInv /\ CopyInv
  BY DEF Init, CommandInv, CopyInv, Critical, UniqueIds
<1> QED
  BY <1>1, InitTyped, NextTyped, NextCommand, NextCopy, PTL DEF Spec

\* However commands of any repositories interleave, fail or die, a judgment
\* goes by recorded permissions only.
THEOREM OnlyRecorded == Spec => []OnlyRecordedCounts
<1>1. CopyInv => OnlyRecordedCounts
  BY DEF CopyInv, OnlyRecordedCounts
<1> QED
  BY <1>1, CopiesSound, PTL

-----------------------------------------------------------------------------
(* Commands that do not overlap *)

\* The overlap is noticed when the second copy is made, so until then only one
\* command holds a copy, and the ledger is that copy or its change.
LEMMA NextAlone == TypeOK /\ AloneInv /\ [Next]_vars => AloneInv'
<1> SUFFICES ASSUME TypeOK, AloneInv, [Next]_vars PROVE AloneInv'
  OBVIOUS
<1> USE DEF TypeOK, AloneInv, Critical, Goto, Changed
<1>1. ASSUME NEW p \in Procs, Step(p) PROVE AloneInv'
  <2> USE DEF Finish, locals, ledgers, history
  <2>1. CASE ReadAuthority(p)
    <3>1. CASE pc' = [pc EXCEPT ![p] = "authority"]
      <4>1. /\ held' = [held EXCEPT ![p] = authority]
            /\ overlapped' = (overlapped \/ \E q \in Procs \ {p} : pc[q] \in Critical)
            /\ authority' = authority /\ op' = op /\ entry' = entry
        BY <2>1, <3>1 DEF ReadAuthority
      <4>2. \A q \in Procs : pc'[q] = IF q = p THEN "authority" ELSE pc[q]
        BY <3>1
      <4> QED
        BY <4>1, <4>2
    <3>2. CASE pc' = [pc EXCEPT ![p] = "idle"]
      BY <2>1, <3>2 DEF ReadAuthority
    <3> QED
      BY <2>1, <3>1, <3>2 DEF ReadAuthority
  <2>2. CASE WriteAuthority(p)
    BY <2>2 DEF WriteAuthority
  <2>3. CASE ReadReadable(p)
    BY <2>3 DEF ReadReadable
  <2>4. CASE WriteReadable(p)
    BY <2>4 DEF WriteReadable
  <2>5. CASE Undo(p)
    BY <2>5 DEF Undo
  <2>6. CASE ReadPolicy(p) \/ ReadTrust(p) \/ Judged(p)
    BY <2>6 DEF ReadPolicy, ReadTrust, Judged
  <2> QED
    BY <1>1, <2>1, <2>2, <2>3, <2>4, <2>5, <2>6 DEF Step
<1>2. ASSUME NEW p \in Procs, Command(p) PROVE AloneInv'
  <2>1. PICK o, e : Start(p, o, e)
    BY <1>2 DEF Command
  <2> QED
    BY <2>1 DEF Start, ledgers, history
<1>3. ASSUME NEW p \in Procs, Crash(p) PROVE AloneInv'
  BY <1>3 DEF Crash, Finish, ledgers
<1>4. ASSUME NEW e \in Forged, HandEdit(e) PROVE AloneInv'
  BY <1>4 DEF HandEdit, locals
<1>5. CASE UNCHANGED vars
  BY <1>5 DEF vars, locals, ledgers, history
<1> HIDE DEF AloneInv, TypeOK
<1> QED
  BY <1>1, <1>2, <1>3, <1>4, <1>5 DEF Next

\* What the last write of a command makes the readable file show: the lines
\* whose ids it removed are exactly its removed records, ids being unique.
LEMMA WriteShows ==
  ASSUME TypeOK, CommandInv, CopyInv, NEW p \in Procs, pc[p] = "write",
         Shows(held[p]), text[p] = readable[entry[p].repo], WriteReadable(p),
         pc'[p] = "idle"
  PROVE  \A r \in Repos : readable'[r] = Own(Changed(p), r)
<1> DEFINE e == entry[p]
           removed == Matching(held[p], e)
           kept == {x \in text[p] : \A y \in removed : x.id # y.id}
<1>1. /\ e.repo \in Repos /\ text[p] = Own(held[p], e.repo)
      /\ UniqueIds(held[p])
      /\ readable \in [Repos -> SUBSET Records]
  BY EntryTyped DEF Shows, CopyInv, Critical, TypeOK
<1>2. readable' = [readable EXCEPT ![e.repo] =
                     IF op[p] = "allow" THEN text[p] \cup {e} ELSE kept]
  BY DEF WriteReadable, Goto, TypeOK
<1>3. ASSUME NEW r \in Repos, r # e.repo PROVE readable'[r] = Own(Changed(p), r)
  BY <1>1, <1>2, <1>3 DEF Shows, Own, Changed, Matching
<1>4. CASE op[p] = "allow"
  <2>1. readable'[e.repo] = Own(held[p], e.repo) \cup {e}
    BY <1>1, <1>2, <1>4
  <2>2. Own(held[p] \cup {e}, e.repo) = Own(held[p], e.repo) \cup {e}
    BY DEF Own
  <2> QED
    BY <1>3, <1>4, <2>1, <2>2 DEF Changed
<1>5. CASE op[p] # "allow"
  <2>1. readable'[e.repo] = kept
    BY <1>1, <1>2, <1>5
  <2>2. kept = Own(held[p] \ removed, e.repo)
    BY <1>1 DEF Own, Matching, UniqueIds
  <2> QED
    BY <1>3, <1>5, <2>1, <2>2 DEF Changed
<1> QED
  BY <1>4, <1>5

LEMMA NextShown ==
  TypeOK /\ CommandInv /\ CopyInv /\ AloneInv /\ ShownInv /\ [Next]_vars => ShownInv'
<1> SUFFICES ASSUME TypeOK, CommandInv, CopyInv, AloneInv, ShownInv, [Next]_vars
             PROVE  ShownInv'
  OBVIOUS
<1> USE DEF TypeOK, AloneInv, ShownInv, Critical, Goto, Changed, Shows
<1>1. ASSUME NEW p \in Procs, Step(p) PROVE ShownInv'
  <2> USE DEF Finish, locals, ledgers, history
  <2>1. CASE ReadAuthority(p)
    <3>1. CASE pc' = [pc EXCEPT ![p] = "authority"]
      <4>1. /\ held' = [held EXCEPT ![p] = authority]
            /\ overlapped' = (overlapped \/ \E q \in Procs \ {p} : pc[q] \in Critical)
            /\ spoiled' = spoiled /\ text' = text /\ entry' = entry
            /\ authority' = authority /\ readable' = readable /\ garbled' = garbled
            /\ pc[p] = "read"
        BY <2>1, <3>1 DEF ReadAuthority
      <4>2. \A q \in Procs : pc'[q] = IF q = p THEN "authority" ELSE pc[q]
        BY <3>1
      <4> QED
        BY <4>1, <4>2
    <3>2. CASE pc' = [pc EXCEPT ![p] = "idle"]
      BY <2>1, <3>2 DEF ReadAuthority
    <3> QED
      BY <2>1, <3>1, <3>2 DEF ReadAuthority
  <2>2. CASE WriteAuthority(p)
    BY <2>2 DEF WriteAuthority
  <2>3. CASE ReadReadable(p)
    BY <2>3 DEF ReadReadable
  <2>4. CASE WriteReadable(p) /\ pc'[p] = "idle"
    <3>0. pc[p] = "write" /\ authority' = authority
      BY <2>4 DEF WriteReadable
    <3>1. ASSUME ~overlapped, ~spoiled
          PROVE  \A r \in Repos : readable'[r] = Own(authority, r)
      <4>1. /\ Shows(held[p]) /\ text[p] = readable[entry[p].repo]
            /\ authority = Changed(p)
        BY <3>0, <3>1
      <4> HIDE DEF TypeOK, AloneInv, ShownInv, Critical, Changed, Shows
      <4> QED
        BY <2>4, <3>0, <4>1, WriteShows
    <3>2. ~overlapped /\ ~spoiled => \A r \in Repos : ~garbled'[r]
      BY <2>4 DEF WriteReadable
    <3> QED
      BY <2>4, <3>1, <3>2 DEF WriteReadable
  <2>5. CASE WriteReadable(p) /\ pc'[p] # "idle"
    BY <2>5 DEF WriteReadable
  <2>6. CASE Undo(p)
    BY <2>6 DEF Undo
  <2>7. CASE ReadPolicy(p) \/ ReadTrust(p) \/ Judged(p)
    BY <2>7 DEF ReadPolicy, ReadTrust, Judged
  <2> QED
    BY <1>1, <2>1, <2>2, <2>3, <2>4, <2>5, <2>6, <2>7 DEF Step
<1>2. ASSUME NEW p \in Procs, Command(p) PROVE ShownInv'
  <2>1. PICK o, e : Start(p, o, e)
    BY <1>2 DEF Command
  <2> QED
    BY <2>1 DEF Start, ledgers, history
<1>3. ASSUME NEW p \in Procs, Crash(p) PROVE ShownInv'
  <2>1. /\ \A q \in Procs : pc'[q] = IF q = p THEN "idle" ELSE pc[q]
        /\ \A q \in Procs \ {p} : held'[q] = held[q] /\ text'[q] = text[q]
        /\ entry' = [entry EXCEPT ![p] = NoEntry]
        /\ authority' = authority /\ readable' = readable /\ garbled' = garbled
        /\ overlapped' = overlapped
        /\ spoiled' = (spoiled \/ pc[p] \in {"readable", "write", "undo"})
    BY <1>3 DEF Crash, Finish, ledgers
  <2>2. SUFFICES ASSUME ~overlapped, ~spoiled, pc[p] \notin {"readable", "write", "undo"}
                 PROVE  ShownInv'
    BY <2>1
  <2>3. ASSUME NEW q \in Procs, pc'[q] \in Critical
        PROVE  /\ pc[q] \in Critical /\ Shows(held[q])'
               /\ pc'[q] = "write" => text'[q] = readable'[entry'[q].repo]
    BY <2>1, <2>2, <2>3
  <2>4. (\A q \in Procs : pc'[q] \notin Critical) => Shows(authority)'
    <3>1. CASE pc[p] = "authority"
      BY <2>1, <2>2, <3>1
    <3>2. CASE pc[p] # "authority"
      BY <2>1, <2>2, <3>2
    <3> QED
      BY <3>1, <3>2
  <2> QED
    BY <2>1, <2>2, <2>3, <2>4
<1>4. ASSUME NEW e \in Forged, HandEdit(e) PROVE ShownInv'
  BY <1>4 DEF HandEdit, locals
<1>5. CASE UNCHANGED vars
  BY <1>5 DEF vars, locals, ledgers, history
<1> HIDE DEF AloneInv, ShownInv, TypeOK
<1> QED
  BY <1>1, <1>2, <1>3, <1>4, <1>5 DEF Next

LEMMA LedgerInvHolds == Spec => []LedgerInv
<1>1. Init => CommandInv /\ CopyInv
  BY DEF Init, CommandInv, CopyInv, Critical, UniqueIds
<1>2. Init => AloneInv /\ ShownInv
  BY DEF Init, AloneInv, ShownInv, Critical, Shows, Own
<1> QED
  BY <1>1, <1>2, InitTyped, NextTyped, NextCommand, NextCopy, NextAlone, NextShown,
     PTL DEF Spec, LedgerInv

\* Nothing overlapped, nothing spoiled, nothing running: every repository's
\* allow.jsonl shows exactly its active permissions.
THEOREM Agreement == Spec => []LedgersAgree
<1>1. LedgerInv => LedgersAgree
  BY DEF LedgerInv, AloneInv, ShownInv, LedgersAgree, Shows
<1> QED
  BY <1>1, LedgerInvHolds, PTL

\* A command that failed left the authority ledger as it found it.
THEOREM FailureIsClean == Spec => FailureChangesNothing
<1>1. ASSUME LedgerInv, [Next]_vars, NEW p \in Procs,
             pc[p] \in Critical \ {"write"}, pc'[p] = "idle", ~overlapped, ~spoiled'
      PROVE  authority' = held[p]
  <2> USE DEF LedgerInv, TypeOK, AloneInv, Critical, Goto
  <2>1. ASSUME NEW q \in Procs, Step(q) PROVE authority' = held[p]
    <3>1. q = p
      BY <1>1, <2>1 DEF Step, ReadAuthority, WriteAuthority, ReadReadable,
         WriteReadable, Undo, ReadPolicy, ReadTrust, Judged, Finish, locals
    <3> QED
      BY <1>1, <2>1, <3>1 DEF Step, ReadAuthority, WriteAuthority, ReadReadable,
         WriteReadable, Undo, ReadPolicy, ReadTrust, Judged, Finish, locals
  <2>2. ASSUME NEW q \in Procs, Command(q) PROVE FALSE
    BY <1>1, <2>2 DEF Command, Start
  <2>3. ASSUME NEW q \in Procs, Crash(q) PROVE authority' = held[p]
    BY <1>1, <2>3 DEF Crash, Finish, ledgers
  <2>4. ASSUME NEW e \in Forged, HandEdit(e) PROVE FALSE
    BY <1>1, <2>4 DEF HandEdit
  <2>5. CASE UNCHANGED vars
    BY <1>1, <2>5 DEF vars
  <2> QED
    BY <1>1, <2>1, <2>2, <2>3, <2>4, <2>5 DEF Next
<1>2. LedgerInv /\ [Next]_vars =>
        [\A p \in Procs :
           /\ pc[p] \in Critical \ {"write"} /\ pc'[p] = "idle"
           /\ ~overlapped /\ ~spoiled'
           => authority' = held[p]]_vars
  BY <1>1
<1> QED
  BY LedgerInvHolds, <1>2, PTL DEF Spec, FailureChangesNothing

\* A permission that was removed comes back only by an `allow` for it or by the
\* undo of its own removal.
THEOREM RemovalLasts == Spec => RemovedStaysRemoved
<1>1. ASSUME LedgerInv, [Next]_vars, ~overlapped,
             NEW e \in authority' \ authority
      PROVE  ComesIntoForce(e)
  <2>1. PICK p \in Procs : Step(p) /\ authority' # authority
    BY <1>1 DEF Next, Command, Start, Crash, HandEdit, vars, ledgers
  <2>2. \/ WriteAuthority(p) /\ authority' # authority
        \/ Undo(p) /\ authority' # authority
    BY <2>1 DEF Step, ReadAuthority, ReadReadable, WriteReadable, ReadPolicy,
       ReadTrust, Judged, ledgers
  <2>3. CASE WriteAuthority(p) /\ authority' # authority
    <3>1. pc[p] = "authority" /\ authority = held[p]
      BY <1>1, <2>3 DEF WriteAuthority, LedgerInv, AloneInv
    <3>2. op[p] = "allow" /\ e = entry[p]
      BY <1>1, <2>3, <3>1 DEF WriteAuthority
    <3> QED
      BY <3>1, <3>2 DEF ComesIntoForce
  <2>4. CASE Undo(p) /\ authority' # authority
    <3>1. pc[p] = "undo" /\ authority = Changed(p) /\ authority' = held[p]
      BY <1>1, <2>4 DEF Undo, LedgerInv, AloneInv
    <3>2. op[p] # "allow" /\ e \in Matching(held[p], entry[p])
      BY <1>1, <3>1 DEF Changed
    <3> QED
      BY <3>1, <3>2 DEF ComesIntoForce
  <2> QED
    BY <2>2, <2>3, <2>4
<1>2. LedgerInv /\ [Next]_vars =>
        [~overlapped => \A e \in authority' \ authority : ComesIntoForce(e)]_vars
  BY <1>1
<1> QED
  BY LedgerInvHolds, <1>2, PTL DEF Spec, RemovedStaysRemoved
=============================================================================
