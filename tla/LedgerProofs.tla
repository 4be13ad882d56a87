---------------------------- MODULE LedgerProofs -----------------------------
(***************************************************************************)
(* Theorems about the two files of JSON lines.  ExecutionLedger, for any   *)
(* recorders, commands and number of runs: what the ledger supports was    *)
(* run, with success, and a recorded failure is not passed over while no   *)
(* line was broken.  DecisionLedger, for any writers, findings and number  *)
(* of events: what counts as overridden was detected, and while no line    *)
(* was broken every event leads back to its report.                        *)
(***************************************************************************)
EXTENDS ExecutionLedger, DecisionLedger, TLAPS

Entries == [id : Nat, command : ExecCommands, exit : {0, 1}]
Pieces  == [entry : Entries, part : {"whole", "begun", "rest"}]

LedgerTyped ==
    /\ lines \in Seq(Pieces)
    /\ log \in Nat /\ runs \in Nat /\ torn \in BOOLEAN
    /\ stage \in [Recorders -> Stages]
    /\ opened \in [Recorders -> Nat]
    /\ DOMAIN entry = Recorders
    /\ \A r \in Recorders : stage[r] \in {"looked", "ran", "open", "half"} => entry[r] \in Entries

\* Nobody has opened, or recorded in, a file that is yet to come.
FilesKnown ==
    /\ \A r \in Recorders : opened[r] <= log
    /\ \A d \in recorded : d.file \in Nat /\ d.file <= log

\* A recorder within a line has begun it in its file.
HalfWritten == \A r \in Recorders : stage[r] = "half" /\ opened[r] = log => lines # <<>>

\* While no line was broken, none begins within another one.
LinesApart == ~torn => \A i \in DOMAIN lines : lines[i].part = "begun" => LineBegins(lines, i - 1)

\* What is read was recorded, and what was recorded in this file is read.
ReadIsRecorded == \A e \in Readable(lines) : \E d \in recorded : d.entry = e
RecordedIsRead == ~torn => \A d \in recorded : d.file = log => d.entry \in Readable(lines)

IInv == LedgerTyped /\ FilesKnown /\ HalfWritten /\ LinesApart /\ ReadIsRecorded /\ RecordedIsRead

-----------------------------------------------------------------------------
(* Appending to a file of lines *)

\* Does piece j complete a line that parses?
Parses(f, j) ==
    \/ f[j].part = "whole" /\ LineBegins(f, j - 1)
    \/ /\ f[j].part = "rest" /\ j > 1
       /\ f[j - 1] = [entry |-> f[j].entry, part |-> "begun"]
       /\ LineBegins(f, j - 2)

LEMMA ReadableIs == ASSUME NEW f PROVE Readable(f) = {f[i].entry : i \in {j \in DOMAIN f : Parses(f, j)}}
BY DEF Readable, Parses

LEMMA AppendKeeps ==
  ASSUME NEW S, NEW f \in Seq(S), NEW p \in S
  PROVE  /\ DOMAIN Append(f, p) = DOMAIN f \cup {Len(f) + 1}
         /\ \A i \in DOMAIN f : Append(f, p)[i] = f[i]
         /\ Append(f, p)[Len(f) + 1] = p
         /\ \A i \in 0..Len(f) : LineBegins(Append(f, p), i) <=> LineBegins(f, i)
         /\ \A j \in DOMAIN f : Parses(Append(f, p), j) <=> Parses(f, j)
<1> DEFINE g == Append(f, p)
<1>1. /\ Len(f) \in Nat /\ DOMAIN f = 1..Len(f) /\ DOMAIN g = 1..Len(f) + 1
      /\ \A i \in 1..Len(f) : g[i] = f[i]
      /\ g[Len(f) + 1] = p
  OBVIOUS
<1> HIDE DEF g
<1>2. \A i \in 0..Len(f) : LineBegins(g, i) <=> LineBegins(f, i)
  BY <1>1 DEF LineBegins
<1>3. ASSUME NEW j \in DOMAIN f PROVE Parses(g, j) <=> Parses(f, j)
  <2>1. g[j] = f[j] /\ j - 1 \in 0..Len(f) /\ (j > 1 => g[j - 1] = f[j - 1] /\ j - 2 \in 0..Len(f))
    BY <1>1
  <2> QED
    BY <1>2, <2>1 DEF Parses
<1>4. DOMAIN g = DOMAIN f \cup {Len(f) + 1}
  BY <1>1
<1> QED
  BY <1>1, <1>2, <1>3, <1>4 DEF g

\* What can be read after one more piece was appended.
LEMMA ReadableAppend ==
  ASSUME NEW S, NEW f \in Seq(S), NEW p \in S
  PROVE  /\ Readable(f) \subseteq Readable(Append(f, p))
         /\ Readable(Append(f, p)) \subseteq Readable(f) \cup {p.entry}
         /\ p.part = "begun" => Readable(Append(f, p)) \subseteq Readable(f)
         /\ p.part = "whole" /\ LineBegins(f, Len(f)) => p.entry \in Readable(Append(f, p))
         /\ p.part = "rest" /\ f # <<>> /\ f[Len(f)] = Begun(p.entry) /\ LineBegins(f, Len(f) - 1)
              => p.entry \in Readable(Append(f, p))
<1> PICK g : g = Append(f, p)
  OBVIOUS
<1> PICK n \in Nat : n = Len(f)
  OBVIOUS
<1>1. /\ DOMAIN g = DOMAIN f \cup {n + 1} /\ DOMAIN f = 1..n
      /\ \A i \in DOMAIN f : g[i] = f[i]
      /\ g[n + 1] = p
      /\ LineBegins(g, n) <=> LineBegins(f, n)
      /\ n > 0 => (LineBegins(g, n - 1) <=> LineBegins(f, n - 1))
      /\ \A j \in DOMAIN f : Parses(g, j) <=> Parses(f, j)
  BY AppendKeeps
<1>2. \A e : e \in Readable(f) <=> \E j \in DOMAIN f : Parses(f, j) /\ f[j].entry = e
  BY ReadableIs
<1>3. \A e : e \in Readable(g) <=> \E j \in DOMAIN g : Parses(g, j) /\ g[j].entry = e
  BY ReadableIs
<1>4. Readable(f) \subseteq Readable(g)
  BY <1>1, <1>2, <1>3
<1>5. Readable(g) \subseteq Readable(f) \cup {p.entry}
  BY <1>1, <1>2, <1>3
<1>6. p.part = "begun" => ~Parses(g, n + 1)
  BY <1>1 DEF Parses
<1>7. p.part = "begun" => Readable(g) \subseteq Readable(f)
  BY <1>1, <1>2, <1>3, <1>6
<1>8. Parses(g, n + 1) => p.entry \in Readable(g)
  BY <1>1, <1>3
<1>9. n + 1 - 1 = n /\ n + 1 - 2 = n - 1
  OBVIOUS
<1>10. p.part = "whole" /\ LineBegins(f, n) => Parses(g, n + 1)
  BY <1>1, <1>9 DEF Parses
<1>11. p.part = "rest" /\ f # <<>> /\ f[n] = Begun(p.entry) /\ LineBegins(f, n - 1) => Parses(g, n + 1)
  <2> SUFFICES ASSUME p.part = "rest", f # <<>>, f[n] = Begun(p.entry), LineBegins(f, n - 1)
               PROVE  Parses(g, n + 1)
    OBVIOUS
  <2>1. n > 0 /\ n \in DOMAIN f
    BY <1>1
  <2>2. g[n] = [entry |-> p.entry, part |-> "begun"] /\ LineBegins(g, n - 1)
    BY <1>1, <2>1 DEF Begun
  <2>3. n + 1 > 1
    BY <2>1
  <2> QED
    BY <1>1, <1>9, <2>2, <2>3 DEF Parses
<1> QED
  BY <1>4, <1>5, <1>7, <1>8, <1>10, <1>11

-----------------------------------------------------------------------------
(* The recorders *)

LEMMA InitIInv == ExecInit => IInv
<1> SUFFICES ASSUME ExecInit PROVE IInv
  OBVIOUS
<1>1. LedgerTyped
  <2>1. lines \in Seq(Pieces)
    BY DEF ExecInit
  <2>2. torn \in BOOLEAN /\ 0 \in Nat
    BY DEF ExecInit
  <2> QED
    BY <2>1, <2>2 DEF ExecInit, LedgerTyped, Stages
<1>2. Readable(<<>>) = {}
  BY DEF Readable
<1>3. FilesKnown /\ HalfWritten /\ LinesApart /\ ReadIsRecorded /\ RecordedIsRead
  BY <1>2 DEF ExecInit, FilesKnown, HalfWritten, LinesApart, ReadIsRecorded, RecordedIsRead
<1> QED
  BY <1>1, <1>3 DEF IInv

\* The pieces that a recorder writes are pieces.
LEMMA PiecesTyped ==
  ASSUME LedgerTyped, NEW r \in Recorders, stage[r] \in {"open", "half"}
  PROVE  /\ entry[r] \in Entries
         /\ {Whole(entry[r]), Begun(entry[r]), Rest(entry[r])} \subseteq Pieces
BY DEF LedgerTyped, Whole, Begun, Rest, Pieces

\* A step that does not touch the ledger.
LEMMA LedgerUntouched ==
  ASSUME IInv, UNCHANGED <<lines, log, recorded>>, torn' = torn \/ torn' = TRUE
  PROVE  LinesApart' /\ ReadIsRecorded' /\ RecordedIsRead'
BY DEF IInv, LinesApart, ReadIsRecorded, RecordedIsRead

LEMMA LookInv == ASSUME IInv, NEW r \in Recorders, NEW c \in ExecCommands, Look(r, c) PROVE IInv'
<1>1. LinesApart' /\ ReadIsRecorded' /\ RecordedIsRead'
  BY LedgerUntouched DEF Look
<1>2. LedgerTyped'
  <2>1. runs + 1 \in Nat /\ [id |-> runs + 1, command |-> c, exit |-> 0] \in Entries
    BY DEF IInv, LedgerTyped, Entries
  <2> QED
    BY <2>1 DEF IInv, LedgerTyped, Look, At, Stages
<1>3. FilesKnown' /\ HalfWritten'
  BY DEF IInv, LedgerTyped, FilesKnown, HalfWritten, Look, At
<1> QED
  BY <1>1, <1>2, <1>3 DEF IInv

LEMMA RunInv == ASSUME IInv, NEW r \in Recorders, NEW exit \in {0, 1}, Run(r, exit) PROVE IInv'
<1>1. LinesApart' /\ ReadIsRecorded' /\ RecordedIsRead'
  BY LedgerUntouched DEF Run
<1>2. LedgerTyped'
  <2>1. stage[r] = "looked" /\ entry[r] \in Entries
    BY DEF IInv, LedgerTyped, Run, At
  <2>2. [entry[r] EXCEPT !.exit = exit] \in Entries
    BY <2>1 DEF Entries
  <2> QED
    BY <2>1, <2>2 DEF IInv, LedgerTyped, Run, At, Stages
<1>3. FilesKnown' /\ HalfWritten'
  BY DEF IInv, LedgerTyped, FilesKnown, HalfWritten, Run, At
<1> QED
  BY <1>1, <1>2, <1>3 DEF IInv

LEMMA OpenInv == ASSUME IInv, NEW r \in Recorders, Open(r) PROVE IInv'
<1>1. LinesApart' /\ ReadIsRecorded' /\ RecordedIsRead'
  BY LedgerUntouched DEF Open
<1>2. LedgerTyped'
  BY DEF IInv, LedgerTyped, Open, At, Stages
<1>3. FilesKnown' /\ HalfWritten'
  BY DEF IInv, LedgerTyped, FilesKnown, HalfWritten, Open, At
<1> QED
  BY <1>1, <1>2, <1>3 DEF IInv

LEMMA DieInv == ASSUME IInv, NEW r \in Recorders, Die(r) PROVE IInv'
<1>1. torn' = torn \/ torn' = TRUE
  BY DEF Die, IInv, LedgerTyped
<1>2. LinesApart' /\ ReadIsRecorded' /\ RecordedIsRead'
  BY <1>1, LedgerUntouched DEF Die
<1>3. LedgerTyped'
  BY <1>1 DEF IInv, LedgerTyped, Die, Stages
<1>4. FilesKnown' /\ HalfWritten'
  BY DEF IInv, LedgerTyped, FilesKnown, HalfWritten, Die
<1> QED
  BY <1>2, <1>3, <1>4 DEF IInv

LEMMA ClearInv == ASSUME IInv, Clear PROVE IInv'
<1>1. /\ lines' = <<>> /\ log' = log + 1 /\ torn' = FALSE /\ log \in Nat
      /\ UNCHANGED <<stage, entry, opened, runs, recorded>>
  BY DEF Clear, IInv, LedgerTyped
<1>2. \A n \in Nat : n <= log => n <= log + 1 /\ n # log + 1
  BY <1>1
<1>3. LedgerTyped'
  <2>1. <<>> \in Seq(Pieces) /\ FALSE \in BOOLEAN
    OBVIOUS
  <2>2. log + 1 \in Nat
    BY <1>1
  <2> QED
    BY <1>1, <2>1, <2>2 DEF IInv, LedgerTyped
<1>4. FilesKnown' /\ HalfWritten'
  BY <1>1, <1>2 DEF IInv, LedgerTyped, FilesKnown, HalfWritten
<1>5. Readable(lines') = {}
  BY <1>1 DEF Readable
<1>6. LinesApart' /\ ReadIsRecorded' /\ RecordedIsRead'
  BY <1>1, <1>2, <1>5 DEF IInv, FilesKnown, LinesApart, ReadIsRecorded, RecordedIsRead
<1> QED
  BY <1>3, <1>4, <1>6 DEF IInv

\* The lines stay apart when a piece is appended, if it begins a line or ends one.
LEMMA ApartAppend ==
  ASSUME NEW S, NEW f \in Seq(S), NEW p \in S,
         \A i \in DOMAIN f : f[i].part = "begun" => LineBegins(f, i - 1),
         p.part = "begun" => LineBegins(f, Len(f))
  PROVE  \A i \in DOMAIN Append(f, p) :
            Append(f, p)[i].part = "begun" => LineBegins(Append(f, p), i - 1)
<1> PICK g : g = Append(f, p)
  OBVIOUS
<1>1. /\ DOMAIN g = DOMAIN f \cup {Len(f) + 1} /\ \A i \in DOMAIN f : g[i] = f[i] /\ i - 1 \in 0..Len(f)
      /\ g[Len(f) + 1] = p /\ Len(f) + 1 - 1 = Len(f) /\ Len(f) \in 0..Len(f)
      /\ \A i \in 0..Len(f) : LineBegins(g, i) <=> LineBegins(f, i)
  BY AppendKeeps
<1> QED
  BY <1>1

LEMMA AppendWholeInv == ASSUME IInv, NEW r \in Recorders, AppendWhole(r) PROVE IInv'
<1> PICK e, o : e = entry[r] /\ o = opened[r]
  OBVIOUS
<1>1. /\ stage[r] = "open" /\ stage' = [stage EXCEPT ![r] = "idle"]
      /\ lines' = IF o = log THEN Append(lines, Whole(e)) ELSE lines
      /\ recorded' = recorded \cup {[entry |-> e, file |-> o]}
      /\ torn' = (torn \/ (o = log /\ ~LineBegins(lines, Len(lines))))
      /\ UNCHANGED <<log, entry, opened, runs>>
  BY DEF AppendWhole, At, Write, Closed
<1>2. /\ e \in Entries /\ Whole(e) \in Pieces /\ lines \in Seq(Pieces)
      /\ Whole(e).part = "whole" /\ Whole(e).entry = e
  BY <1>1, PiecesTyped DEF IInv, LedgerTyped, Whole
<1>3. o \in Nat /\ o <= log
  BY DEF IInv, LedgerTyped, FilesKnown
<1>4. lines' \in Seq(Pieces) /\ torn' \in BOOLEAN
  BY <1>1, <1>2 DEF IInv, LedgerTyped
<1>5. LedgerTyped'
  BY <1>1, <1>4 DEF IInv, LedgerTyped, Stages
<1>6. FilesKnown'
  BY <1>1, <1>3 DEF IInv, FilesKnown
<1>7. HalfWritten'
  <2>1. lines # <<>> => lines' # <<>>
    BY <1>1, <1>2
  <2> QED
    BY <1>1, <2>1 DEF IInv, LedgerTyped, HalfWritten
<1>8. CASE o = log
  <2> PICK f : f = lines
    OBVIOUS
  <2>1. lines' = Append(f, Whole(e)) /\ f \in Seq(Pieces)
    BY <1>1, <1>2, <1>8
  <2>2. LinesApart'
    <3>1. ~torn' => \A i \in DOMAIN f : f[i].part = "begun" => LineBegins(f, i - 1)
      BY <1>1 DEF IInv, LinesApart, LedgerTyped
    <3> QED
      BY <1>2, <2>1, <3>1, ApartAppend DEF LinesApart
  <2>3. /\ Readable(f) \subseteq Readable(lines') /\ Readable(lines') \subseteq Readable(f) \cup {e}
        /\ LineBegins(f, Len(f)) => e \in Readable(lines')
    BY <1>2, <2>1, ReadableAppend
  <2>4. ReadIsRecorded' /\ RecordedIsRead'
    <3>1. \A d \in recorded' : d \in recorded \/ d.entry = e
      BY <1>1
    <3>2. \E d \in recorded' : d.entry = e
      <4>1. PICK d : d = [entry |-> e, file |-> o]
        OBVIOUS
      <4>2. d \in recorded'
        BY <1>1, <4>1
      <4>3. d.entry = e
        BY <4>1
      <4> QED
        BY <4>2, <4>3
    <3>3. recorded \subseteq recorded' /\ log' = log /\ (~torn' => ~torn /\ LineBegins(f, Len(f)))
      BY <1>1, <1>8 DEF IInv, LedgerTyped
    <3>4. ReadIsRecorded'
      BY <2>3, <3>2, <3>3 DEF IInv, ReadIsRecorded
    <3>5. RecordedIsRead'
      BY <2>3, <3>1, <3>3 DEF IInv, RecordedIsRead
    <3> QED
      BY <3>4, <3>5
  <2> QED
    BY <1>5, <1>6, <1>7, <2>2, <2>4 DEF IInv
<1>9. CASE o # log
  <2>1. lines' = lines /\ log' = log /\ torn' = torn
    BY <1>1, <1>9 DEF IInv, LedgerTyped
  <2>2. LinesApart'
    BY <2>1 DEF IInv, LinesApart
  <2>3. ReadIsRecorded' /\ RecordedIsRead'
    <3>1. \A d \in recorded' : d \in recorded \/ d.file = o
      BY <1>1
    <3>2. recorded \subseteq recorded'
      BY <1>1
    <3> QED
      BY <1>9, <2>1, <3>1, <3>2 DEF IInv, ReadIsRecorded, RecordedIsRead
  <2> QED
    BY <1>5, <1>6, <1>7, <2>2, <2>3 DEF IInv
<1> QED
  BY <1>8, <1>9

LEMMA AppendBeginInv == ASSUME IInv, NEW r \in Recorders, AppendBegin(r) PROVE IInv'
<1> PICK e, o : e = entry[r] /\ o = opened[r]
  OBVIOUS
<1>1. /\ stage[r] = "open" /\ stage' = [stage EXCEPT ![r] = "half"]
      /\ lines' = IF o = log THEN Append(lines, Begun(e)) ELSE lines
      /\ torn' = (torn \/ (o = log /\ ~LineBegins(lines, Len(lines))))
      /\ UNCHANGED <<log, entry, opened, runs, recorded>>
  BY DEF AppendBegin, At, Write
<1>2. /\ e \in Entries /\ Begun(e) \in Pieces /\ lines \in Seq(Pieces)
      /\ Begun(e).part = "begun" /\ Begun(e).entry = e
  BY <1>1, PiecesTyped DEF IInv, LedgerTyped, Begun
<1>3. lines' \in Seq(Pieces) /\ torn' \in BOOLEAN
  BY <1>1, <1>2 DEF IInv, LedgerTyped
<1>4. LedgerTyped'
  BY <1>1, <1>2, <1>3 DEF IInv, LedgerTyped, Stages
<1>5. FilesKnown'
  BY <1>1 DEF IInv, FilesKnown
<1>6. HalfWritten'
  <2>1. lines # <<>> => lines' # <<>>
    BY <1>1, <1>2
  <2>2. o = log => lines' # <<>>
    BY <1>1, <1>2
  <2> QED
    BY <1>1, <2>1, <2>2 DEF IInv, LedgerTyped, HalfWritten
<1>7. CASE o = log
  <2> PICK f : f = lines
    OBVIOUS
  <2>1. lines' = Append(f, Begun(e)) /\ f \in Seq(Pieces)
    BY <1>1, <1>2, <1>7
  <2>2. LinesApart'
    <3>1. ~torn' => LineBegins(f, Len(f)) /\ \A i \in DOMAIN f : f[i].part = "begun" => LineBegins(f, i - 1)
      BY <1>1, <1>7 DEF IInv, LinesApart, LedgerTyped
    <3> QED
      BY <1>2, <2>1, <3>1, ApartAppend DEF LinesApart
  <2>3. Readable(lines') = Readable(f)
    <3>1. Readable(f) \subseteq Readable(lines') /\ Readable(lines') \subseteq Readable(f)
      BY <1>2, <2>1, ReadableAppend
    <3> QED
      BY <3>1
  <2>4. ReadIsRecorded' /\ RecordedIsRead'
    BY <1>1, <2>3 DEF IInv, ReadIsRecorded, RecordedIsRead, LedgerTyped
  <2> QED
    BY <1>4, <1>5, <1>6, <2>2, <2>4 DEF IInv
<1>8. CASE o # log
  <2>1. lines' = lines /\ torn' = torn
    BY <1>1, <1>8 DEF IInv, LedgerTyped
  <2>2. LinesApart' /\ ReadIsRecorded' /\ RecordedIsRead'
    BY <1>1, <2>1, LedgerUntouched
  <2> QED
    BY <1>4, <1>5, <1>6, <2>2 DEF IInv
<1> QED
  BY <1>7, <1>8

LEMMA AppendRestInv == ASSUME IInv, NEW r \in Recorders, AppendRest(r) PROVE IInv'
<1> PICK e, o : e = entry[r] /\ o = opened[r]
  OBVIOUS
<1>1. /\ stage[r] = "half" /\ stage' = [stage EXCEPT ![r] = "idle"]
      /\ lines' = IF o = log THEN Append(lines, Rest(e)) ELSE lines
      /\ recorded' = recorded \cup {[entry |-> e, file |-> o]}
      /\ torn' = (torn \/ (o = log /\ lines # <<>> /\ lines[Len(lines)] # Begun(e)))
      /\ UNCHANGED <<log, entry, opened, runs>>
  BY DEF AppendRest, At, Write, Closed
<1>2. /\ e \in Entries /\ Rest(e) \in Pieces /\ lines \in Seq(Pieces)
      /\ Rest(e).part = "rest" /\ Rest(e).entry = e
  BY <1>1, PiecesTyped DEF IInv, LedgerTyped, Rest
<1>3. o \in Nat /\ o <= log
  BY DEF IInv, LedgerTyped, FilesKnown
<1>4. lines' \in Seq(Pieces) /\ torn' \in BOOLEAN
  BY <1>1, <1>2 DEF IInv, LedgerTyped
<1>5. LedgerTyped'
  BY <1>1, <1>4 DEF IInv, LedgerTyped, Stages
<1>6. FilesKnown'
  BY <1>1, <1>3 DEF IInv, FilesKnown
<1>7. HalfWritten'
  <2>1. lines # <<>> => lines' # <<>>
    BY <1>1, <1>2
  <2> QED
    BY <1>1, <2>1 DEF IInv, LedgerTyped, HalfWritten
<1>8. CASE o = log
  <2> PICK f : f = lines
    OBVIOUS
  <2>1. lines' = Append(f, Rest(e)) /\ f \in Seq(Pieces) /\ f # <<>>
    BY <1>1, <1>2, <1>8 DEF IInv, HalfWritten
  <2>2. ~torn' => /\ f[Len(f)] = Begun(e)
                  /\ \A i \in DOMAIN f : f[i].part = "begun" => LineBegins(f, i - 1)
    BY <1>1, <1>8, <2>1 DEF IInv, LinesApart, LedgerTyped
  <2>3. LinesApart'
    BY <1>2, <2>1, <2>2, ApartAppend DEF LinesApart
  <2>4. ~torn' => LineBegins(f, Len(f) - 1)
    <3>1. Len(f) \in DOMAIN f
      BY <2>1
    <3> QED
      BY <2>2, <3>1 DEF Begun
  <2>5. /\ Readable(f) \subseteq Readable(lines') /\ Readable(lines') \subseteq Readable(f) \cup {e}
        /\ ~torn' => e \in Readable(lines')
    BY <1>2, <2>1, <2>2, <2>4, ReadableAppend
  <2>6. ReadIsRecorded' /\ RecordedIsRead'
    <3>1. \A d \in recorded' : d \in recorded \/ d.entry = e
      BY <1>1
    <3>2. \E d \in recorded' : d.entry = e
      <4>1. PICK d : d = [entry |-> e, file |-> o]
        OBVIOUS
      <4>2. d \in recorded'
        BY <1>1, <4>1
      <4>3. d.entry = e
        BY <4>1
      <4> QED
        BY <4>2, <4>3
    <3>3. recorded \subseteq recorded' /\ log' = log /\ (~torn' => ~torn)
      BY <1>1 DEF IInv, LedgerTyped
    <3>4. ReadIsRecorded'
      BY <2>5, <3>2, <3>3 DEF IInv, ReadIsRecorded
    <3>5. RecordedIsRead'
      BY <2>5, <3>1, <3>3 DEF IInv, RecordedIsRead
    <3> QED
      BY <3>4, <3>5
  <2> QED
    BY <1>5, <1>6, <1>7, <2>3, <2>6 DEF IInv
<1>9. CASE o # log
  <2>1. lines' = lines /\ log' = log /\ torn' = torn
    BY <1>1, <1>9 DEF IInv, LedgerTyped
  <2>2. LinesApart'
    BY <2>1 DEF IInv, LinesApart
  <2>3. ReadIsRecorded' /\ RecordedIsRead'
    <3>1. \A d \in recorded' : d \in recorded \/ d.file = o
      BY <1>1
    <3>2. recorded \subseteq recorded'
      BY <1>1
    <3> QED
      BY <1>9, <2>1, <3>1, <3>2 DEF IInv, ReadIsRecorded, RecordedIsRead
  <2> QED
    BY <1>5, <1>6, <1>7, <2>2, <2>3 DEF IInv
<1> QED
  BY <1>8, <1>9

LEMMA UnchangedInv == ASSUME IInv, UNCHANGED execVars PROVE IInv'
<1>1. LinesApart' /\ ReadIsRecorded' /\ RecordedIsRead'
  BY LedgerUntouched DEF execVars
<1>2. LedgerTyped' /\ FilesKnown' /\ HalfWritten'
  BY DEF IInv, LedgerTyped, FilesKnown, HalfWritten, execVars
<1> QED
  BY <1>1, <1>2 DEF IInv

LEMMA Invariance == ExecSpec => []IInv
<1>1. IInv /\ [ExecNext]_execVars => IInv'
  BY LookInv, RunInv, OpenInv, AppendWholeInv, AppendBeginInv, AppendRestInv, DieInv, ClearInv,
     UnchangedInv DEF ExecNext, Quiet
<1> QED
  BY <1>1, InitIInv, PTL DEF ExecSpec

\* The runs are numbered, and nobody has opened a file that is yet to come.
Counted ==
    /\ runs \in 0..MaxRuns
    /\ \A r \in Recorders : /\ entry[r].id \in 0..runs
                            /\ stage[r] \in {"looked", "ran", "open", "half"} => entry[r].id > 0
    /\ \A i \in DOMAIN lines : lines[i].entry.id \in 1..runs

LEMMA AppendCounted ==
  ASSUME IInv, Counted, NEW r \in Recorders, stage[r] \in {"open", "half"}, NEW piece \in Pieces,
         piece.entry = entry[r], Write(r, piece), UNCHANGED runs
  PROVE  \A i \in DOMAIN lines' : lines'[i].entry.id \in 1..runs'
<1>1. lines \in Seq(Pieces) /\ piece.entry.id \in 1..runs /\ runs' = runs
  <2>1. runs \in Nat /\ lines \in Seq(Pieces)
    BY DEF IInv, LedgerTyped
  <2>2. entry[r].id \in 0..runs
    BY DEF Counted
  <2>3. entry[r].id > 0
    BY DEF Counted
  <2> QED
    BY <2>1, <2>2, <2>3
<1>2. CASE lines' = lines
  BY <1>1, <1>2 DEF Counted
<1>3. CASE lines' = Append(lines, piece)
  <2>1. \A i \in DOMAIN lines' : \/ i \in DOMAIN lines /\ lines'[i] = lines[i]
                                 \/ lines'[i] = piece
    BY <1>1, <1>3
  <2> QED
    BY <1>1, <2>1 DEF Counted
<1> QED
  BY <1>2, <1>3 DEF Write

LEMMA ExecTyped == ExecSpec => []ExecTypeOK
<1>1. ExecInit => Counted
  BY RecorderAssumption DEF ExecInit, Counted, NoEntry
<1>2. ASSUME IInv, Counted, [ExecNext]_execVars PROVE Counted'
  <2>1. /\ runs \in 0..MaxRuns /\ runs \in Nat /\ DOMAIN entry = Recorders
        /\ stage \in [Recorders -> Stages] /\ lines \in Seq(Pieces)
        /\ \A q \in Recorders : /\ entry[q].id \in 0..runs
                                /\ stage[q] \in {"looked", "ran", "open", "half"} =>
                                       entry[q].id > 0 /\ entry[q] \in Entries
        /\ \A i \in DOMAIN lines : lines[i].entry.id \in 1..runs
    <3>1. LedgerTyped
      BY <1>2 DEF IInv
    <3>2. /\ runs \in Nat /\ DOMAIN entry = Recorders
          /\ stage \in [Recorders -> Stages] /\ lines \in Seq(Pieces)
      BY <3>1 DEF LedgerTyped
    <3>3. runs \in 0..MaxRuns /\ \A i \in DOMAIN lines : lines[i].entry.id \in 1..runs
      BY <1>2 DEF Counted
    <3>4. ASSUME NEW q \in Recorders
          PROVE  /\ entry[q].id \in 0..runs
                 /\ stage[q] \in {"looked", "ran", "open", "half"} =>
                        entry[q].id > 0 /\ entry[q] \in Entries
      <4>1. entry[q].id \in 0..runs
        BY <1>2 DEF Counted
      <4>2. stage[q] \in {"looked", "ran", "open", "half"} => entry[q].id > 0
        BY <1>2 DEF Counted
      <4>3. stage[q] \in {"looked", "ran", "open", "half"} => entry[q] \in Entries
        BY <3>1 DEF LedgerTyped
      <4> QED
        BY <4>1, <4>2, <4>3
    <3> QED
      BY <3>2, <3>3, <3>4
  <2>2. ASSUME NEW r \in Recorders, NEW c \in ExecCommands, Look(r, c) PROVE Counted'
    <3>1. /\ runs' = runs + 1 /\ runs < MaxRuns /\ lines' = lines
          /\ stage' = [stage EXCEPT ![r] = "looked"]
          /\ entry' = [entry EXCEPT ![r] = [id |-> runs + 1, command |-> c, exit |-> 0]]
      BY <2>2 DEF Look, At
    <3>2. runs' \in 0..MaxRuns
      BY <2>1, <3>1, RecorderAssumption
    <3>3. ASSUME NEW q \in Recorders
          PROVE  /\ entry'[q].id \in 0..runs'
                 /\ stage'[q] \in {"looked", "ran", "open", "half"} => entry'[q].id > 0
      <4>1. CASE q = r
        BY <2>1, <3>1, <4>1
      <4>2. CASE q # r
        BY <2>1, <3>1, <4>2
      <4> QED
        BY <4>1, <4>2
    <3>4. \A i \in DOMAIN lines' : lines'[i].entry.id \in 1..runs'
      BY <2>1, <3>1
    <3> QED
      BY <3>2, <3>3, <3>4 DEF Counted
  <2>3. ASSUME NEW r \in Recorders, NEW exit \in {0, 1}, Run(r, exit) PROVE Counted'
    <3>1. /\ runs' = runs /\ lines' = lines
          /\ stage[r] = "looked" /\ stage' = [stage EXCEPT ![r] = "ran"]
          /\ entry' = [entry EXCEPT ![r] = [entry[r] EXCEPT !.exit = exit]]
      BY <2>1, <2>3 DEF Run, At
    <3>2. entry[r] \in Entries
      BY <2>1, <3>1
    <3>3. entry'[r].id = entry[r].id
      BY <2>1, <3>1, <3>2 DEF Entries
    <3>4. ASSUME NEW q \in Recorders
          PROVE  /\ entry'[q].id \in 0..runs'
                 /\ stage'[q] \in {"looked", "ran", "open", "half"} => entry'[q].id > 0
      <4>1. CASE q = r
        BY <2>1, <3>1, <3>3, <4>1
      <4>2. CASE q # r
        BY <2>1, <3>1, <4>2
      <4> QED
        BY <4>1, <4>2
    <3> QED
      BY <2>1, <3>1, <3>4 DEF Counted
  <2>4. ASSUME NEW r \in Recorders, Open(r) \/ Die(r) PROVE Counted'
    <3>1. /\ runs' = runs /\ lines' = lines /\ entry' = entry
          /\ \/ stage[r] = "ran" /\ stage' = [stage EXCEPT ![r] = "open"]
             \/ stage' = [stage EXCEPT ![r] = "dead"]
      BY <2>4 DEF Open, Die, At
    <3> QED
      BY <2>1, <3>1 DEF Counted
  <2>5. ASSUME NEW r \in Recorders, AppendWhole(r) \/ AppendBegin(r) \/ AppendRest(r) PROVE Counted'
    <3>1. /\ runs' = runs /\ entry' = entry /\ stage[r] \in {"open", "half"}
          /\ \/ stage[r] = "open" /\ stage' = [stage EXCEPT ![r] = "half"]
             \/ stage' = [stage EXCEPT ![r] = "idle"]
      BY <2>5 DEF AppendWhole, AppendBegin, AppendRest, At
    <3>2. PICK piece \in Pieces : piece.entry = entry[r] /\ Write(r, piece)
      <4>1. entry[r] \in Entries
        BY <2>1, <3>1
      <4>2. /\ Whole(entry[r]) \in Pieces /\ Whole(entry[r]).entry = entry[r]
            /\ Begun(entry[r]) \in Pieces /\ Begun(entry[r]).entry = entry[r]
            /\ Rest(entry[r]) \in Pieces /\ Rest(entry[r]).entry = entry[r]
        BY <4>1 DEF Whole, Begun, Rest, Pieces
      <4> QED
        BY <2>5, <4>2 DEF AppendWhole, AppendBegin, AppendRest
    <3>3. \A i \in DOMAIN lines' : lines'[i].entry.id \in 1..runs'
      BY <1>2, <3>1, <3>2, AppendCounted
    <3> QED
      BY <2>1, <3>1, <3>3 DEF Counted
  <2>6. CASE Clear
    BY <2>1, <2>6 DEF Clear, Counted
  <2>7. CASE UNCHANGED execVars
    BY <2>1, <2>7 DEF execVars, Counted
  <2> QED
    BY <1>2, <2>2, <2>3, <2>4, <2>5, <2>6, <2>7 DEF ExecNext, Quiet
<1>3. ASSUME IInv, Counted PROVE ExecTypeOK
  <2>1. runs \in 0..MaxRuns /\ runs \in Nat /\ MaxRuns \in Nat
    BY <1>3, RecorderAssumption DEF IInv, LedgerTyped, Counted
  <2>2. ASSUME NEW r \in Recorders PROVE entry[r].id \in 0..MaxRuns
    <3>1. entry[r].id \in 0..runs
      BY <1>3 DEF Counted
    <3> QED
      BY <2>1, <3>1
  <2>3. \A i \in DOMAIN lines : lines[i].entry.id \in 1..MaxRuns
    BY <1>3, <2>1 DEF Counted
  <2> QED
    BY <1>3, <2>1, <2>2, <2>3 DEF IInv, LedgerTyped, FilesKnown, ExecTypeOK
<1> QED
  BY <1>1, <1>2, <1>3, InitIInv, Invariance, PTL DEF ExecSpec

-----------------------------------------------------------------------------
(* What the ledger is evidence of *)

\* A claim is supported when a run answers to it and all that do succeeded.
LEMMA SupportedIs ==
  ASSUME NEW claim, Supported(claim)
  PROVE  {e.exit : e \in Matching(claim)} = {0}
BY DEF Supported, Evidence

\* EvidenceIsReal, for any recorders and commands: whoever dies, meets another
\* one or clears the ledger, what it supports was run with success, and a
\* recorded failure counts as long as no line was broken.
THEOREM EvidenceCannotBeMadeUp == ExecSpec => []EvidenceIsReal
<1>1. IInv => SupportIsReal
  <2> SUFFICES ASSUME IInv, NEW claim \in ExecCommands, Supported(claim)
               PROVE  \E d \in recorded : d.entry.command \in Answers[claim] /\ d.entry.exit = 0
    BY DEF SupportIsReal
  <2>1. PICK e \in Matching(claim) : e.exit = 0
    BY SupportedIs
  <2>2. e \in Readable(lines) /\ e.command \in Answers[claim]
    BY DEF Matching
  <2> QED
    BY <2>1, <2>2 DEF IInv, ReadIsRecorded
<1>2. IInv => FailuresCount
  <2> SUFFICES ASSUME IInv, ~torn, NEW d \in recorded, d.file = log, d.entry.exit # 0,
                      NEW claim \in ExecCommands, d.entry.command \in Answers[claim], Supported(claim)
               PROVE  FALSE
    BY DEF FailuresCount
  <2>1. d.entry \in Matching(claim)
    BY DEF IInv, RecordedIsRead, Matching
  <2>2. d.entry.exit \in {e.exit : e \in Matching(claim)}
    BY <2>1
  <2> QED
    BY <2>2, SupportedIs
<1>3. IInv /\ ExecTypeOK => EvidenceIsReal
  BY <1>1, <1>2 DEF EvidenceIsReal
<1> QED
  BY <1>3, Invariance, ExecTyped, PTL

-----------------------------------------------------------------------------
(* DecisionLedger *)

EventSet ==
    [id : Nat, type : {"report_created", "fail_detected", "override_recorded"}, parent : Nat,
     finding : Findings \cup {"none"}, authority : Authorities, expires : {None, 1}]
EventPieces == [entry : EventSet, part : {"whole", "begun", "rest"}]

DecisionTyped ==
    /\ events \in Seq(EventPieces) /\ appended \subseteq EventSet
    /\ pending \in [Writers -> Seq(EventSet)] /\ \A w \in Writers : Len(pending[w]) <= 3
    /\ begun \in [Writers -> BOOLEAN]
    /\ \A w \in Writers : begun[w] => pending[w] # <<>> /\ events # <<>>
    /\ created \in 0..MaxEvents /\ now \in {0, 1} /\ split \in BOOLEAN

\* The events that were made and not lost.
Made == appended \cup UNION {{pending[w][k] : k \in DOMAIN pending[w]} : w \in Writers}

\* An event_id names one event.
Named(made) == \A e, f \in made : e.id = f.id => e = f
Numbered == Named(Made) /\ \A e \in Made : e.id \in 1..created

IsReport(p, e) == p.id = e.parent /\ p.type = "report_created"
IsFailure(f, e) == f.id = e.parent /\ f.type = "fail_detected" /\ f.finding = e.finding

\* The parent of an event was made before it, and an override was made only of
\* a failure that could be read.
Descends(e) ==
    /\ e.type = "report_created" => e.parent = None
    /\ e.type = "override_recorded" => Eligible(e) /\ \E f \in ReadEvents : IsFailure(f, e)
ParentsFirst ==
    /\ \A e \in Made : Descends(e)
    /\ \A e \in appended : e.type = "fail_detected" => \E p \in appended : IsReport(p, e)
    /\ \A w \in Writers : \A k \in DOMAIN pending[w] :
         pending[w][k].type = "fail_detected" =>
            \/ \E p \in appended : IsReport(p, pending[w][k])
            \/ \E j \in 1..(k - 1) : IsReport(pending[w][j], pending[w][k])

\* What is read was appended; while no line was broken, what was appended is read.
AppendedIsRead ==
    /\ ReadEvents \subseteq appended
    /\ ~split => appended \subseteq ReadEvents
    /\ ~split => \A i \in DOMAIN events : events[i].part = "begun" => LineBegins(events, i - 1)

DecisionInv == DecisionTyped /\ Numbered /\ ParentsFirst /\ AppendedIsRead

LEMMA DecisionBegins == ASSUME DecisionInit PROVE DecisionInv
<1>1. /\ events = <<>> /\ appended = {} /\ created = 0 /\ now = 0 /\ split = FALSE
      /\ pending = [w \in Writers |-> <<>>] /\ begun = [w \in Writers |-> FALSE]
  BY DEF DecisionInit
<1>2. DecisionTyped
  <2>1. <<>> \in Seq(EventPieces) /\ <<>> \in Seq(EventSet) /\ Len(<<>>) = 0
    OBVIOUS
  <2>2. split \in BOOLEAN
    BY <1>1
  <2> QED
    BY <1>1, <2>1, <2>2, DecisionAssumption DEF DecisionTyped
<1>3. Made = {} /\ \A w \in Writers : DOMAIN pending[w] = {}
  BY <1>1 DEF Made
<1>4. ReadEvents = {} /\ DOMAIN events = {}
  BY <1>1 DEF ReadEvents, Readable
<1> QED
  BY <1>1, <1>2, <1>3, <1>4 DEF DecisionInv, Numbered, Named, ParentsFirst, AppendedIsRead

LEMMA MadeIs ==
  /\ appended \subseteq Made
  /\ \A w \in Writers : \A k \in DOMAIN pending[w] : pending[w][k] \in Made
BY DEF Made

\* A step that makes nothing, and after which no less is read.
LEMMA NothingMade ==
  ASSUME DecisionInv, Made' \subseteq Made, created' = created, ReadEvents \subseteq ReadEvents'
  PROVE  Numbered' /\ \A e \in Made' : Descends(e)'
<1>1. Numbered'
  BY DEF DecisionInv, Numbered, Named
<1>2. ASSUME NEW e \in Made' PROVE Descends(e)'
  <2>1. Descends(e)
    BY DEF DecisionInv, ParentsFirst
  <2> QED
    BY <2>1 DEF Descends
<1> QED
  BY <1>1, <1>2

\* A report and its errors, or an override, are made by a writer that has
\* nothing else to append.
LEMMA Making ==
  ASSUME DecisionInv, NEW w \in Writers, pending[w] = <<>>, NEW list \in Seq(EventSet),
         Len(list) <= 3, pending' = [pending EXCEPT ![w] = list],
         created' \in created..MaxEvents,
         UNCHANGED <<events, begun, appended, now, split>>,
         \A k \in DOMAIN list :
            /\ list[k].id \in (created + 1)..created' /\ Descends(list[k])
            /\ \A j \in DOMAIN list : list[j].id = list[k].id => list[j] = list[k]
            /\ list[k].type = "fail_detected" => \E j \in 1..(k - 1) : IsReport(list[j], list[k])
  PROVE  DecisionInv'
<1>1. /\ pending' \in [Writers -> Seq(EventSet)] /\ pending'[w] = list
      /\ \A v \in Writers : v # w => pending'[v] = pending[v]
      /\ ReadEvents' = ReadEvents /\ ~begun[w]
  BY DEF DecisionInv, DecisionTyped, ReadEvents
<1>2. created \in Nat /\ created' \in 0..MaxEvents /\ created' >= created
  BY DecisionAssumption DEF DecisionInv, DecisionTyped
<1>3. DecisionTyped'
  BY <1>1, <1>2 DEF DecisionInv, DecisionTyped
<1>4. \A e \in Made' : e \in Made \/ \E k \in DOMAIN list : e = list[k]
  BY <1>1 DEF Made
<1>5. Numbered'
  <2>1. \A e \in Made : e.id \in 1..created
    BY DEF DecisionInv, Numbered
  <2>2. \A e \in Made' : e.id \in 1..created'
    BY <1>2, <1>4, <2>1
  <2>3. \A e \in Made : \A k \in DOMAIN list : e.id # list[k].id
    BY <1>2, <2>1
  <2>4. Named(Made')
    BY <1>4, <2>3 DEF DecisionInv, Numbered, Named
  <2> QED
    BY <2>2, <2>4 DEF Numbered, Named
<1>6. ParentsFirst'
  <2>1. \A e \in Made' : Descends(e)
    BY <1>4 DEF DecisionInv, ParentsFirst
  <2>2. \A e : Descends(e) => Descends(e)'
    BY <1>1 DEF Descends
  <2>3. ASSUME NEW v \in Writers, NEW k \in DOMAIN pending'[v],
               pending'[v][k].type = "fail_detected"
        PROVE  \/ \E p \in appended : IsReport(p, pending'[v][k])
               \/ \E j \in 1..(k - 1) : IsReport(pending'[v][j], pending'[v][k])
    <3>1. CASE v = w
      BY <1>1, <2>3, <3>1
    <3>2. CASE v # w
      BY <1>1, <2>3, <3>2 DEF DecisionInv, ParentsFirst
    <3> QED
      BY <3>1, <3>2
  <2>4. \A e \in Made' : Descends(e)'
    BY <2>1, <2>2
  <2>5. appended' = appended
    OBVIOUS
  <2> QED
    BY <2>3, <2>4, <2>5 DEF DecisionInv, ParentsFirst, IsReport
<1>7. AppendedIsRead'
  BY <1>1 DEF DecisionInv, AppendedIsRead
<1> QED
  BY <1>3, <1>5, <1>6, <1>7 DEF DecisionInv

LEMMA RecordReportInv ==
  ASSUME DecisionInv, NEW w \in Writers, NEW n \in 0..2, NEW errors \in [1..n -> Errors],
         RecordReport(w, errors)
  PROVE  DecisionInv'
<1> DEFINE list == ReportEvents(created + 1, errors)
           report == Event(created + 1, "report_created", None, "none", "repository", None)
           fails == [i \in 1..Len(errors) |-> Event(created + 1 + i, "fail_detected", created + 1,
                                                    errors[i].finding, errors[i].authority, None)]
<1>1. /\ pending[w] = <<>> /\ pending' = [pending EXCEPT ![w] = list]
      /\ created' = created + 1 + Len(errors) /\ created' <= MaxEvents
      /\ UNCHANGED <<events, begun, appended, now, split>>
  BY DEF RecordReport
<1>2. Len(errors) = n /\ n \in Nat /\ n <= 2 /\ created \in Nat
  BY DecisionAssumption DEF DecisionInv, DecisionTyped
<1>3. report \in EventSet
  BY <1>2 DEF Event, EventSet, Authorities, None
<1>4. fails \in [1..n -> EventSet]
  <2>1. ASSUME NEW i \in 1..n
        PROVE  Event(created + 1 + i, "fail_detected", created + 1, errors[i].finding,
                     errors[i].authority, None) \in EventSet
    <3>1. errors[i] \in Errors
      BY <2>1
    <3> QED
      BY <1>2, <3>1 DEF Event, EventSet, Errors, None
  <2> QED
    BY <1>2, <2>1
<1>5. list = <<report>> \o fails
  BY DEF ReportEvents
<1>6. /\ list \in Seq(EventSet) /\ Len(list) = n + 1 /\ list[1] = report
      /\ \A k \in 2..(n + 1) : list[k] = fails[k - 1]
  <2>1. <<report>> \in Seq(EventSet) /\ fails \in Seq(EventSet) /\ Len(fails) = n
    BY <1>2, <1>3, <1>4
  <2> HIDE DEF fails, report
  <2> QED
    BY <1>2, <1>5, <2>1
<1>7. \A k \in 2..(n + 1) : list[k] = Event(created + k, "fail_detected", created + 1,
                                            errors[k - 1].finding, errors[k - 1].authority, None)
  <2>1. ASSUME NEW k \in 2..(n + 1)
        PROVE  k - 1 \in 1..Len(errors) /\ created + 1 + (k - 1) = created + k
    BY <1>2
  <2> QED
    BY <1>6, <2>1
<1> HIDE DEF list
<1>8. /\ list[1].id = created + 1 /\ list[1].type = "report_created" /\ list[1].parent = None
      /\ \A k \in 2..(n + 1) : /\ list[k].id = created + k /\ list[k].type = "fail_detected"
                               /\ list[k].parent = created + 1
  <2>1. list[1] = Event(created + 1, "report_created", None, "none", "repository", None)
    BY <1>6
  <2>2. \A id, type, parent, finding, authority, expires :
          LET e == Event(id, type, parent, finding, authority, expires)
          IN e.id = id /\ e.type = type /\ e.parent = parent
    BY DEF Event
  <2> HIDE DEF report, fails
  <2> QED
    BY <1>7, <2>1, <2>2
<1>9. DOMAIN list = 1..(n + 1) /\ \A k \in 1..(n + 1) : k = 1 \/ k \in 2..(n + 1)
  BY <1>2, <1>6
<1>10. \A k \in DOMAIN list : list[k].id = created + k /\ k \in Nat
  BY <1>8, <1>9
<1>11. ASSUME NEW k \in DOMAIN list
       PROVE  /\ list[k].id \in (created + 1)..created' /\ Descends(list[k])
              /\ \A j \in DOMAIN list : list[j].id = list[k].id => list[j] = list[k]
              /\ list[k].type = "fail_detected" => \E j \in 1..(k - 1) : IsReport(list[j], list[k])
  <2>1. list[k].id \in (created + 1)..created'
    BY <1>1, <1>2, <1>9, <1>10
  <2>2. Descends(list[k])
    BY <1>8, <1>9 DEF Descends
  <2>3. \A j \in DOMAIN list : list[j].id = list[k].id => list[j] = list[k]
    BY <1>2, <1>10
  <2>4. list[k].type = "fail_detected" => k \in 2..(n + 1)
    BY <1>8, <1>9
  <2>5. k \in 2..(n + 1) => 1 \in 1..(k - 1) /\ IsReport(list[1], list[k])
    BY <1>2, <1>8 DEF IsReport
  <2> QED
    BY <2>1, <2>2, <2>3, <2>4, <2>5
<1>12. created' \in created..MaxEvents
  BY <1>1, <1>2, DecisionAssumption
<1>13. Len(list) <= 3
  BY <1>2, <1>6
<1> QED
  BY <1>1, <1>6, <1>11, <1>12, <1>13, Making

\* The event that is named was read, and what was read stays readable.
LEMMA OverrideInv ==
  ASSUME DecisionInv, NEW w \in Writers, NEW error \in Errors, NEW event \in ReadEvents,
         NEW expires \in {None, 1}, Override(w, error, event, expires)
  PROVE  DecisionInv'
<1> DEFINE new == Event(created + 1, "override_recorded", event.id, error.finding,
                        error.authority, expires)
           list == <<new>>
<1>1. /\ pending[w] = <<>> /\ pending' = [pending EXCEPT ![w] = list] /\ created < MaxEvents
      /\ created' = created + 1 /\ Eligible(error) /\ event.type = "fail_detected"
      /\ event.finding = error.finding
      /\ UNCHANGED <<events, begun, appended, now, split>>
  BY DEF Override, Linked
<1>2. created \in Nat /\ event \in EventSet
  BY DecisionAssumption DEF DecisionInv, DecisionTyped, AppendedIsRead
<1>3. new \in EventSet
  BY <1>2 DEF Event, EventSet, Errors
<1>4. /\ new.id = created + 1 /\ new.type = "override_recorded" /\ new.parent = event.id
      /\ new.finding = error.finding /\ new.authority = error.authority
  BY DEF Event
<1> HIDE DEF new
<1>5. Descends(new)
  BY <1>1, <1>4 DEF Descends, Eligible, IsFailure
<1>6. list \in Seq(EventSet) /\ Len(list) = 1 /\ DOMAIN list = {1} /\ list[1] = new
  BY <1>3
<1> HIDE DEF list
<1>7. created' \in created..MaxEvents /\ new.id \in (created + 1)..created'
  BY <1>1, <1>2, <1>4, DecisionAssumption
<1>8. \A k \in DOMAIN list :
        /\ list[k].id \in (created + 1)..created' /\ Descends(list[k])
        /\ \A j \in DOMAIN list : list[j].id = list[k].id => list[j] = list[k]
        /\ list[k].type = "fail_detected" => \E j \in 1..(k - 1) : IsReport(list[j], list[k])
  BY <1>4, <1>5, <1>6, <1>7
<1>9. Len(list) <= 3
  BY <1>6
<1> QED
  BY <1>1, <1>6, <1>7, <1>8, <1>9, Making

\* The append of an event returns: it goes from what is pending to what is there.
LEMMA AppendReturns ==
  ASSUME DecisionInv, NEW w \in Writers, pending[w] # <<>>, Appended(w), created' = created,
         ReadEvents \subseteq ReadEvents'
  PROVE  /\ pending' \in [Writers -> Seq(EventSet)] /\ \A v \in Writers : Len(pending'[v]) <= 3
         /\ \A v \in Writers \ {w} : pending'[v] = pending[v]
         /\ appended' = appended \cup {pending[w][1]} /\ pending[w][1] \in EventSet
         /\ Numbered' /\ ParentsFirst'
<1> DEFINE q == pending[w]
           rest == SubSeq(q, 2, Len(q))
<1>1. /\ pending' = [pending EXCEPT ![w] = rest] /\ appended' = appended \cup {q[1]}
  BY DEF Appended
<1>2. /\ pending \in [Writers -> Seq(EventSet)] /\ q \in Seq(EventSet) /\ Len(q) <= 3
      /\ q # <<>> /\ \A v \in Writers : Len(pending[v]) <= 3
  BY DEF DecisionInv, DecisionTyped
<1> HIDE DEF q
<1>3. /\ q[1] \in EventSet /\ 1 \in DOMAIN q /\ rest \in Seq(EventSet) /\ Len(rest) = Len(q) - 1
      /\ \A k \in DOMAIN rest : rest[k] = q[k + 1] /\ k + 1 \in DOMAIN q
  <2> HIDE DEF rest
  <2>1. Len(q) \in Nat \ {0} /\ DOMAIN q = 1..Len(q)
    BY <1>2
  <2>2. q[1] \in EventSet /\ 1 \in DOMAIN q
    BY <1>2, <2>1
  <2>3. /\ rest \in Seq(EventSet) /\ Len(rest) = Len(q) - 1
        /\ \A k \in 1..Len(rest) : rest[k] = q[k + 1]
    <3>1. 2 \in 1..(Len(q) + 1) /\ Len(q) \in 1..Len(q)
      BY <2>1
    <3>2. \A k \in 2..Len(q) : q[k] \in EventSet
      BY <1>2, <2>1
    <3>3. /\ SubSeq(q, 2, Len(q)) \in Seq(EventSet) /\ Len(SubSeq(q, 2, Len(q))) = Len(q) - 1
          /\ \A k \in 1..(Len(q) - 1) : SubSeq(q, 2, Len(q))[k] = q[k + 1]
      BY <1>2, <2>1, <3>2
    <3> QED
      BY <3>3, <2>1 DEF rest
  <2>4. DOMAIN rest = 1..(Len(q) - 1)
    BY <2>3
  <2> QED
    BY <2>1, <2>2, <2>3, <2>4
<1> HIDE DEF rest
<1>4. /\ pending' \in [Writers -> Seq(EventSet)] /\ pending'[w] = rest
      /\ \A v \in Writers \ {w} : pending'[v] = pending[v]
  BY <1>1, <1>2, <1>3
<1>5. \A v \in Writers : Len(pending'[v]) <= 3
  <2>1. Len(q) \in Nat /\ Len(rest) = Len(q) - 1 /\ Len(q) <= 3
    BY <1>2, <1>3
  <2>2. Len(rest) <= 3
    BY <2>1
  <2>3. ASSUME NEW v \in Writers PROVE Len(pending'[v]) <= 3
    <3>1. CASE v = w
      BY <1>4, <2>2, <3>1
    <3>2. CASE v # w
      BY <1>2, <1>4, <3>2
    <3> QED
      BY <3>1, <3>2
  <2> QED
    BY <2>3
<1>6. Made' \subseteq Made
  <2>1. ASSUME NEW v \in Writers, NEW k \in DOMAIN pending'[v] PROVE pending'[v][k] \in Made
    <3>1. CASE v = w
      BY <1>3, <1>4, <2>1, <3>1, MadeIs DEF q
    <3>2. CASE v # w
      BY <1>4, <2>1, <3>2, MadeIs
    <3> QED
      BY <3>1, <3>2
  <2>2. appended' \subseteq Made
    BY <1>1, <1>3, MadeIs DEF q
  <2> QED
    BY <2>1, <2>2 DEF Made
<1>7. Numbered' /\ \A e \in Made' : Descends(e)'
  BY <1>6, NothingMade
<1>8. \A k \in DOMAIN q : q[k].type = "fail_detected" =>
            \/ \E p \in appended : IsReport(p, q[k])
            \/ \E j \in 1..(k - 1) : IsReport(q[j], q[k])
  BY DEF DecisionInv, ParentsFirst, q
<1>9. \A e \in appended' : e.type = "fail_detected" => \E p \in appended' : IsReport(p, e)
  <2>1. \A e \in appended : e.type = "fail_detected" => \E p \in appended' : IsReport(p, e)
    BY <1>1 DEF DecisionInv, ParentsFirst
  <2>2. q[1].type = "fail_detected" => \E p \in appended : IsReport(p, q[1])
    BY <1>3, <1>8
  <2> QED
    BY <1>1, <2>1, <2>2
<1>10. ASSUME NEW v \in Writers, NEW k \in DOMAIN pending'[v],
              pending'[v][k].type = "fail_detected"
       PROVE  \/ \E p \in appended' : IsReport(p, pending'[v][k])
              \/ \E j \in 1..(k - 1) : IsReport(pending'[v][j], pending'[v][k])
  <2>1. CASE v # w
    BY <1>1, <1>4, <1>10, <2>1 DEF DecisionInv, ParentsFirst
  <2>2. CASE v = w
    <3>1. k \in DOMAIN rest /\ pending'[v][k] = q[k + 1] /\ k + 1 \in DOMAIN q /\ k \in Nat \ {0}
      BY <1>3, <1>4, <2>2
    <3>2. CASE \E p \in appended : IsReport(p, q[k + 1])
      BY <1>1, <3>1, <3>2
    <3>3. CASE \E j \in 1..(k + 1 - 1) : IsReport(q[j], q[k + 1])
      <4>1. PICK j \in 1..k : IsReport(q[j], q[k + 1])
        BY <3>1, <3>3
      <4>2. CASE j = 1
        BY <1>1, <3>1, <4>1, <4>2
      <4>3. CASE j # 1
        <5>1. j - 1 \in 1..(k - 1) /\ j - 1 \in DOMAIN rest /\ j - 1 + 1 = j
          BY <1>3, <3>1, <4>3
        <5>2. pending'[v][j - 1] = q[j]
          BY <1>3, <1>4, <2>2, <5>1
        <5> QED
          BY <3>1, <4>1, <5>1, <5>2
      <4> QED
        BY <4>2, <4>3
    <3> QED
      BY <1>8, <1>10, <3>1, <3>2, <3>3
  <2> QED
    BY <2>1, <2>2
<1>11. ParentsFirst'
  BY <1>7, <1>9, <1>10 DEF ParentsFirst, IsReport
<1> QED
  BY <1>1, <1>3, <1>4, <1>5, <1>7, <1>11 DEF q

LEMMA PieceTyped ==
  ASSUME NEW e \in EventSet
  PROVE  /\ {Whole(e), Begun(e), Rest(e)} \subseteq EventPieces
         /\ Whole(e).part = "whole" /\ Begun(e).part = "begun" /\ Rest(e).part = "rest"
         /\ Whole(e).entry = e /\ Begun(e).entry = e /\ Rest(e).entry = e
BY DEF Whole, Begun, Rest, EventPieces

LEMMA AppendEventInv == ASSUME DecisionInv, NEW w \in Writers, AppendEvent(w) PROVE DecisionInv'
<1> PICK e : e = pending[w][1]
  OBVIOUS
<1>1. /\ pending[w] # <<>> /\ ~begun[w] /\ Appended(w) /\ events' = Append(events, Whole(e))
      /\ split' = (split \/ ~LineBegins(events, Len(events)))
      /\ begun' = begun /\ created' = created /\ now' = now
  BY DEF AppendEvent
<1>2. e \in EventSet /\ events \in Seq(EventPieces)
  BY <1>1 DEF DecisionInv, DecisionTyped
<1>3. Whole(e) \in EventPieces /\ Whole(e).part = "whole" /\ Whole(e).entry = e
  BY <1>2, PieceTyped
<1>4. events' \in Seq(EventPieces) /\ events' # <<>>
  BY <1>1, <1>2, <1>3
<1>5. /\ Readable(events) \subseteq Readable(events')
      /\ Readable(events') \subseteq Readable(events) \cup {e}
      /\ LineBegins(events, Len(events)) => e \in Readable(events')
  BY <1>1, <1>2, <1>3, ReadableAppend
<1>6. ~split' => ~split /\ LineBegins(events, Len(events))
  BY <1>1 DEF DecisionInv, DecisionTyped
<1>7. /\ pending' \in [Writers -> Seq(EventSet)] /\ \A v \in Writers : Len(pending'[v]) <= 3
      /\ \A v \in Writers \ {w} : pending'[v] = pending[v]
      /\ appended' = appended \cup {e} /\ Numbered' /\ ParentsFirst'
  BY <1>1, <1>5, AppendReturns DEF ReadEvents
<1>8. DecisionTyped'
  <2>1. split' \in BOOLEAN
    BY <1>1 DEF DecisionInv, DecisionTyped
  <2> QED
    BY <1>1, <1>2, <1>4, <1>7, <2>1 DEF DecisionInv, DecisionTyped
<1>9. AppendedIsRead'
  <2>1. ~split' => \A i \in DOMAIN events : events[i].part = "begun" => LineBegins(events, i - 1)
    BY <1>6 DEF DecisionInv, AppendedIsRead
  <2>2. ~split' => \A i \in DOMAIN events' : events'[i].part = "begun" => LineBegins(events', i - 1)
    BY <1>1, <1>2, <1>3, <2>1, ApartAppend
  <2>3. Readable(events') \subseteq appended'
    BY <1>5, <1>7 DEF DecisionInv, AppendedIsRead, ReadEvents
  <2>4. ~split' => appended' \subseteq Readable(events')
    BY <1>5, <1>6, <1>7 DEF DecisionInv, AppendedIsRead, ReadEvents
  <2> QED
    BY <2>2, <2>3, <2>4 DEF AppendedIsRead, ReadEvents
<1> QED
  BY <1>7, <1>8, <1>9 DEF DecisionInv

LEMMA BeginEventInv == ASSUME DecisionInv, NEW w \in Writers, BeginEvent(w) PROVE DecisionInv'
<1> PICK e : e = pending[w][1]
  OBVIOUS
<1>1. /\ pending[w] # <<>> /\ begun' = [begun EXCEPT ![w] = TRUE]
      /\ events' = Append(events, Begun(e))
      /\ split' = (split \/ ~LineBegins(events, Len(events)))
      /\ pending' = pending /\ appended' = appended /\ created' = created /\ now' = now
  BY DEF BeginEvent
<1>2. e \in EventSet /\ events \in Seq(EventPieces)
  BY <1>1 DEF DecisionInv, DecisionTyped
<1>3. Begun(e) \in EventPieces /\ Begun(e).part = "begun" /\ Begun(e).entry = e
  BY <1>2, PieceTyped
<1>4. events' \in Seq(EventPieces) /\ events' # <<>>
  BY <1>1, <1>2, <1>3
<1>5. Readable(events) \subseteq Readable(events') /\ Readable(events') \subseteq Readable(events)
  BY <1>1, <1>2, <1>3, ReadableAppend
<1>6. ~split' => ~split /\ LineBegins(events, Len(events))
  BY <1>1 DEF DecisionInv, DecisionTyped
<1>7. DecisionTyped'
  <2>1. split' \in BOOLEAN
    BY <1>1 DEF DecisionInv, DecisionTyped
  <2> QED
    BY <1>1, <1>4, <2>1 DEF DecisionInv, DecisionTyped
<1>8. Made' = Made
  BY <1>1 DEF Made
<1>9. Numbered' /\ \A f \in Made' : Descends(f)'
  BY <1>1, <1>5, <1>8, NothingMade DEF ReadEvents
<1>10. ParentsFirst'
  BY <1>1, <1>9 DEF DecisionInv, ParentsFirst, IsReport
<1>11. AppendedIsRead'
  <2>1. ~split' => \A i \in DOMAIN events : events[i].part = "begun" => LineBegins(events, i - 1)
    BY <1>6 DEF DecisionInv, AppendedIsRead
  <2>2. ~split' => \A i \in DOMAIN events' : events'[i].part = "begun" => LineBegins(events', i - 1)
    BY <1>1, <1>2, <1>3, <1>6, <2>1, ApartAppend
  <2> QED
    BY <1>1, <1>5, <1>6, <2>2 DEF DecisionInv, AppendedIsRead, ReadEvents
<1> QED
  BY <1>7, <1>9, <1>10, <1>11 DEF DecisionInv

LEMMA EndEventInv == ASSUME DecisionInv, NEW w \in Writers, EndEvent(w) PROVE DecisionInv'
<1> PICK e : e = pending[w][1]
  OBVIOUS
<1> PICK f : f = events
  OBVIOUS
<1>1. /\ begun[w] /\ begun' = [begun EXCEPT ![w] = FALSE] /\ Appended(w)
      /\ events' = Append(f, Rest(e)) /\ split' = (split \/ f[Len(f)] # Begun(e))
      /\ created' = created /\ now' = now
  BY DEF EndEvent
<1>2. pending[w] # <<>> /\ f # <<>> /\ f \in Seq(EventPieces)
  BY <1>1 DEF DecisionInv, DecisionTyped
<1>3. e \in EventSet
  BY <1>2 DEF DecisionInv, DecisionTyped
<1>4. Rest(e) \in EventPieces /\ Rest(e).part = "rest" /\ Rest(e).entry = e
      /\ Begun(e).part = "begun"
  BY <1>3, PieceTyped
<1>5. events' \in Seq(EventPieces) /\ events' # <<>>
  BY <1>1, <1>2, <1>4
<1>6. ~split' => /\ ~split /\ f[Len(f)] = Begun(e)
                 /\ \A i \in DOMAIN f : f[i].part = "begun" => LineBegins(f, i - 1)
  BY <1>1 DEF DecisionInv, DecisionTyped, AppendedIsRead
<1>7. Len(f) \in DOMAIN f
  BY <1>2
<1>8. ~split' => LineBegins(f, Len(f) - 1)
  BY <1>4, <1>6, <1>7
<1>9. /\ Readable(f) \subseteq Readable(events') /\ Readable(events') \subseteq Readable(f) \cup {e}
      /\ ~split' => e \in Readable(events')
  BY <1>1, <1>2, <1>4, <1>6, <1>8, ReadableAppend
<1>10. /\ pending' \in [Writers -> Seq(EventSet)] /\ \A v \in Writers : Len(pending'[v]) <= 3
       /\ \A v \in Writers \ {w} : pending'[v] = pending[v]
       /\ appended' = appended \cup {e} /\ Numbered' /\ ParentsFirst'
  BY <1>1, <1>2, <1>9, AppendReturns DEF ReadEvents
<1>11. DecisionTyped'
  <2>1. split' \in BOOLEAN
    BY <1>1 DEF DecisionInv, DecisionTyped
  <2>2. begun' \in [Writers -> BOOLEAN] /\ ~begun'[w]
        /\ \A v \in Writers \ {w} : begun'[v] = begun[v]
    BY <1>1 DEF DecisionInv, DecisionTyped
  <2> QED
    BY <1>1, <1>3, <1>5, <1>10, <2>1, <2>2 DEF DecisionInv, DecisionTyped
<1>12. AppendedIsRead'
  <2>1. ~split' => \A i \in DOMAIN events' : events'[i].part = "begun" => LineBegins(events', i - 1)
    BY <1>1, <1>2, <1>4, <1>6, ApartAppend
  <2>2. Readable(events') \subseteq appended'
    BY <1>9, <1>10 DEF DecisionInv, AppendedIsRead, ReadEvents
  <2>3. ~split' => appended' \subseteq Readable(events')
    BY <1>6, <1>9, <1>10 DEF DecisionInv, AppendedIsRead, ReadEvents
  <2> QED
    BY <2>1, <2>2, <2>3 DEF AppendedIsRead, ReadEvents
<1> QED
  BY <1>10, <1>11, <1>12 DEF DecisionInv

\* What the writer had still to append is lost, and nothing descends from it.
LEMMA DecisionWriterDiesInv ==
  ASSUME DecisionInv, NEW w \in Writers, WriterDies(w) PROVE DecisionInv'
<1>1. /\ split' = (split \/ begun[w]) /\ pending' = [pending EXCEPT ![w] = <<>>]
      /\ begun' = [begun EXCEPT ![w] = FALSE] /\ events' = events /\ appended' = appended
      /\ created' = created /\ now' = now
  BY DEF WriterDies
<1>2. ~split' => ~split
  BY <1>1 DEF DecisionInv, DecisionTyped
<1>3. /\ pending' \in [Writers -> Seq(EventSet)] /\ pending'[w] = <<>>
      /\ \A v \in Writers \ {w} : pending'[v] = pending[v]
  <2>1. <<>> \in Seq(EventSet)
    OBVIOUS
  <2> QED
    BY <1>1, <2>1 DEF DecisionInv, DecisionTyped
<1>4. DecisionTyped'
  <2>1. split' \in BOOLEAN
    BY <1>1 DEF DecisionInv, DecisionTyped
  <2>2. begun' \in [Writers -> BOOLEAN] /\ ~begun'[w]
        /\ \A v \in Writers \ {w} : begun'[v] = begun[v]
    BY <1>1 DEF DecisionInv, DecisionTyped
  <2>3. ASSUME NEW v \in Writers PROVE Len(pending'[v]) <= 3
    <3>1. Len(<<>>) <= 3
      OBVIOUS
    <3>2. CASE v = w
      BY <1>3, <3>1, <3>2
    <3>3. CASE v # w
      BY <1>3, <3>3 DEF DecisionInv, DecisionTyped
    <3> QED
      BY <3>2, <3>3
  <2> QED
    BY <1>1, <1>3, <2>1, <2>2, <2>3 DEF DecisionInv, DecisionTyped
<1>5. Made' \subseteq Made
  BY <1>1, <1>3 DEF Made
<1>6. ReadEvents' = ReadEvents
  BY <1>1 DEF ReadEvents
<1>7. Numbered' /\ \A e \in Made' : Descends(e)'
  BY <1>1, <1>5, <1>6, NothingMade
<1>8. ParentsFirst'
  BY <1>1, <1>3, <1>7 DEF DecisionInv, ParentsFirst, IsReport
<1>9. AppendedIsRead'
  BY <1>1, <1>2, <1>6 DEF DecisionInv, AppendedIsRead
<1> QED
  BY <1>4, <1>7, <1>8, <1>9 DEF DecisionInv

LEMMA TimeInv ==
  ASSUME DecisionInv, now' \in {0, 1},
         UNCHANGED <<events, pending, begun, appended, created, split>>
  PROVE  DecisionInv'
<1>1. Made' = Made /\ ReadEvents' = ReadEvents
  BY DEF Made, ReadEvents
<1>2. Numbered' /\ \A e \in Made' : Descends(e)'
  BY <1>1, NothingMade
<1>3. DecisionTyped' /\ ParentsFirst' /\ AppendedIsRead'
  BY <1>1, <1>2 DEF DecisionInv, DecisionTyped, ParentsFirst, AppendedIsRead, IsReport
<1> QED
  BY <1>2, <1>3 DEF DecisionInv

LEMMA DecisionStep == ASSUME DecisionInv, [DecisionNext]_decisionVars PROVE DecisionInv'
<1>1. CASE UNCHANGED decisionVars
  <2>1. now' = now /\ UNCHANGED <<events, pending, begun, appended, created, split>>
    BY <1>1 DEF decisionVars
  <2>2. now \in {0, 1}
    BY DEF DecisionInv, DecisionTyped
  <2> QED
    BY <2>1, <2>2, TimeInv
<1>2. CASE Expire
  BY <1>2, TimeInv DEF Expire
<1>3. ASSUME NEW w \in Writers, NEW n \in 0..2, NEW errors \in [1..n -> Errors],
             RecordReport(w, errors)
      PROVE  DecisionInv'
  BY <1>3, RecordReportInv
<1>4. ASSUME NEW w \in Writers, NEW error \in Errors, NEW event \in ReadEvents,
             NEW expires \in {None, 1}, Override(w, error, event, expires)
      PROVE  DecisionInv'
  BY <1>4, OverrideInv
<1>5. ASSUME NEW w \in Writers, AppendEvent(w) \/ BeginEvent(w) \/ EndEvent(w) \/ WriterDies(w)
      PROVE  DecisionInv'
  BY <1>5, AppendEventInv, BeginEventInv, EndEventInv, DecisionWriterDiesInv
<1> QED
  BY <1>1, <1>2, <1>3, <1>4, <1>5 DEF DecisionNext

LEMMA DecisionInvariance == DecisionSpec => []DecisionInv
<1> QED
  BY DecisionBegins, DecisionStep, PTL DEF DecisionSpec

-----------------------------------------------------------------------------
(* What the decision ledger is evidence of *)

\* An event leads back to its report, one name at a time.
LEMMA LeadsBack ==
  ASSUME DecisionInv, ~split, NEW e \in ReadEvents, e.type = "override_recorded",
         NEW last \in ChainEnds(e)
  PROVE  last.type = "report_created"
<1>1. /\ ReadEvents = appended /\ appended \subseteq Made /\ Named(Made)
  BY MadeIs DEF DecisionInv, AppendedIsRead, Numbered
<1>2. PICK fail \in ReadEvents : IsFailure(fail, e)
  BY <1>1 DEF DecisionInv, ParentsFirst, Descends
<1>3. PICK report \in ReadEvents : IsReport(report, fail)
  BY <1>1, <1>2 DEF DecisionInv, ParentsFirst, IsFailure
<1>4. \A p \in ReadEvents : (p.id = e.parent => p = fail) /\ (p.id = fail.parent => p = report)
  BY <1>1, <1>2, <1>3 DEF Named, IsFailure, IsReport
<1>5. Parent(e) = {fail} /\ Parent(fail) = {report}
  BY <1>2, <1>3, <1>4 DEF Parent, IsFailure, IsReport
<1>6. last \in {e, fail, report} /\ Parent(last) = {}
  BY <1>5 DEF ChainEnds
<1> QED
  BY <1>3, <1>5, <1>6 DEF IsReport

\* OverridesAreTraceable, for any writers, findings and number of events: whoever
\* dies, meets another writer or expires, what counts as overridden was recorded as
\* failed, and while no line was broken every event leads back to its report.
THEOREM OverridesLeadBack == DecisionSpec => []OverridesAreTraceable
<1>1. DecisionInv => DecisionTypeOK
  <2> SUFFICES ASSUME DecisionInv PROVE DecisionTypeOK
    OBVIOUS
  <2>1. ReadEvents \cup appended \subseteq Made
    BY MadeIs DEF DecisionInv, AppendedIsRead
  <2>2. \A e, f \in ReadEvents \cup appended : e.id = f.id => e = f
    BY <2>1 DEF DecisionInv, Numbered, Named
  <2>3. \A e \in appended : e.id \in 1..created
    BY <2>1 DEF DecisionInv, Numbered
  <2> QED
    BY <2>2, <2>3 DEF DecisionInv, DecisionTyped, DecisionTypeOK
<1>2. DecisionInv => OverriddenWasDetected
  <2> SUFFICES ASSUME DecisionInv, NEW finding \in Findings, Overridden(finding)
               PROVE  \E o, fail \in ReadEvents :
                         /\ o.finding = finding /\ o.type = "override_recorded"
                         /\ fail.id = o.parent /\ fail.type = "fail_detected"
                         /\ fail.finding = finding /\ Eligible(o)
    BY DEF OverriddenWasDetected
  <2>1. PICK o \in ReadEvents : o.type = "override_recorded" /\ o.finding = finding
    BY DEF Overridden
  <2>2. Descends(o)
    BY <2>1, MadeIs DEF DecisionInv, AppendedIsRead, ParentsFirst
  <2> QED
    BY <2>1, <2>2 DEF Descends, IsFailure
<1>3. DecisionInv => DecisionsAreTraceable
  <2> SUFFICES ASSUME DecisionInv, ~split PROVE
        /\ MissingParents = {} /\ appended \subseteq ReadEvents
        /\ \A e \in ReadEvents : e.type = "override_recorded" =>
               \A last \in ChainEnds(e) : last.type = "report_created"
    BY DEF DecisionsAreTraceable
  <2>1. ReadEvents = appended /\ appended \subseteq Made /\ appended \subseteq EventSet
    BY MadeIs DEF DecisionInv, AppendedIsRead, DecisionTyped
  <2>2. ASSUME NEW e \in ReadEvents
        PROVE  e.parent = None \/ \E p \in ReadEvents : p.id = e.parent
    <3>1. e.type \in {"report_created", "fail_detected", "override_recorded"}
      BY <2>1 DEF EventSet
    <3>2. Descends(e)
      BY <2>1 DEF DecisionInv, ParentsFirst
    <3>3. e.type = "fail_detected" => \E p \in appended : IsReport(p, e)
      BY <2>1 DEF DecisionInv, ParentsFirst
    <3> QED
      BY <2>1, <3>1, <3>2, <3>3 DEF Descends, IsFailure, IsReport
  <2>3. MissingParents = {}
    BY <2>2 DEF MissingParents
  <2> QED
    BY <2>1, <2>3, LeadsBack
<1>4. DecisionInv => OverridesAreTraceable
  BY <1>1, <1>2, <1>3 DEF OverridesAreTraceable
<1> QED
  BY <1>4, DecisionInvariance, PTL
=============================================================================
