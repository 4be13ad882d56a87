----------------------------- MODULE DiffParser -----------------------------
(***************************************************************************)
(* diff_parser.py, parse_unified_diff: the lines of a diff are read one by *)
(* one, and inside a hunk the first character of a line counts for more    *)
(* than what the line looks like.  Every line that may come is read; a     *)
(* grammar of what Git writes is followed at the same time, and says what  *)
(* the parser should have read.                                            *)
(***************************************************************************)
EXTENDS Integers, Sequences, FiniteSets

CONSTANTS
    Names,      \* paths that stay in the repository
    Escapes,    \* paths that normalize_diff_path calls unsafe
    Null,       \* no path: /dev/null
    MaxCount,   \* the longest hunk, in lines of one side
    MaxLines,   \* the longest diff
    MaxOdd,     \* the lines of it that Git would not write there
    Offered     \* the lines that may come

VARIABLES
    parser,     \* the local variables of the parser
    strict,     \* where the grammar of Git's diffs is
    diffed      \* the files of the diff, by the grammar

diffVars == <<parser, strict, diffed>>

DiffPaths == Names \cup Escapes
Payload == {"+", "-", " "}

\* The lines there are.  A line of a hunk has its first character, and may go
\* on like the line of a header: `looks`.
Lines ==
    [kind : {"git"}, old : DiffPaths, new : DiffPaths] \cup [kind : {"git_broken"}]
    \cup [kind : {"--- ", "+++ "}, path : DiffPaths \cup {Null}]
    \cup [kind : {"rename from", "rename to", "copy from", "copy to"}, path : DiffPaths]
    \cup [kind : {"new file", "deleted file"}, link : BOOLEAN]
    \cup [kind : {"@@"}, del : 0..MaxCount, add : 0..MaxCount] \cup [kind : {"@@_broken"}]
    \cup [kind : Payload] \cup [kind : {"no newline", "other"}]

ASSUME DiffAssumption ==
    /\ Null \notin Names \cup Escapes /\ Names \cap Escapes = {}
    /\ MaxCount \in Nat /\ MaxLines \in Nat /\ MaxOdd \in Nat
    /\ Offered \subseteq Lines

NoFile == [path |-> Null]

Fresh == [current |-> NoFile, old |-> Null, new |-> Null, isNew |-> FALSE, isDeleted |-> FALSE,
          operation |-> "modify", link |-> FALSE, unsafe |-> FALSE,
          inHunk |-> FALSE, oldLeft |-> 0, newLeft |-> 0,
          malformed |-> FALSE, short |-> FALSE, changes |-> <<>>, read |-> 0]

-----------------------------------------------------------------------------
(* The parser *)

First(a, b) == IF a # Null THEN a ELSE b
HasFile(s) == s.current # NoFile

\* ensure_current, with what the headers said so far
Change(s) ==
    [path |-> First(s.new, s.old), old |-> s.old, isNew |-> s.isNew \/ s.old = Null,
     isDeleted |-> s.isDeleted \/ s.new = Null, operation |-> s.operation,
     unsafe |-> s.unsafe, link |-> s.link, added |-> 0, lines |-> 0]

Ensure(s) == IF HasFile(s) THEN s ELSE [s EXCEPT !.current = Change(s)]

\* "+++" brings the change up to date.
Renew(s) == [s EXCEPT !.current = [Change(s) EXCEPT !.added = s.current.added,
                                       !.lines = s.current.lines,
                                       !.unsafe = s.current.unsafe \/ s.unsafe]]

ClosedChanges(s) == IF HasFile(s) THEN Append(s.changes, s.current) ELSE s.changes

\* mark_unsafe
Marked(s, unsafe) == [s EXCEPT !.unsafe = @ \/ unsafe, !.malformed = @ \/ unsafe]
Broken(s) == [s EXCEPT !.malformed = TRUE]

\* finish_hunk; `short` remembers a hunk that ended before its counts did.
Finished(s) == [s EXCEPT !.inHunk = FALSE,
                         !.short = @ \/ (s.inHunk /\ (s.oldLeft > 0 \/ s.newLeft > 0))]

\* Does this line end the hunk?  The counts alone do not: a line that could be
\* one of a hunk is one.  "---" and "+++" begin like removed and added lines.
EndsHunk(s, line) ==
    \/ line.kind \in {"git", "git_broken", "@@", "@@_broken"}
    \/ s.oldLeft <= 0 /\ s.newLeft <= 0
       /\ line.kind \notin Payload \cup {"--- ", "+++ ", "no newline"}

Sign(line) == CASE line.kind = "--- " -> "-" [] line.kind = "+++ " -> "+" [] OTHER -> line.kind

\* Mutant: a line that looks like a header is one, in a hunk too.
InHunk_Headers(s, line) == s.inHunk /\ ~EndsHunk(s, line) /\ line.kind \notin {"--- ", "+++ "}
InHunk(s, line) == s.inHunk /\ ~EndsHunk(s, line)

ReadPayload(s, line) ==
    LET sign == Sign(line)
    IN CASE sign = "+" -> [s EXCEPT !.current.added = @ + 1, !.current.lines = @ + 1, !.newLeft = @ - 1]
         [] sign = "-" -> [s EXCEPT !.current.lines = @ + 1, !.oldLeft = @ - 1]
         [] sign = " " -> [s EXCEPT !.current.lines = @ + 1, !.oldLeft = @ - 1, !.newLeft = @ - 1]
         [] sign = "no newline" -> s
         [] OTHER -> Broken(s)

\* reset_file_state, then the two paths of the header
ReadGit(s, line) ==
    LET open == [Fresh EXCEPT !.changes = ClosedChanges(s), !.malformed = s.malformed,
                              !.short = s.short, !.read = s.read]
    IN IF line.kind = "git_broken" THEN Broken(open)
       ELSE Marked([open EXCEPT !.old = line.old, !.new = line.new],
                   {line.old, line.new} \cap Escapes # {})

ReadHeader(s, line) ==
    CASE line.kind \in {"rename from", "copy from"} ->
           Marked([s EXCEPT !.old = line.path,
                            !.operation = IF line.kind = "copy from" THEN "copy" ELSE "rename"],
                  line.path \in Escapes)
      [] line.kind \in {"rename to", "copy to"} ->
           Ensure(Marked([s EXCEPT !.new = line.path,
                            !.operation = IF line.kind = "copy to" THEN "copy" ELSE "rename",
                            !.isNew = @ \/ line.kind = "copy to"],
                         line.path \in Escapes))
      [] line.kind = "--- " -> Marked([s EXCEPT !.old = line.path], line.path \in Escapes)
      [] line.kind = "+++ " ->
           Renew(Ensure(Marked([s EXCEPT !.new = line.path], line.path \in Escapes)))
      [] line.kind = "new file" -> [s EXCEPT !.isNew = TRUE, !.link = line.link]
      [] line.kind = "deleted file" -> [s EXCEPT !.isDeleted = TRUE]

ReadHunk(s, line) ==
    CASE ~HasFile(s) -> Broken(s)
      [] HasFile(s) /\ line.kind = "@@_broken" -> Broken(s)
      [] OTHER -> [s EXCEPT !.inHunk = TRUE, !.oldLeft = line.del, !.newLeft = line.add]

\* Outside a hunk a line of a file that looks like content is not evidence.
ReadStray(s, line) == IF HasFile(s) /\ line.kind \in Payload THEN Broken(s) ELSE s

Headers == {"--- ", "+++ ", "rename from", "rename to", "copy from", "copy to",
            "new file", "deleted file"}

ReadLine(s, line) ==
    IF InHunk(s, line) THEN ReadPayload(s, line)
    ELSE LET out == Finished(s)
         IN CASE line.kind \in {"git", "git_broken"} -> ReadGit(out, line)
              [] line.kind \in {"@@", "@@_broken"} -> ReadHunk(out, line)
              [] line.kind \in Headers -> ReadHeader(out, line)
              [] OTHER -> ReadStray(out, line)

\* What is returned after the last line: the last change, and one that stands
\* for everything malformed.
ReturnedChanges(s) == ClosedChanges(s)

-----------------------------------------------------------------------------
(* What Git writes: a file at a time, "---" and "+++" before its hunks, and *)
(* as many lines in a hunk as its header says.                              *)

\* old and new: lines of the hunk still to come; stage: where in a file it is;
\* odd: lines that Git would not have written, which the grammar passes over.
Start == [odd |-> 0, stage |-> "file", old |-> 0, new |-> 0]

Expects(g, line) ==
    LET open == g.old > 0 \/ g.new > 0
    IN CASE open -> \/ Sign(line) = "+" /\ g.new > 0
                    \/ Sign(line) = "-" /\ g.old > 0
                    \/ line.kind = " " /\ g.old > 0 /\ g.new > 0
         [] ~open /\ line.kind = "git" -> g.stage # "from" /\ g.stage # "minus"
                                          /\ {line.old, line.new} \subseteq Names
         [] ~open /\ line.kind \in {"new file", "deleted file"} -> g.stage = "git"
         [] ~open /\ line.kind = "--- " -> g.stage \in {"git", "mode"}
                                           /\ line.path \in Names \cup {Null}
         [] ~open /\ line.kind = "+++ " -> g.stage = "minus" /\ line.path \in Names
         [] ~open /\ line.kind = "@@" -> g.stage \in {"plus", "hunk"} /\ line.del + line.add > 0
         [] OTHER -> FALSE

Follow(g, line) ==
    LET open == g.old > 0 \/ g.new > 0
    IN CASE ~Expects(g, line) -> [g EXCEPT !.odd = @ + 1]
         [] Expects(g, line) /\ open ->
              [g EXCEPT !.old = @ - (IF Sign(line) = "+" THEN 0 ELSE 1),
                        !.new = @ - (IF Sign(line) = "-" THEN 0 ELSE 1)]
         [] OTHER -> CASE line.kind = "git" -> [g EXCEPT !.stage = "git"]
                       [] line.kind = "--- " -> [g EXCEPT !.stage = "minus"]
                       [] line.kind = "+++ " -> [g EXCEPT !.stage = "plus"]
                       [] line.kind = "@@" ->
                            [g EXCEPT !.stage = "hunk", !.old = line.del, !.new = line.add]
                       [] OTHER -> [g EXCEPT !.stage = "mode"]

\* The files with content and how many lines were added to each.
FilesAfter(fs, g, line) ==
    LET open == g.old > 0 \/ g.new > 0
    IN IF g.odd > 0 \/ ~Expects(g, line) THEN fs
       ELSE IF open THEN (IF Sign(line) = "+" THEN [fs EXCEPT ![Len(fs)].added = @ + 1] ELSE fs)
       ELSE IF line.kind = "+++ " THEN Append(fs, [path |-> line.path, added |-> 0]) ELSE fs

-----------------------------------------------------------------------------
DiffInit == parser = Fresh /\ strict = Start /\ diffed = <<>>

DiffNext ==
    /\ parser.read < MaxLines
    /\ \E line \in Offered :
         /\ strict.odd = MaxOdd => Expects(strict, line)
         /\ parser' = [ReadLine(parser, line) EXCEPT !.read = parser.read + 1]
         /\ strict' = Follow(strict, line)
         /\ diffed' = FilesAfter(diffed, strict, line)

DiffSpec == DiffInit /\ [][DiffNext]_diffVars

-----------------------------------------------------------------------------
(* Properties *)

\* The parser's variables hold values of their kinds, and a change is open
\* whenever a hunk is.
DiffTypeOK ==
    /\ parser.old \in DiffPaths \cup {Null} /\ parser.new \in DiffPaths \cup {Null}
    /\ parser.oldLeft \in Int /\ parser.newLeft \in Int /\ parser.read \in 0..MaxLines
    /\ parser.inHunk => HasFile(parser)

\* What Git writes is read exactly: every file with content is one change with
\* the lines that were added to it, whatever the lines look like.
FilesAreRead ==
    strict.odd = 0 /\ strict.old = 0 /\ strict.new = 0 =>
        /\ ~parser.malformed
        /\ LET changes == ReturnedChanges(parser)
           IN /\ Len(changes) = Len(diffed)
              /\ \A i \in DOMAIN diffed : /\ changes[i].path = diffed[i].path
                                          /\ changes[i].added = diffed[i].added

\* A path that leaves the repository is never read as one that does not: a diff
\* with a change that has it is malformed, whatever follows.
EscapeIsMalformed ==
    \A i \in DOMAIN ReturnedChanges(parser) :
        {ReturnedChanges(parser)[i].path, ReturnedChanges(parser)[i].old} \cap Escapes # {}
            => parser.malformed

\* What Git writes is read exactly, and no path that leaves the repository is
\* read as one that does not.
GitDiffsAreRead == DiffTypeOK /\ FilesAreRead /\ EscapeIsMalformed

\* docs/reason-codes.md:232: a truncated hunk makes a diff malformed.  The code
\* ends a hunk without looking at what its header still promises.
TruncatedHunkIsMalformed == parser.short => parser.malformed
=============================================================================
