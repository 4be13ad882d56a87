----------------------------- MODULE PolicyFile -----------------------------
(***************************************************************************)
(* How .sourcepack/policy.json is read (policy.py) while somebody else     *)
(* rewrites it in place, replaces it, removes it, or replaces the whole    *)
(* directory.  A call looks, opens, reads chunk after chunk, and looks     *)
(* again.  Where the system can open a file relative to a directory it is  *)
(* confined to the directory it looked at; elsewhere it goes by paths.     *)
(***************************************************************************)
EXTENDS Naturals, Sequences

CONSTANTS
    Versions,   \* what somebody writes into the file
    Size,       \* how many chunks each version has
    ChunkLimit, \* POLICY_FILE_LIMIT_BYTES, in chunks
    MaxFiles,   \* files there ever are (a bound)
    MaxDirs,    \* directories there ever are (a bound)
    MaxWrites   \* changes of the file system (a bound)

\* Why no policy is returned.
ReadErrors == {"unsafe", "unstable", "limit_exceeded", "malformed", "mixed"}

ASSUME ReadAssumption ==
    /\ Size \in [Versions -> Nat \ {0}] /\ ChunkLimit \in Nat \ {0}
    /\ MaxFiles \in Nat \ {0} /\ MaxDirs \in Nat \ {0} /\ MaxWrites \in Nat
    /\ Versions \cap (ReadErrors \cup {"none", "absent", "unclear"}) = {}

\* Inode numbers are not used again: an entry that was replaced stays replaced.
Inodes == 1..MaxFiles
Dirs == 1..MaxDirs
NoEntry == 0
Link == MaxFiles + MaxDirs + 1      \* a symbolic link, of a directory or file
Outside == Link + 1                 \* the file such a link leads to

VARIABLES
    directory,  \* what .sourcepack is: a directory, a link, or gone
    entry,      \* what policy.json is in each directory
    content,    \* the chunks of each file
    stamp,      \* the modification time of each file
    writing,    \* the file that is rewritten in place, and with what
    inodes, dirs, writes,
    confined,   \* can a file be opened relative to a directory?
    progress,
    looked,     \* the directory and, without confinement, the entry first seen
    opened,     \* the file that was opened
    before,     \* its size and time when it was opened
    data,       \* the chunks read
    result,     \* what the call returned
    meant       \* history: what the policy was at some moment of the call

policyDisk == <<directory, entry, content, stamp, writing, inodes, dirs, writes>>
readVars == <<policyDisk, confined, progress, looked, opened, before, data, result, meant>>

Written(v) == [i \in 1..Size[v] |-> v]
Idle == [file |-> NoEntry, version |-> "none"]

\* What the path leads to: nothing follows a link of the directory.
Named(d, e) == IF d \in Dirs THEN e[d] ELSE d

\* The policy at a moment: a version, absent, or something else.
Policy(d, e, c) ==
    LET i == Named(d, e)
    IN IF i = NoEntry THEN "absent"
       ELSE IF i \in Inodes /\ \E v \in Versions : c[i] = Written(v)
            THEN CHOOSE v \in Versions : c[i] = Written(v)
            ELSE "unclear"

ReadInit ==
    /\ directory \in {NoEntry, Link, 1}
    /\ entry \in {[d \in Dirs |-> IF d = 1 THEN e ELSE NoEntry] : e \in {NoEntry, Link, 1}}
    /\ \E v \in Versions : content = [i \in Inodes |-> IF i = 1 THEN Written(v) ELSE <<>>]
    /\ stamp = [i \in Inodes |-> 0] /\ writing = Idle
    /\ inodes = 1 /\ dirs = 1 /\ writes = 0
    /\ confined \in BOOLEAN /\ progress = "look" /\ looked = [dir |-> NoEntry, file |-> NoEntry]
    /\ opened = NoEntry /\ before = [size |-> 0, stamp |-> 0] /\ data = <<>>
    /\ result = "none" /\ meant = {Policy(directory, entry, content)}

-----------------------------------------------------------------------------
(* The others *)

Changed ==
    /\ writes < MaxWrites /\ writes' = writes + 1 /\ progress # "done"
    /\ meant' = meant \cup {Policy(directory', entry', content')}
    /\ UNCHANGED <<confined, progress, looked, opened, before, data, result>>

\* A program opens the file for writing, which empties it, and writes on.
BeginRewrite(v) ==
    /\ writing = Idle /\ Named(directory, entry) \in Inodes
    /\ LET i == Named(directory, entry) IN
         /\ writing' = [file |-> i, version |-> v]
         /\ content' = [content EXCEPT ![i] = <<>>]
         /\ stamp' = [stamp EXCEPT ![i] = @ + 1]
    /\ UNCHANGED <<directory, entry, inodes, dirs>> /\ Changed

Rewrite ==
    /\ writing # Idle
    /\ LET i == writing.file
           longer == Append(content[i], writing.version) IN
         /\ content' = [content EXCEPT ![i] = longer]
         /\ stamp' = [stamp EXCEPT ![i] = @ + 1]
         /\ writing' = IF Len(longer) = Size[writing.version] THEN Idle ELSE writing
    /\ UNCHANGED <<directory, entry, inodes, dirs>> /\ Changed

\* os.replace, or a checkout: another file, a link or nothing.
ReplaceFile(v) ==
    /\ directory \in Dirs /\ inodes < MaxFiles
    /\ inodes' = inodes + 1
    /\ entry' = [entry EXCEPT ![directory] = inodes + 1]
    /\ content' = [content EXCEPT ![inodes + 1] = Written(v)]
    /\ UNCHANGED <<directory, stamp, writing, dirs>> /\ Changed

PutInstead(e) ==
    /\ directory \in Dirs /\ entry[directory] # e
    /\ entry' = [entry EXCEPT ![directory] = e]
    /\ UNCHANGED <<directory, content, stamp, writing, inodes, dirs>> /\ Changed

\* The directory that was there can still be reached by whoever has it open.
ReplaceDirectory(d) ==
    /\ directory # d
    /\ \/ d \in {NoEntry, Link} /\ dirs' = dirs
       \/ d = dirs + 1 /\ d \in Dirs /\ dirs' = d
    /\ directory' = d
    /\ UNCHANGED <<entry, content, stamp, writing, inodes>> /\ Changed

\* A file put into a directory that is not, or no longer, the policy's.
FillElsewhere(d, v) ==
    /\ d # directory /\ inodes < MaxFiles /\ inodes' = inodes + 1
    /\ entry' = [entry EXCEPT ![d] = inodes + 1]
    /\ content' = [content EXCEPT ![inodes + 1] = Written(v)]
    /\ UNCHANGED <<directory, stamp, writing, dirs>> /\ Changed

Environment ==
    \/ \E v \in Versions : BeginRewrite(v) \/ ReplaceFile(v)
    \/ Rewrite
    \/ \E e \in {NoEntry, Link} : PutInstead(e)
    \/ \E d \in Dirs \cup {NoEntry, Link} : ReplaceDirectory(d)
    \/ \E d \in Dirs, v \in Versions : FillElsewhere(d, v)

-----------------------------------------------------------------------------
(* _read_repository_policy_file *)

Return(r) == progress' = "done" /\ result' = r
Quiet == UNCHANGED <<policyDisk, confined, meant>>

\* policy_dir.lstat(), and path.lstat() where there is no confinement.
LookDirectory ==
    /\ progress = "look"
    /\ looked' = [dir |-> directory, file |-> IF confined THEN NoEntry ELSE Named(directory, entry)]
    /\ \/ directory = NoEntry /\ Return("absent")
       \/ directory = Link /\ Return("unsafe")
       \/ directory \in Dirs /\ progress' = (IF confined THEN "directory" ELSE "entry")
          /\ UNCHANGED result
    /\ Quiet /\ UNCHANGED <<opened, before, data>>

\* Without confinement the entry is looked at by its path first.  A path that
\* goes through a link by now leads elsewhere: to no policy, to something that is
\* none, or to a file, and that is noticed at the end, the directory being another.
LookEntry ==
    /\ progress = "entry"
    /\ LET e == Named(directory, entry) IN
         /\ looked' = [looked EXCEPT !.file = e]
         /\ \/ e = NoEntry /\ Return("absent")
            \/ e = Link /\ directory # Link /\ Return("unsafe")
            \/ directory = Link /\ \E r \in {"absent", "unsafe", "unstable"} : Return(r)
            \/ e \in Inodes /\ progress' = "open" /\ UNCHANGED result
    /\ Quiet /\ UNCHANGED <<opened, before, data>>

\* os.open of the directory, not through a link, and its identity.
OpenDirectory ==
    /\ progress = "directory"
    /\ \/ directory \notin Dirs /\ Return("unsafe")
       \/ directory \in Dirs \ {looked.dir} /\ Return("unstable")
       \/ directory = looked.dir /\ progress' = "open" /\ UNCHANGED result
    /\ Quiet /\ UNCHANGED <<looked, opened, before, data>>

\* os.open of the file and fstat: in the directory that is open, or through
\* whatever links the path goes now.
OpenFile ==
    /\ progress = "open"
    /\ LET e == IF confined THEN entry[looked.dir] ELSE Named(directory, entry) IN
         \/ /\ e = NoEntry /\ opened' = NoEntry /\ UNCHANGED before
            /\ IF confined THEN progress' = "recheck" /\ UNCHANGED result ELSE Return("unsafe")
         \/ /\ e = Link /\ opened' = Outside /\ UNCHANGED before
            /\ Return(IF confined THEN "unsafe" ELSE "unstable")
         \/ /\ e \in Inodes /\ opened' = e
            /\ before' = [size |-> Len(content[e]), stamp |-> stamp[e]]
            /\ IF confined \/ e = looked.file THEN progress' = "read" /\ UNCHANGED result
               ELSE Return("unstable")
    /\ Quiet /\ UNCHANGED <<looked, data>>

\* os.read: the next chunk, until there is none or one more than the limit.
ReadChunk ==
    /\ progress = "read"
    /\ LET next == Len(data) + 1 IN
         IF next <= Len(content[opened]) /\ next <= ChunkLimit + 1
         THEN data' = Append(data, content[opened][next]) /\ UNCHANGED progress
         ELSE progress' = "stat" /\ UNCHANGED data
    /\ Quiet /\ UNCHANGED <<looked, opened, before, result>>

\* Mutant: only the number of bytes is compared.
Stat_SizeOnly ==
    /\ progress = "stat"
    /\ IF Len(content[opened]) # before.size \/ Len(data) # before.size
       THEN Return("unstable") ELSE progress' = "recheck" /\ UNCHANGED result
    /\ Quiet /\ UNCHANGED <<looked, opened, before, data>>

\* fstat again: the same size and time, and as many bytes read.
Stat ==
    /\ progress = "stat"
    /\ IF \/ [size |-> Len(content[opened]), stamp |-> stamp[opened]] # before
          \/ Len(data) # before.size
       THEN Return("unstable") ELSE progress' = "recheck" /\ UNCHANGED result
    /\ Quiet /\ UNCHANGED <<looked, opened, before, data>>

\* What was read means: too much, a policy, or not JSON.  A part of a policy
\* is not JSON; parts of two policies may be.
Parsed ==
    IF Len(data) > ChunkLimit THEN "limit_exceeded"
    ELSE IF \E v \in Versions : data = Written(v) THEN data[1]
    ELSE IF data = <<>> \/ \E v \in Versions : \A i \in DOMAIN data : data[i] = v
         THEN "malformed" ELSE "mixed"

\* The path, and the directory, are looked at once more.
Recheck ==
    /\ progress = "recheck"
    /\ LET same == IF opened = NoEntry THEN directory = looked.dir
                   ELSE /\ Named(directory, entry) = opened
                        /\ confined \/ directory = looked.dir
       IN Return(IF ~same THEN "unstable" ELSE IF opened = NoEntry THEN "absent" ELSE Parsed)
    /\ Quiet /\ UNCHANGED <<looked, opened, before, data>>

ReadNext ==
    \/ LookDirectory \/ LookEntry \/ OpenDirectory \/ OpenFile \/ ReadChunk \/ Stat \/ Recheck
    \/ Environment

ReadSpec == ReadInit /\ [][ReadNext]_readVars

-----------------------------------------------------------------------------
(* Properties *)

ReadTypeOK ==
    /\ directory \in Dirs \cup {NoEntry, Link}
    /\ result \in Versions \cup ReadErrors \cup {"none", "absent"}
    /\ \A d \in Dirs : entry[d] \in Inodes \cup {NoEntry, Link}
    /\ opened \in Inodes \cup {NoEntry, Outside} /\ Len(data) <= ChunkLimit + 1
    /\ (progress = "done") = (result # "none")

\* The look at the file went through a link that had taken the directory's place,
\* which happens only without confinement (policy.py:449).
LookedThroughLink == looked.file = Link

\* A review goes by a policy, or by none, only if at one moment of the call the
\* repository's policy was just that: never by parts of two policies, never by
\* a file of a directory that had been replaced, never by none while there was
\* one all along, unless the look was through such a link.  Everything else is an
\* error, which fails the review.
PolicyReadIsTrue ==
    /\ ReadTypeOK
    /\ result \in Versions \cup {"absent", "mixed"} =>
         result \in meant \/ (result = "absent" /\ LookedThroughLink)
=============================================================================
