---------------------------- MODULE PacketFiles -----------------------------
(***************************************************************************)
(* packet.py: the files of a repository are scanned within limits and      *)
(* written as a packet, file by file and the receipt last; a packet is     *)
(* verified against its receipt and against the repository.  Files change  *)
(* while they are scanned, and a writer may die.                           *)
(***************************************************************************)
EXTENDS Naturals, Sequences, FiniteSets

CONSTANTS
    Sources,                \* the files of the repository
    Folders, TopFolder,     \* its directories, and the one the others are in
    FolderOf,               \* the directory of each file
    EntryLimit,             \* max_entries, REPOSITORY_ENTRY_LIMIT
    ReadLimit,              \* max_total_read_bytes: the content n is n long
    CleanupLimit,           \* PACKET_CLEANUP_ENTRY_LIMIT
    MaxEdits, MaxPackets

ASSUME PacketAssumption ==
    /\ IsFiniteSet(Sources) /\ IsFiniteSet(Folders) /\ Sources \cap Folders = {}
    /\ TopFolder \in Folders /\ FolderOf \in [Sources -> Folders]
    /\ EntryLimit \in Nat /\ ReadLimit \in Nat /\ CleanupLimit \in Nat
    /\ MaxEdits \in Nat /\ MaxPackets \in Nat

VARIABLES
    source,     \* the content of each file of the repository, 0 for none
    edits,      \* how many edits were made
    step,       \* where the writer is
    scan,       \* what the scanner and the inventory have
    out,        \* the packet directory
    made,       \* how many packets were begun
    check,      \* verify_packet: what it has read
    seen        \* history: the contents each file had since verification began

packetVars == <<source, edits, step, scan, out, made, check, seen>>

\* Mutant: the receipt before the last file.
Artifacts_Early == <<"manifest", "inventory", "receipt", "context">>

\* The files of a packet in the order they are written, and removed.
Artifacts == <<"manifest", "inventory", "context", "receipt">>
ArtifactNames == {Artifacts[i] : i \in DOMAIN Artifacts}
RemovedIn == <<"context", "inventory", "manifest", "receipt">>
OUTPUT_FILES == <<"manifest", "context", "inventory">>
Hashed == ArtifactNames \ {"receipt"}

Absent == [of |-> 0]
TornFile == [of |-> 0, torn |-> TRUE]
Nowhere == [s \in Sources |-> 0]

\* `files`: what is included; `ignored`: files and directories left out, each
\* with a reason; `hashes`: the inventory, for the files that are `listed`.
\* History: the files that are `there` since the scan began, and those
\* `touched` since they were scanned.
NoScan == [folders |-> {}, todo |-> {}, entries |-> 0, read |-> 0, complete |-> TRUE,
           files |-> Nowhere, ignored |-> {}, listed |-> {}, hashes |-> Nowhere,
           there |-> {}, touched |-> {}]
NoCheck == [stage |-> "idle"]

PacketInit ==
    /\ source \in [Sources -> {0, 1}] /\ edits = 0 /\ step = "idle" /\ scan = NoScan
    /\ out = [a \in ArtifactNames |-> Absent] /\ made = 0
    /\ check = NoCheck /\ seen = [s \in Sources |-> {}]

Keep == UNCHANGED <<source, edits, check, seen>>
Scans == UNCHANGED <<step, out, made>> /\ Keep

-----------------------------------------------------------------------------
(* SourceScanner *)

BeginScan ==
    /\ step = "idle" /\ made < MaxPackets /\ made' = made + 1 /\ step' = "scan"
    /\ \E listed \in BOOLEAN :      \* git_tracked_paths, or its output limit
         scan' = [NoScan EXCEPT !.folders = {TopFolder}, !.complete = listed,
                                !.there = {s \in Sources : source[s] # 0}]
    /\ UNCHANGED out /\ Keep

\* A limit ends the scan and makes it incomplete.
Limited(sc) == [sc EXCEPT !.folders = {}, !.todo = {}, !.complete = FALSE]

\* What os.scandir yields of a directory: its files and the directories in it.
Within(d) == {s \in Sources : FolderOf[s] = d /\ source[s] # 0}
Below(d) == IF d = TopFolder THEN Folders \ {TopFolder} ELSE {}
Yielded(d) == scan.entries + Cardinality(Within(d) \cup Below(d))

\* A directory that cannot be listed is ignored, and so is one within it that
\* is hidden, a link, or of a name that is; below max_depth none is entered.
ListFolder(d) ==
    /\ step = "scan" /\ scan.complete /\ scan.todo = {} /\ d \in scan.folders
    /\ \/ scan' = [scan EXCEPT !.folders = @ \ {d}, !.ignored = @ \cup {d}]
       \/ /\ Yielded(d) > EntryLimit \/ Below(d) # {}
          /\ scan' = Limited(scan)
       \/ /\ Yielded(d) <= EntryLimit
          /\ \E skipped \in SUBSET Below(d) :
               scan' = [scan EXCEPT !.folders = (@ \ {d}) \cup (Below(d) \ skipped),
                                    !.todo = Within(d), !.entries = Yielded(d),
                                    !.ignored = @ \cup skipped]
    /\ Scans

\* A file is ignored when it is gone, too large, not text, or cannot be read.
Ignore(s) == [scan EXCEPT !.todo = @ \ {s}, !.ignored = @ \cup {s}]
Include(s) == [scan EXCEPT !.todo = @ \ {s}, !.read = @ + source[s],
                           !.files[s] = source[s], !.touched = @ \ {s}]

\* _include_file: one entry of a directory that was listed.
ScanFile(s) ==
    /\ step = "scan" /\ scan.complete /\ s \in scan.todo
    /\ \/ scan' = Ignore(s)
       \/ source[s] # 0 /\ scan.read + source[s] > ReadLimit /\ scan' = Limited(scan)
       \/ source[s] # 0 /\ scan.read + source[s] <= ReadLimit /\ scan' = Include(s)
    /\ Scans

-----------------------------------------------------------------------------
(* PacketWriter *)

Existing == {a \in ArtifactNames : out[a] # Absent}

\* write_all refuses what was not scanned completely, then prepare_out.
Refuse ==
    /\ step = "scan" /\ ~scan.complete /\ step' = "idle" /\ scan' = NoScan
    /\ UNCHANGED <<out, made>> /\ Keep

Prepare ==
    /\ step = "scan" /\ scan.complete /\ scan.folders = {} /\ scan.todo = {} /\ step' = "clean"
    /\ UNCHANGED <<scan, out, made>> /\ Keep

\* _cleanup_packet_output: in the order of names, as many as the limit allows;
\* a directory with more entries than that is not touched.
Clean ==
    /\ step = "clean" /\ Existing # {} /\ Cardinality(Existing) <= CleanupLimit
    /\ LET i == CHOOSE i \in DOMAIN RemovedIn :
                  /\ RemovedIn[i] \in Existing
                  /\ \A j \in 1..(i - 1) : RemovedIn[j] \notin Existing
       IN out' = [out EXCEPT ![RemovedIn[i]] = Absent]
    /\ UNCHANGED <<step, scan, made>> /\ Keep

\* PacketCleanupError: over the limit, or an entry that cannot be removed.
CleanFails ==
    /\ step = "clean" /\ Existing # {} /\ step' = "idle"
    /\ scan' = NoScan /\ UNCHANGED <<out, made>> /\ Keep

Cleaned ==
    /\ step = "clean" /\ Existing = {} /\ step' = "manifest"
    /\ UNCHANGED <<scan, out, made>> /\ Keep

\* _tracked_file_inventory: each file is read again; one that is gone, cannot
\* be read, or is not among those Git lists gets no hash.
ListFile(s) ==
    /\ step = "inventory" /\ s \in Sources \ scan.listed
    /\ \E h \in {0, source[s]} :
         scan' = [scan EXCEPT !.listed = @ \cup {s}, !.hashes[s] = h]
    /\ Scans

\* The receipt hashes the files that are there by then.  `of` is the time of the
\* run: every file carries it, so that no hash is of two packets.  The rest of a
\* file, from `scan`, is here where it is read again: in the manifest.
Content(a) ==
    CASE a = "receipt" -> [of |-> made, hashes |-> [b \in Existing |-> out[b]]]
      [] a = "manifest" -> [of |-> made, files |-> scan.files]
      [] OTHER -> [of |-> made]

WriteArtifact ==
    \E i \in DOMAIN Artifacts :
        /\ step = Artifacts[i] /\ (step = "inventory" => scan.listed = Sources)
        /\ out' = [out EXCEPT ![Artifacts[i]] = Content(Artifacts[i])]
        /\ step' = IF i = Len(Artifacts) THEN "idle" ELSE Artifacts[i + 1]
        /\ scan' = IF i = Len(Artifacts) THEN NoScan ELSE scan
        /\ UNCHANGED made /\ Keep

\* The program fails or dies, perhaps within a file.
WriterDies ==
    /\ step # "idle" /\ step' = "idle" /\ scan' = NoScan
    /\ \/ out' = out
       \/ step \in ArtifactNames /\ out' = [out EXCEPT ![step] = TornFile]
    /\ UNCHANGED made /\ Keep

-----------------------------------------------------------------------------
(* verify_packet *)

Checks == UNCHANGED <<source, edits, step, scan, out, made>>

\* `found`, history: the packet directory when the receipt was read.
BeginCheck ==
    /\ check.stage = "idle"
    /\ check' = IF out["receipt"].of = 0 THEN [stage |-> "fail"]
                ELSE IF "manifest" \notin DOMAIN out["receipt"].hashes THEN [stage |-> "fail"]
                ELSE [stage |-> "artifacts", receipt |-> out["receipt"], found |-> out, ok |-> TRUE,
                      todo |-> DOMAIN out["receipt"].hashes, manifest |-> Absent]
    /\ seen' = [s \in Sources |-> {source[s]}]
    /\ Checks

\* The artifacts in the order of the receipt: one that is not there ends the
\* verification, one with another hash fails it.
CheckArtifact(a) ==
    /\ check.stage = "artifacts" /\ a \in check.todo
    /\ \E i \in DOMAIN OUTPUT_FILES :
         OUTPUT_FILES[i] = a /\ \A j \in 1..(i - 1) : OUTPUT_FILES[j] \notin check.todo
    /\ check' = IF out[a] = Absent THEN [stage |-> "fail"]
                ELSE [check EXCEPT !.todo = @ \ {a},
                                   !.ok = @ /\ out[a] = check.receipt.hashes[a]]
    /\ Checks /\ UNCHANGED seen

\* --against: the manifest is read again, whatever is there by now, and its
\* files are compared one after the other.
BeginAgainst ==
    /\ check.stage = "artifacts" /\ check.todo = {}
    /\ check' = IF out["manifest"].of = 0 THEN [stage |-> "fail"]
                ELSE [check EXCEPT !.stage = "against", !.manifest = out["manifest"],
                                   !.todo = {s \in Sources : out["manifest"].files[s] # 0}]
    /\ Checks /\ UNCHANGED seen

CheckSource(s) ==
    /\ check.stage = "against" /\ s \in check.todo
    /\ check' = IF source[s] = 0 THEN [stage |-> "fail"]
                ELSE [check EXCEPT !.todo = @ \ {s},
                                   !.ok = @ /\ source[s] = check.manifest.files[s]]
    /\ Checks /\ UNCHANGED seen

\* A limit, or a file that cannot be read or changes while it is read.
CheckFails ==
    /\ check.stage \in {"artifacts", "against"} /\ check' = [stage |-> "fail"]
    /\ Checks /\ UNCHANGED seen

\* Without --against this is all; with it the repository is scanned again,
\* and a scan that is not complete fails the verification.
EndCheck ==
    /\ check.stage \in {"artifacts", "against"} /\ check.todo = {}
    /\ \E complete \in BOOLEAN :
         check' = IF check.ok /\ (check.stage = "against" => complete)
                  THEN [check EXCEPT !.stage = "pass"] ELSE [stage |-> "fail"]
    /\ Checks /\ UNCHANGED seen

CheckAgain ==
    /\ check.stage \in {"pass", "fail"} /\ check' = NoCheck
    /\ seen' = [s \in Sources |-> {}]
    /\ Checks

-----------------------------------------------------------------------------

Edit(s, c) ==
    /\ edits < MaxEdits /\ edits' = edits + 1 /\ c # source[s]
    /\ source' = [source EXCEPT ![s] = c]
    /\ seen' = [seen EXCEPT ![s] = IF @ = {} THEN @ ELSE @ \cup {c}]
    /\ scan' = IF step = "idle" THEN scan
               ELSE [scan EXCEPT !.touched = @ \cup {s}, !.there = IF c = 0 THEN @ \ {s} ELSE @]
    /\ UNCHANGED <<step, out, made, check>>

PacketNext ==
    \/ BeginScan \/ (\E d \in Folders : ListFolder(d)) \/ (\E s \in Sources : ScanFile(s))
    \/ Refuse \/ Prepare \/ Clean \/ CleanFails \/ Cleaned
    \/ (\E s \in Sources : ListFile(s)) \/ WriteArtifact \/ WriterDies
    \/ BeginCheck \/ (\E a \in ArtifactNames : CheckArtifact(a)) \/ BeginAgainst
    \/ (\E s \in Sources : CheckSource(s)) \/ CheckFails \/ EndCheck \/ CheckAgain
    \/ \E s \in Sources, c \in 0..2 : Edit(s, c)

PacketSpec == PacketInit /\ [][PacketNext]_packetVars

-----------------------------------------------------------------------------
(* Properties *)

PacketTypeOK ==
    /\ source \in [Sources -> 0..2] /\ edits \in 0..MaxEdits /\ made \in 0..MaxPackets
    /\ step \in {"idle", "scan", "clean"} \cup ArtifactNames
    /\ scan.entries <= EntryLimit /\ scan.read <= ReadLimit
    /\ check.stage \in {"idle", "artifacts", "against", "pass", "fail"}

\* A packet that verifies lay whole in its directory when its receipt was read:
\* every file of it was there as one writer had written it, none was removed or
\* replaced yet.  The manifest whose files were compared with the repository is
\* that packet's, or one that a later writer had put there during the
\* verification, finished or not: nothing ties it to the receipt.  Each of its
\* files had the listed content in the repository during the verification.
VerifiedIsTrue ==
    check.stage = "pass" =>
        LET receipt == check.receipt
        IN /\ \A a \in Hashed :
                 check.found[a] = receipt.hashes[a] /\ check.found[a].of = receipt.of
           /\ \/ check.manifest \in {Absent, check.found["manifest"]}
              \/ check.manifest.of > receipt.of
           /\ check.manifest # Absent =>
                 \A s \in Sources : check.manifest.files[s] \in {0} \cup seen[s]

\* What is left of a packet whose writer or whose removal ended early, and
\* what a new writer is in the middle of, is no packet: no receipt is there
\* whose every file is still the one it was written for.
OnlyFinishedPacketsVerify ==
    LET receipt == out["receipt"]
    IN receipt.of # 0 /\ (\A a \in DOMAIN receipt.hashes : out[a] = receipt.hashes[a]) =>
          \A a \in ArtifactNames : out[a].of = receipt.of

\* A file that has been there since the scan began is in the packet, or the
\* packet lists it, or a directory it is in, as ignored: no limit and no error
\* leaves it out silently.
ScanIsWhole ==
    step \in {"clean"} \cup ArtifactNames =>
        \A s \in scan.there :
            scan.files[s] # 0 \/ {s, FolderOf[s], TopFolder} \cap scan.ignored # {}

\* The inventory is hashed after the scan: it lists a file of the packet with
\* the packed content, or without a hash, unless the file was changed between
\* its scan and its listing.
InventoryAgrees ==
    step \in {"context", "receipt"} =>
        \A s \in Sources :
            scan.files[s] # 0 /\ scan.hashes[s] \notin {0, scan.files[s]} => s \in scan.touched

\* A packet is scanned whole and listed as it was scanned; it verifies only on
\* files that one writer had put there under its receipt, and against contents
\* that the repository had.
PacketsAreTrue ==
    PacketTypeOK /\ VerifiedIsTrue /\ OnlyFinishedPacketsVerify /\ ScanIsWhole /\ InventoryAgrees
=============================================================================
