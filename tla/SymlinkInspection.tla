------------------------- MODULE SymlinkInspection --------------------------
(***************************************************************************)
(* worktree_collision.py: a change that turns a path into a symbolic link  *)
(* would destroy the directory that is there now.  The directory is walked *)
(* by file descriptors, within limits, while other programs may replace    *)
(* what is being walked.                                                   *)
(***************************************************************************)
EXTENDS Naturals, Sequences, FiniteSets

CONSTANTS
    Nodes,                      \* paths of the working tree
    Up,                         \* the directory each is in; a link's own path is in "top"
    Proposed,                   \* sequence of the paths a change turns into links
    TransitionLimit, TreeLimit, TotalLimit, DepthLimit,
    MaxReplaced                 \* how often another program replaces something

VARIABLES
    kind,       \* what is at each path now
    replaced,   \* the paths where something was replaced since the inspection began
    lost,       \* directories that were replaced while they were held
    tracked,    \* the paths git tracks, or NoAuthority
    link,       \* which proposed link is being inspected
    phase,      \* where the inspection is
    stack,      \* directories opened and not yet listed
    names,      \* entries of the listed directory still to be looked at
    child,      \* the directory between being looked at and being opened
    left,       \* entries_remaining of all inspections
    results     \* one record per inspected link

inspectVars == <<kind, replaced, lost, tracked, link, phase, stack, names, child, left, results>>

NoAuthority == {"no authority"}
Kinds == {"absent", "file", "dir", "link"}
Retained == SubSeq(Proposed, 1, IF Len(Proposed) < TransitionLimit
                                THEN Len(Proposed) ELSE TransitionLimit)

\* Every path with the directories it is in: what every set has that has the
\* path and, with each path in it, the directory of that path.
Closed(paths) == \A n \in paths : Up[n] \in paths \cup {"top"}
Lineage == [n \in Nodes |-> {a \in Nodes :
                \A paths \in SUBSET Nodes : n \in paths /\ Closed(paths) => a \in paths}]
Above(n) == IF n \in Nodes THEN Lineage[n] ELSE {}

ASSUME InspectionAssumption ==
    /\ {"top", "none"} \cap Nodes = {} /\ Up \in [Nodes -> Nodes \cup {"top"}]
    /\ \A n \in Nodes : n \notin Above(Up[n])
    /\ Proposed \in Seq(Nodes) /\ \A i \in DOMAIN Proposed : Up[Proposed[i]] = "top"
    /\ {TransitionLimit, TreeLimit, TotalLimit, DepthLimit, MaxReplaced} \subseteq Nat

Children(n) == {c \in Nodes : Up[c] = n /\ kind[c] # "absent"}

\* A working tree: nothing is inside what is no directory.  "blocked": a
\* component of the path of a proposed link is itself a link.
WorkingTrees ==
    {k \in [Nodes -> Kinds \cup {"blocked"}] :
        \A n \in Nodes : /\ k[n] = "blocked" => Up[n] = "top"
                         /\ k[n] # "absent" => Up[n] = "top" \/ k[Up[n]] = "dir"}

Childless == {n \in Nodes : \A c \in Nodes : Up[c] # n}

InspectInit ==
    /\ kind \in WorkingTrees /\ replaced = {} /\ lost = {} /\ tracked \in {NoAuthority} \cup SUBSET Childless
    /\ link = 1 /\ phase = "stat" /\ stack = <<>> /\ names = {} /\ child = "none"
    /\ left = TotalLimit /\ results = <<>>

\* Mutant: the tracked paths without the directories they are in.
Represented_Flat == tracked

\* represented_paths: the tracked paths and the directories they are in.
Represented == UNION {Above(n) : n \in tracked}

-----------------------------------------------------------------------------
(* The result of one inspection *)

Result == [object |-> "unknown", nonempty |-> FALSE, inspected |-> 0, missing |-> {},
           exhausted |-> TRUE]

\* A limit: what was seen counts, and it is not all.
Bounded(r) == [r EXCEPT !.nonempty = TRUE, !.exhausted = FALSE]

\* _fail; directory_nonempty is unknown unless an exception was caught.
Failed(r) == [r EXCEPT !.exhausted = FALSE]

Current == results[Len(results)]
Update(r) == results' = [results EXCEPT ![Len(results)] = r]

\* The inspection of this link ends; the next one begins.
Ends(r) ==
    /\ Update(r) /\ link' = link + 1 /\ phase' = "stat" /\ stack' = <<>> /\ names' = {}
    /\ child' = "none"

-----------------------------------------------------------------------------
(* _scan_transition *)

StatTarget ==
    /\ phase = "stat" /\ link <= Len(Retained)
    /\ LET k == kind[Retained[link]]
           open == k = "dir" /\ tracked # NoAuthority
           r == [Result EXCEPT !.object = k, !.exhausted = k \in {"absent", "file"} \/ open]
       IN /\ results' = Append(results, r)
          /\ IF open THEN phase' = "open" /\ child' = Retained[link] /\ link' = link
                     ELSE phase' = "stat" /\ child' = "none" /\ link' = link + 1
    /\ lost' = {} /\ UNCHANGED <<kind, replaced, tracked, stack, names, left>>

\* A directory that was looked at is opened without following links, and must
\* be the one that was looked at.
Open ==
    /\ phase = "open"
    /\ IF kind[child] = "dir" /\ child \notin lost
       THEN /\ stack' = Append(stack, child) /\ child' = "none"
            /\ phase' = IF names = {} THEN "list" ELSE "entries"
            /\ UNCHANGED <<names, link, results>>
       ELSE Ends([Failed(Current) EXCEPT !.nonempty = FALSE])
    /\ UNCHANGED <<kind, replaced, lost, tracked, left>>

\* What was a directory and has been removed since lists nothing.
List ==
    /\ phase = "list" /\ stack # <<>>
    /\ LET d == stack[Len(stack)]
       IN names' = IF d \in lost THEN {} ELSE Children(d)
    /\ stack' = SubSeq(stack, 1, Len(stack) - 1)
    /\ phase' = IF names' = {} THEN "list" ELSE "entries"
    /\ UNCHANGED <<kind, replaced, lost, tracked, link, child, left, results>>

Exhausted ==
    /\ phase = "list" /\ stack = <<>>
    /\ Ends([Current EXCEPT !.nonempty = Current.inspected > 0])
    /\ UNCHANGED <<kind, replaced, lost, tracked, left>>

Depth(n) == Cardinality(Above(Up[n])) - 1

Entry(n) ==
    /\ phase = "entries" /\ n \in names
    /\ LET gone == kind[n] = "absent" \/ Up[n] \in lost
           seen == [Current EXCEPT !.inspected = @ + 1,
                                   !.missing = @ \cup ({n} \ Represented)]
       IN IF Current.inspected >= TreeLimit \/ left = 0
          THEN Ends(Bounded(Current)) /\ left' = left
          ELSE IF gone
          THEN Ends([Failed(Current) EXCEPT !.nonempty = Current.inspected > 0]) /\ left' = left
          ELSE /\ left' = left - 1
               /\ IF kind[n] = "dir" /\ Depth(n) >= DepthLimit THEN Ends(Bounded(seen))
                  ELSE /\ Update(seen) /\ names' = names \ {n} /\ UNCHANGED <<link, stack>>
                       /\ IF kind[n] = "dir" THEN phase' = "open" /\ child' = n
                          ELSE /\ phase' = (IF names' = {} THEN "list" ELSE "entries")
                               /\ child' = "none"
    /\ lost' = lost \ {n} /\ UNCHANGED <<kind, replaced, tracked>>

\* _classify_ignored: one call of git for all inspections; when it fails
\* every inspection with something to classify is incomplete.
Classify ==
    /\ phase = "stat" /\ link > Len(Retained) /\ phase' = "done"
    /\ \E answered \in BOOLEAN :
         results' = IF answered THEN results
                    ELSE [i \in DOMAIN results |->
                            IF results[i].missing = {} THEN results[i] ELSE Failed(results[i])]
    /\ UNCHANGED <<kind, replaced, lost, tracked, link, stack, names, child, left>>

\* Another program removes what is at a path, and what is in it, and puts
\* something else there.
Replace(n, k) ==
    /\ phase # "done" /\ Cardinality(replaced) < MaxReplaced /\ k # kind[n] /\ kind[n] # "blocked"
    /\ Up[n] \in {"top"} \cup {d \in Nodes : kind[d] = "dir"}
    /\ kind' = [m \in Nodes |-> IF m = n THEN k
                                ELSE IF n \in Above(m) THEN "absent" ELSE kind[m]]
    /\ replaced' = replaced \cup {n}
    /\ lost' = lost \cup {m \in Nodes : n \in Above(m)}
    /\ UNCHANGED <<tracked, link, phase, stack, names, child, left, results>>

InspectNext ==
    \/ StatTarget \/ Open \/ List \/ Exhausted \/ Classify
    \/ \E n \in Nodes : Entry(n) \/ \E k \in Kinds : Replace(n, k)

InspectSpec == InspectInit /\ [][InspectNext]_inspectVars

-----------------------------------------------------------------------------
(* What the review makes of it *)

\* symlink_directory_collisions and symlink_worktree_inspection_incomplete
Collisions == {i \in DOMAIN results : /\ results[i].object = "dir" /\ results[i].nonempty
                                      /\ results[i].missing # {}}
Incomplete == {i \in DOMAIN results : ~results[i].exhausted}
              \cup (IF Len(Proposed) > TransitionLimit THEN {0} ELSE {})

Untouched(n) == Above(n) \cap replaced = {}
AtRisk(n) == /\ kind[n] # "absent" /\ Up[n] # "top"
             /\ \A m \in tracked : m \in Nodes => n \notin Above(m)

-----------------------------------------------------------------------------
(* Properties *)

\* Every variable holds a value of its kind; the entries that were looked at
\* are the ones the budget paid for.
InspectTypeOK ==
    /\ phase \in {"stat", "open", "list", "entries", "done"}
    /\ link \in 1..Len(Proposed) + 1 /\ left \in 0..TotalLimit
    /\ Len(results) <= Len(Retained) /\ names \subseteq Nodes

\* A review that neither names a collision nor says that it could not look
\* leaves nothing at risk: no file that git does not track was there all the
\* time below a path that becomes a link, whatever was replaced around it.
NothingIsOverwritten ==
    phase = "done" /\ Collisions = {} /\ Incomplete = {} =>
        \A i \in DOMAIN Proposed, n \in Nodes :
            Proposed[i] \in Above(n) /\ AtRisk(n) => ~Untouched(n)

\* In a tree that nobody touches a directory is called a collision only for
\* what git does not track.
CollisionsAreReal ==
    phase = "done" /\ replaced = {} =>
        \A i \in Collisions : \E n \in Nodes : Retained[i] \in Above(n) /\ AtRisk(n)
                                               /\ kind[Up[n]] = "dir"

\* An inspection misses no file at risk and invents none.
InspectionIsTrue == InspectTypeOK /\ NothingIsOverwritten /\ CollisionsAreReal
=============================================================================
