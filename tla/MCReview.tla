------------------------------ MODULE MCReview ------------------------------
(***************************************************************************)
(* The review of a change and what it is made from: the parser of diffs,   *)
(* the architecture contract, and the ledgers of runs and of decisions.    *)
(* They share no state, a review takes their answers as inputs, so that    *)
(* one run may explore each of them in turn: `part` says which.            *)
(***************************************************************************)
EXTENDS MCChangeReview, DiffParser, ArchitectureContract, ExecutionLedger,
        DecisionLedger, TLC

CONSTANTS
    f, up, null, none,                          \* DiffParser
    a, b, ib, iu, ui, data, r1, r2,             \* ArchitectureContract
    pytest, one                                 \* ExecutionLedger

VARIABLE part

-----------------------------------------------------------------------------
\* Diffs of one file and a path that escapes; what differs by name only is
\* offered once.
DiffLines ==
    [kind : {"git"}, old : {f}, new : {f}] \cup [kind : {"git"}, old : {up}, new : {up}]
    \cup [kind : {"git_broken", "@@_broken"}] \cup [kind : {"--- ", "+++ "}, path : {f, up, null}]
    \cup [kind : {"rename from", "copy from"}, path : {f, up}]
    \cup [kind : {"rename to", "copy to"}, path : {f, up}]
    \cup [kind : {"new file", "deleted file"}, link : {TRUE}]
    \cup [kind : {"@@"}, del : 0..MaxCount, add : 0..MaxCount]
    \cup [kind : {"+", "-", " ", "no newline", "other"}]

\* Two files, of which one may import the other, and contracts that declare,
\* retire and replace a rule between their layers.
Lay(u, d, must) == (ui :> [paths |-> u, must_match |-> FALSE]) @@ (data :> [paths |-> d, must_match |-> must])
Forbids(status) == [from |-> ui, to |-> data, status |-> status, replaced_by |-> none, replaces |-> {}]
Contract(l, rs) == [coverage |-> {a, b}, layers |-> l, rules |-> rs]
ArchContracts == {
   Contract(Lay({a}, {b}, TRUE), r1 :> Forbids("active")),
   Contract(Lay({a}, {b}, TRUE), (r1 :> [Forbids("retired") EXCEPT !.replaced_by = r2]) @@
        (r2 :> [Forbids("active") EXCEPT !.from = data, !.to = ui, !.replaces = {r1}]))}
Module(parses, imports) == [parses |-> parses, imports |-> imports, dynamic |-> FALSE]
ArchFiles == {<<>>, a :> Module(TRUE, {ib}), a :> Module(FALSE, {}), b :> Module(TRUE, {}),
              (a :> Module(TRUE, {ib})) @@ (b :> Module(TRUE, {})),
              (a :> Module(FALSE, {})) @@ (b :> Module(TRUE, {}))}
ArchTrees == [contract : ArchContracts \cup {nopath}, files : ArchFiles]
ArchTargets == (ib :> {b}) @@ (iu :> {})

\* A claim that the tests ran is answered by them and by one of them.
ExecAnswers == (pytest :> {pytest, one}) @@ (one :> {one})

ASSUME ArchitectureAssumption

-----------------------------------------------------------------------------
(* One part moves, the others wait at their beginning. *)

Waits == /\ request = CHOOSE r \in MCRequests : TRUE
         /\ packet = WholePacket /\ file = MCCommitted
         /\ ledger = CHOOSE l \in MCLedgers : TRUE

ReviewInit ==
    /\ part \in {"change", "diff", "architecture", "execution", "decision"}
    /\ part = "change" \/ (part # "change" /\ Waits)
    /\ Init /\ DiffInit /\ ContractInit /\ ExecInit /\ DecisionInit

ReviewNext ==
    /\ UNCHANGED part
    /\ \/ part = "change" /\ Next
             /\ UNCHANGED <<diffVars, contractVars, execVars, decisionVars>>
       \/ part = "diff" /\ DiffNext
             /\ UNCHANGED <<vars, contractVars, execVars, decisionVars>>
       \/ part = "architecture" /\ ContractNext
             /\ UNCHANGED <<vars, diffVars, execVars, decisionVars>>
       \/ part = "execution" /\ ExecNext
             /\ UNCHANGED <<vars, diffVars, contractVars, decisionVars>>
       \/ part = "decision" /\ DecisionNext
             /\ UNCHANGED <<vars, diffVars, contractVars, execVars>>

all == <<part, vars, diffVars, contractVars, execVars, decisionVars>>
ReviewSpec == ReviewInit /\ [][ReviewNext]_all

=============================================================================
