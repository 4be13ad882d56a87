--------------------------- MODULE AcceptedBaseline ---------------------------
(***************************************************************************)
(* What the baseline store promises to everything that reads it: there is  *)
(* one active baseline or none; accepting a new one is a single instant;   *)
(* each acceptance is of a build never accepted before; and what a build   *)
(* was accepted with never changes and never goes away, so that a report   *)
(* that names it can still be read against it.                             *)
(***************************************************************************)
CONSTANTS BuildIds, Sources, NoBuild, NoSource

VARIABLES active, accepted

vars == <<active, accepted>>

Init ==
    /\ active = NoBuild
    /\ accepted = [b \in BuildIds |-> NoSource]

Accept(b, s) ==
    /\ accepted[b] = NoSource
    /\ active' = b
    /\ accepted' = [accepted EXCEPT ![b] = s]

Next == \E b \in BuildIds, s \in Sources : Accept(b, s)

Spec == Init /\ [][Next]_vars
=============================================================================
