------------------------------ MODULE MCThreads ------------------------------
(***************************************************************************)
(* The two places where threads hand each other work through a queue: the  *)
(* reviews of the browser, and one bounded call of git.  They share no     *)
(* state, so that one run may explore each in turn: `part` says which.     *)
(***************************************************************************)
EXTENDS WorkbenchReview, GitBounded

VARIABLE part

ThreadsInit ==
    /\ part \in {"reviews", "call"}
    /\ Init /\ CallInit

ThreadsNext ==
    /\ UNCHANGED part
    /\ \/ part = "reviews" /\ Next /\ UNCHANGED callVars
       \/ part = "call" /\ CallNext /\ UNCHANGED vars

\* The fairness of each component, for the behaviours in which it moves.
ThreadsFairness ==
    /\ \A r \in Requests : WF_vars(part = "reviews" /\ Handle(r))
    /\ WF_vars(part = "reviews" /\ (Take \/ Begin \/ Called))
    /\ WF_vars(part = "reviews" /\ Drain)
    /\ \A s \in Streams : /\ WF_callVars(part = "call" /\ Pull(s))
                          /\ WF_callVars(part = "call" /\ Read(s))
    /\ WF_callVars(part = "call" /\ Timeout)
    /\ WF_callVars(part = "call" /\ Collect)
    /\ WF_callVars(part = "call" /\ Reap)
    /\ WF_callVars(part = "call" /\ killed /\ GitExit)
    /\ WF_callVars(part = "call" /\ Die)

ThreadsSpec ==
    /\ ThreadsInit /\ [][ThreadsNext]_<<part, vars, callVars>>
    /\ ThreadsFairness

\* A call of git that is made comes back, however long git hangs and however much
\* it writes, unless something that git started holds on to the pipes for ever.
GitCallEnds == part = "call" => CallEnds
=============================================================================
