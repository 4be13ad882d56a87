----------------------------- MODULE GitBounded -----------------------------
(***************************************************************************)
(* One bounded call of git (git.py: _bounded_process).  Two reader threads *)
(* take chunks from git's pipes and put them into a queue of limited size; *)
(* the caller takes from the queue until both readers are done, kills git  *)
(* when there is too much or it takes too long, and throws the rest away.  *)
(* git, and a helper process it may leave behind with its pipes, are the   *)
(* environment.  The call is one without input.                            *)
(***************************************************************************)
EXTENDS Naturals, Sequences

CONSTANTS
    Limit,      \* output_limit_bytes
    Chunk,      \* what a reader asks for at once
    QueueSize,  \* maxsize of the queue
    PipeSize,   \* capacity of a pipe
    MaxOutput,  \* what git writes at most (a bound)
    CallFaults  \* which faults the environment may inject

ASSUME GitAssumption ==
    /\ Limit \in Nat /\ MaxOutput \in Nat
    /\ Chunk \in Nat \ {0} /\ QueueSize \in Nat \ {0} /\ PipeSize \in Nat \ {0}
    /\ CallFaults \subseteq {"read", "helper"}

Streams == {"stdout", "stderr"}

VARIABLES
    git,      \* the process: running, exiting, exited, or reaped by its parent
    code,     \* its return code; 9 for one that was killed
    killed,   \* was SIGKILL sent to it?
    shut,     \* has it closed its pipes?
    helper,   \* does a process that git started hold its pipes?
    written,  \* how much came into each output pipe
    pipe,     \* how much is in it
    reader,   \* where each reader thread is
    buffer,   \* what it has read of its next chunk
    taken,    \* how much it has put into the queue
    events,   \* the events
    main,     \* where the caller is
    open,     \* open_readers
    state,    \* complete, bounded or timeout
    pending,  \* is there a pending_error?
    kept,     \* how much of each stream is in chunks
    result    \* acquisition_state of the call, or the error it raised

process == <<git, code, killed, shut, helper>>
reading == <<reader, buffer, taken>>
caller  == <<main, open, state, pending, kept, result>>
callVars == <<process, written, pipe, reading, events, caller>>

\* An event: a chunk of a stream and where in the stream it starts, the end of
\* a stream, or an error.
Events ==
    [kind : {"chunk"}, of : Streams, at : Nat, size : Nat \ {0}]
    \cup [kind : {"end", "error"}, of : Streams]

CallTypeOK ==
    /\ git \in {"running", "exiting", "exited", "reaped"}
    /\ code \in {0, 1, 9}
    /\ killed \in BOOLEAN /\ shut \in BOOLEAN /\ helper \in BOOLEAN
    /\ written \in [Streams -> Nat] /\ pipe \in [Streams -> Nat]
    /\ reader \in [Streams -> {"reading", "failing", "ending", "done"}]
    /\ buffer \in [Streams -> 0 .. Chunk]
    /\ taken \in [Streams -> Nat]
    /\ events \in Seq(Events) /\ Len(events) <= QueueSize
    /\ main \in {"draining", "reaping", "returned"}
    /\ open \in 0 .. 2
    /\ state \in {"complete", "bounded", "timeout"}
    /\ pending \in BOOLEAN
    /\ kept \in [Streams -> Nat]
    /\ result \in {"none", "complete", "bounded", "failed", "error"}

CallInit ==
    /\ git = "running" /\ code = 0 /\ killed = FALSE /\ shut = FALSE /\ helper = FALSE
    /\ written = [s \in Streams |-> 0] /\ pipe = [s \in Streams |-> 0]
    /\ reader = [s \in Streams |-> "reading"]
    /\ buffer = [s \in Streams |-> 0] /\ taken = [s \in Streams |-> 0]
    /\ events = <<>>
    /\ main = "draining" /\ open = 2 /\ state = "complete" /\ pending = FALSE
    /\ kept = [s \in Streams |-> 0]
    /\ result = "none"

-----------------------------------------------------------------------------
(* git and what it starts *)

\* Somebody holds the other ends of the pipes.
Held == (git = "running" /\ ~shut) \/ helper

GitWrite(s) ==
    /\ Held /\ pipe[s] < PipeSize /\ written["stdout"] + written["stderr"] < MaxOutput
    /\ written' = [written EXCEPT ![s] = @ + 1]
    /\ pipe' = [pipe EXCEPT ![s] = @ + 1]
    /\ UNCHANGED <<process, reading, events, caller>>

\* git starts a helper that inherits its pipes; the helper may end.
Helper ==
    /\ \/ "helper" \in CallFaults /\ git = "running" /\ ~shut /\ ~helper /\ helper' = TRUE
       \/ helper /\ helper' = FALSE
    /\ UNCHANGED <<git, code, killed, shut, written, pipe, reading, events, caller>>

\* git closes its pipes and goes on.
GitShut ==
    /\ git = "running" /\ ~shut
    /\ shut' = TRUE
    /\ UNCHANGED <<git, code, killed, helper, written, pipe, reading, events, caller>>

\* The process ends by itself, or of the signal: its pipes are closed before
\* its parent can see that it is gone.
GitExit ==
    /\ git = "running"
    /\ git' = "exiting"
    /\ code' \in {0, 1} \cup IF killed THEN {9} ELSE {}
    /\ UNCHANGED <<killed, shut, helper, written, pipe, reading, events, caller>>

Die ==
    /\ git = "exiting"
    /\ git' = "exited"
    /\ UNCHANGED <<code, killed, shut, helper, written, pipe, reading, events, caller>>

-----------------------------------------------------------------------------
(* The threads *)

Put(event) == Len(events) < QueueSize /\ events' = Append(events, event)

\* stream.read: it goes on until it has a whole chunk or the pipe is closed.
Pull(s) ==
    /\ reader[s] = "reading" /\ pipe[s] > 0 /\ buffer[s] < Chunk
    /\ pipe' = [pipe EXCEPT ![s] = @ - 1]
    /\ buffer' = [buffer EXCEPT ![s] = @ + 1]
    /\ UNCHANGED <<process, written, reader, taken, events, caller>>

AtEnd(s) == pipe[s] = 0 /\ ~Held

\* read_pipe: chunks, perhaps an error, and one None at the end.
Read(s) ==
    /\ \/ /\ reader[s] = "reading" /\ buffer[s] > 0
          /\ buffer[s] = Chunk \/ AtEnd(s)
          /\ Put([kind |-> "chunk", of |-> s, at |-> taken[s], size |-> buffer[s]])
          /\ taken' = [taken EXCEPT ![s] = @ + buffer[s]]
          /\ buffer' = [buffer EXCEPT ![s] = 0]
          /\ UNCHANGED reader
       \/ /\ reader[s] = "reading" /\ buffer[s] = 0 /\ AtEnd(s)
          /\ reader' = [reader EXCEPT ![s] = "ending"]
          /\ UNCHANGED <<buffer, taken, events>>
       \/ /\ reader[s] = "failing"
          /\ Put([kind |-> "error", of |-> s])
          /\ reader' = [reader EXCEPT ![s] = "ending"]
          /\ UNCHANGED <<buffer, taken>>
       \/ /\ reader[s] = "ending"
          /\ Put([kind |-> "end", of |-> s])
          /\ reader' = [reader EXCEPT ![s] = "done"]
          /\ UNCHANGED <<buffer, taken>>
    /\ UNCHANGED <<process, written, pipe, caller>>

ReadFails(s) ==
    /\ "read" \in CallFaults /\ reader[s] = "reading"
    /\ reader' = [reader EXCEPT ![s] = "failing"]
    /\ UNCHANGED <<process, written, pipe, buffer, taken, events, caller>>

-----------------------------------------------------------------------------
(* The caller *)

\* Popen.kill does nothing to a process that is known to be gone.
Kill == killed' = (killed \/ git = "running")

\* Mutant: the caller gives up waiting without killing git.
Timeout_NoKill ==
    /\ main = "draining" /\ open > 0 /\ state = "complete"
    /\ state' = "timeout"
    /\ UNCHANGED <<process, written, pipe, reading, events, main, open, pending, kept,
                   result>>

\* The deadline may pass at any moment of the loop.
Timeout ==
    /\ main = "draining" /\ open > 0 /\ state = "complete"
    /\ state' = "timeout" /\ Kill
    /\ UNCHANGED <<git, code, shut, helper, written, pipe, reading, events, main, open,
                   pending, kept, result>>

Retained == kept["stdout"] + kept["stderr"]

Keep(s, size) == kept' = [kept EXCEPT ![s] = @ + size]

\* The first chunk over the limit is kept as far as there is room.
Store(event) ==
    \/ /\ Retained + event.size > Limit
       /\ Keep(event.of, Limit - Retained)
       /\ state' = "bounded" /\ Kill
    \/ /\ Retained + event.size <= Limit
       /\ Keep(event.of, event.size)
       /\ UNCHANGED <<state, killed>>

\* Mutant: the loop ends as soon as there is too much or time is up.
Drained_AtOnce == open' = 0 \/ state' # "complete"

\* The loop goes on until both readers are done.
Drained == open' = 0

\* Mutant: an error does not stop git.
Failed_Ignored == UNCHANGED <<pending, killed>>

Failed == pending' = TRUE /\ Kill

Collect ==
    /\ main = "draining" /\ events # <<>>
    /\ events' = Tail(events)
    /\ LET event == Head(events) IN
         \/ /\ event.kind = "error" /\ Failed
            /\ UNCHANGED <<open, state, kept>>
         \/ /\ event.kind = "end" /\ open' = open - 1
            /\ UNCHANGED <<state, kept, killed, pending>>
         \/ /\ event.kind = "chunk" /\ state = "complete" /\ Store(event)
            /\ UNCHANGED <<open, pending>>
         \/ /\ event.kind = "chunk" /\ state # "complete"
            /\ UNCHANGED <<open, state, kept, killed, pending>>
    /\ main' = IF Drained THEN "reaping" ELSE "draining"
    /\ UNCHANGED <<git, code, shut, helper, written, pipe, reading, result>>

\* The state run_git_bounded reads off the return code.
Acquisition ==
    CASE pending -> "error"
      [] ~pending /\ state = "bounded" -> "bounded"
      [] ~pending /\ state = "timeout" -> "failed"
      [] OTHER -> IF code = 0 THEN "complete" ELSE "failed"

\* The finally part: a process that is still there is killed; either way it is
\* waited for.  A thread that has not ended in a second is left alone.
Reap ==
    /\ main = "reaping"
    /\ \/ /\ git = "running" /\ ~killed
          /\ Kill
          /\ UNCHANGED <<git, main, result>>
       \/ /\ git = "exited"
          /\ git' = "reaped"
          /\ main' = "returned" /\ result' = Acquisition
          /\ UNCHANGED killed
    /\ UNCHANGED <<code, shut, helper, written, pipe, reading, events, open, state, pending,
                   kept>>

Caller == Timeout \/ Collect \/ Reap

CallNext ==
    \/ \E s \in Streams : GitWrite(s) \/ Pull(s) \/ Read(s) \/ ReadFails(s)
    \/ Helper \/ GitShut \/ GitExit \/ Die
    \/ Caller

\* The threads run; a killed process dies; the deadline passes.  git itself and
\* its helper may hang for ever.
CallFairness ==
    /\ \A s \in Streams : WF_callVars(Pull(s)) /\ WF_callVars(Read(s))
    /\ WF_callVars(Timeout) /\ WF_callVars(Collect) /\ WF_callVars(Reap)
    /\ WF_callVars(killed /\ GitExit) /\ WF_callVars(Die)

CallSpec == CallInit /\ [][CallNext]_callVars /\ CallFairness

-----------------------------------------------------------------------------
(* Properties *)

\* "Complete" is said only of complete output: git ended by itself, without an
\* error, and everything that came into its pipes was kept.
CompleteIsWhole ==
    result = "complete" => code = 0 /\ kept = written

\* "Bounded" is said only of output that is too long, and then exactly Limit of
\* it is kept.
BoundedIsTooLong ==
    state = "bounded" =>
        written["stdout"] + written["stderr"] > Limit /\ Retained = Limit

\* What is kept of a stream is its beginning, without a hole, however the
\* chunks of two streams mix, and whenever the limit or the timeout strikes.
KeptInOrder ==
    [][\A s \in Streams : kept'[s] # kept[s] => events # <<>> /\ Head(events).at = kept[s]]_kept

\* A call that returned leaves no process and no reader behind, and none waits
\* for room in the queue.
NothingLeft ==
    result # "none" =>
        git = "reaped" /\ events = <<>> /\ \A s \in Streams : reader[s] = "done"

\* The call returns, however long git hangs and however much it writes, unless
\* something that git started holds on to the pipes for ever.
CallEnds == <>(result # "none") \/ <>[]helper
=============================================================================
