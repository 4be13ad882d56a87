-------------------------- MODULE WorkbenchReview --------------------------
(***************************************************************************)
(* Reviews started from the browser: POST /api/workbench/v1/review of      *)
(* `sourcepack ui`.  Every request has a handler thread; one lock admits   *)
(* one review; an executor with a single worker thread runs it; the        *)
(* handler waits for it with a timeout; a callback on the review's future  *)
(* gives the lock back; the main thread shuts the executor down when the   *)
(* server closes.  A review that timed out goes on in the background.      *)
(***************************************************************************)
EXTENDS Naturals, Sequences

CONSTANTS
    Requests,  \* the review requests of one server run (a bound)
    NoOne,     \* no request
    Faults     \* which faults the environment may inject

ASSUME WorkbenchAssumption ==
    /\ NoOne \notin Requests
    /\ Faults \subseteq {"thread", "review", "cli"}

VARIABLES
    handler,     \* where each request's handler thread is
    answer,      \* the HTTP status it answered with, 0 for none
    lock,        \* review_lock: the request it was acquired for, or NoOne
    job,         \* the state of each request's future
    registered,  \* the futures that release_review_lock hangs on
    queue,       \* the executor's queue of work items
    worker,      \* the work item the worker thread took, or NoOne
    alive,       \* has the worker thread been started?
    closer,      \* the main thread: serving, draining the queue, or closed
    cancelled,   \* the future whose callback the main thread still runs
    latest,      \* whose review .sourcepack/reports/latest.json is of
    loaded,      \* whose report each request's answer carries
    overwritten  \* history: reviews whose report a diff outside replaced

threads == <<handler, answer>>
future  == <<job, registered>>
pool    == <<queue, worker, alive>>
closing == <<closer, cancelled>>
reports == <<latest, loaded, overwritten>>
vars    == <<threads, lock, future, pool, closing, reports>>

\* A review in the worker thread: it judges, writes the report and loads it.
Stages == {"judging", "writing", "loading"}
Done   == {"finished", "failed", "cancelled"}

TypeOK ==
    /\ handler \in [Requests -> {"none", "arrived", "locked", "submitted", "waiting", "answered"}]
    /\ answer \in [Requests -> {0, 200, 400, 409, 500, 504}]
    /\ lock \in Requests \cup {NoOne}
    /\ job \in [Requests -> {"none", "queued"} \cup Stages \cup Done]
    /\ registered \in [Requests -> BOOLEAN]
    /\ queue \in Seq(Requests)
    /\ worker \in Requests \cup {NoOne}
    /\ alive \in BOOLEAN
    /\ closer \in {"serving", "draining", "closed"}
    /\ cancelled \in Requests \cup {NoOne}
    /\ latest \in Requests \cup {NoOne}
    /\ loaded \in [Requests -> Requests \cup {NoOne}]
    /\ overwritten \subseteq Requests

Init ==
    /\ handler = [r \in Requests |-> "none"]
    /\ answer = [r \in Requests |-> 0]
    /\ lock = NoOne
    /\ job = [r \in Requests |-> "none"]
    /\ registered = [r \in Requests |-> FALSE]
    /\ queue = <<>> /\ worker = NoOne /\ alive = FALSE
    /\ closer = "serving" /\ cancelled = NoOne
    /\ latest = NoOne
    /\ loaded = [r \in Requests |-> NoOne]
    /\ overwritten = {}

-----------------------------------------------------------------------------
(* The handler thread: _handle_review_post *)

Answer(r, status) ==
    /\ handler' = [handler EXCEPT ![r] = "answered"]
    /\ answer' = [answer EXCEPT ![r] = status]

\* release_review_lock: a lock has no owner, whoever releases it frees it.
Release == lock' = NoOne

Arrive(r) ==
    /\ closer = "serving" /\ handler[r] = "none"
    /\ handler' = [handler EXCEPT ![r] = "arrived"]
    /\ UNCHANGED <<answer, lock, future, pool, closing, reports>>

\* A request that is not an empty POST of this session is refused (400 stands
\* for 403 as well); a review that is under way makes the others busy.
Admit(r) ==
    /\ handler[r] = "arrived"
    /\ \/ /\ Answer(r, 400)
          /\ UNCHANGED lock
       \/ /\ lock # NoOne
          /\ Answer(r, 409)
          /\ UNCHANGED lock
       \/ /\ lock = NoOne
          /\ lock' = r
          /\ handler' = [handler EXCEPT ![r] = "locked"]
          /\ UNCHANGED answer
    /\ UNCHANGED <<future, pool, closing, reports>>

\* executor.submit puts the item into the queue, then starts the worker thread
\* if there is none yet.  After shutdown it raises; so does a thread that
\* cannot be started, with the item in the queue.
Submit(r) ==
    /\ handler[r] = "locked"
    /\ \/ /\ closer = "serving"
          /\ queue' = Append(queue, r)
          /\ job' = [job EXCEPT ![r] = "queued"]
          /\ \/ /\ alive' = TRUE
                /\ handler' = [handler EXCEPT ![r] = "submitted"]
                /\ UNCHANGED <<answer, lock>>
             \/ /\ ~alive /\ "thread" \in Faults
                /\ Release /\ Answer(r, 500)
                /\ UNCHANGED alive
       \/ /\ closer # "serving"
          /\ Release /\ Answer(r, 500)
          /\ UNCHANGED <<queue, job, alive>>
    /\ UNCHANGED <<registered, worker, closing, reports>>

\* add_done_callback calls at once when the future is done already.
Register(r) ==
    /\ handler[r] = "submitted"
    /\ handler' = [handler EXCEPT ![r] = "waiting"]
    /\ \/ /\ job[r] \in Done
          /\ Release
          /\ UNCHANGED registered
       \/ /\ job[r] \notin Done
          /\ registered' = [registered EXCEPT ![r] = TRUE]
          /\ UNCHANGED lock
    /\ UNCHANGED <<answer, job, pool, closing, reports>>

\* Mutant: the handler waits for the review however long it takes.
Wait_Forever(r) ==
    /\ handler[r] = "waiting" /\ job[r] \in Done
    /\ Answer(r, IF job[r] = "finished" THEN 200 ELSE 500)
    /\ UNCHANGED <<lock, future, pool, closing, reports>>

\* Mutant: a handler that timed out gives the lock back.
Wait_ReleaseOnTimeout(r) ==
    /\ handler[r] = "waiting"
    /\ \/ /\ job[r] \in Done
          /\ Answer(r, IF job[r] = "finished" THEN 200 ELSE 500)
          /\ UNCHANGED lock
       \/ /\ job[r] \notin Done
          /\ Answer(r, 504) /\ Release
    /\ UNCHANGED <<future, pool, closing, reports>>

\* future.result(timeout): the timeout may pass whenever the future is not
\* done; a cancelled future counts as failed.
Wait(r) ==
    /\ handler[r] = "waiting"
    /\ Answer(r, CASE job[r] = "finished" -> 200
                   [] job[r] \in {"failed", "cancelled"} -> 500
                   [] OTHER -> 504)
    /\ UNCHANGED <<lock, future, pool, closing, reports>>

Handle(r) == Admit(r) \/ Submit(r) \/ Register(r) \/ Wait(r)

-----------------------------------------------------------------------------
(* The worker thread *)

Take ==
    /\ alive /\ worker = NoOne /\ queue # <<>>
    /\ worker' = Head(queue) /\ queue' = Tail(queue)
    /\ UNCHANGED <<threads, lock, future, alive, closing, reports>>

\* set_running_or_notify_cancel: an item that was cancelled is dropped.
Begin ==
    /\ worker # NoOne /\ job[worker] = "queued"
    /\ job' = [job EXCEPT ![worker] = "judging"]
    /\ UNCHANGED <<threads, lock, registered, pool, closing, reports>>

Becomes(stage) == job' = [job EXCEPT ![worker] = stage]

\* Mutant: the report is loaded before the new one is written.
Review_LoadFirst ==
    /\ worker # NoOne
    /\ \/ /\ job[worker] = "judging"
          /\ Becomes("writing")
          /\ loaded' = [loaded EXCEPT ![worker] = latest]
          /\ UNCHANGED latest
       \/ /\ job[worker] = "writing"
          /\ latest' = worker /\ Becomes("loading")
          /\ UNCHANGED loaded
       \/ /\ job[worker] = "loading"
          /\ Becomes("finished")
          /\ UNCHANGED <<latest, loaded>>
    /\ UNCHANGED <<threads, lock, registered, pool, closing, overwritten>>

\* run_bounded_workbench_review, one step at a time; each may raise.
Review ==
    /\ worker # NoOne
    /\ \/ /\ job[worker] = "judging"
          /\ Becomes("writing")
          /\ UNCHANGED <<latest, loaded>>
       \/ /\ job[worker] = "writing"
          /\ latest' = worker /\ Becomes("loading")
          /\ UNCHANGED loaded
       \/ /\ job[worker] = "loading"
          /\ loaded' = [loaded EXCEPT ![worker] = latest]
          /\ Becomes("finished")
          /\ UNCHANGED latest
       \/ /\ job[worker] \in Stages /\ "review" \in Faults
          /\ Becomes("failed")
          /\ UNCHANGED <<latest, loaded>>
    /\ UNCHANGED <<threads, lock, registered, pool, closing, overwritten>>

\* The future's callbacks run in the worker thread, after the handler was
\* woken; then the thread is free.
Called ==
    /\ worker # NoOne /\ job[worker] \in Done
    /\ IF registered[worker] THEN Release ELSE UNCHANGED lock
    /\ registered' = [registered EXCEPT ![worker] = FALSE]
    /\ worker' = NoOne
    /\ UNCHANGED <<threads, job, queue, alive, closing, reports>>

-----------------------------------------------------------------------------
(* The main thread: server_close *)

Shutdown ==
    /\ closer = "serving"
    /\ closer' = "draining"
    /\ UNCHANGED <<threads, lock, future, pool, cancelled, reports>>

\* cancel_futures: what is still in the queue is cancelled, one by one, and
\* its callback runs here.
Drain ==
    /\ closer = "draining"
    /\ \/ /\ cancelled = NoOne /\ queue # <<>>
          /\ cancelled' = Head(queue) /\ queue' = Tail(queue)
          /\ job' = [job EXCEPT ![Head(queue)] = "cancelled"]
          /\ UNCHANGED <<lock, registered, closer>>
       \/ /\ cancelled # NoOne
          /\ IF registered[cancelled] THEN Release ELSE UNCHANGED lock
          /\ registered' = [registered EXCEPT ![cancelled] = FALSE]
          /\ cancelled' = NoOne
          /\ UNCHANGED <<job, queue, closer>>
       \/ /\ cancelled = NoOne /\ queue = <<>>
          /\ closer' = "closed"
          /\ UNCHANGED <<lock, future, queue, cancelled>>
    /\ UNCHANGED <<threads, worker, alive, reports>>

\* `sourcepack diff` in a terminal writes the same latest.json.  Bound: once in
\* a review, when it matters, between writing and loading.
DiffOutside ==
    /\ "cli" \in Faults
    /\ worker # NoOne /\ job[worker] = "loading" /\ worker \notin overwritten
    /\ latest' = NoOne
    /\ overwritten' = overwritten \cup {worker}
    /\ UNCHANGED <<threads, lock, future, pool, closing, loaded>>

Work == Take \/ Begin \/ Review \/ Called

Next ==
    \/ \E r \in Requests : Arrive(r) \/ Handle(r)
    \/ Work
    \/ Shutdown \/ Drain \/ DiffOutside

\* Threads that can run do run; a review itself may hang forever, and nobody
\* has to send a request, close the server or run a diff.
Fairness ==
    /\ \A r \in Requests : WF_vars(Handle(r))
    /\ WF_vars(Take \/ Begin \/ Called)
    /\ WF_vars(Drain)

Spec == Init /\ [][Next]_vars /\ Fairness

-----------------------------------------------------------------------------
(* Properties *)

\* Whoever may still have a review before it: its handler is on the way to the
\* executor, its future is not done, or its callback is about to run.
UnderWay(r) ==
    \/ handler[r] \in {"locked", "submitted"}
    \/ registered[r]

\* The lock is held exactly for the one request that has a review under way,
\* and a review that its handler gave up on, a timeout included, keeps it until
\* it is done: nobody frees the lock of another.
LockMatchesReview ==
    /\ \A r \in Requests : lock = r <=> UnderWay(r)
    /\ \A r \in Requests : answer[r] = 504 /\ job[r] \notin Done => lock = r

\* The report in an answer is that of the review whose verdict it gives, unless
\* a diff outside replaced it between its writing and its loading.
AnswerMatchesReport ==
    \A r \in Requests : answer[r] = 200 /\ r \notin overwritten => loaded[r] = r

\* Every request is answered, whatever its own or another review does.
EveryRequestAnswered ==
    \A r \in Requests : handler[r] = "arrived" ~> handler[r] = "answered"

=============================================================================
