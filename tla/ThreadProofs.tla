--------------------------- MODULE ThreadProofs -----------------------------
(***************************************************************************)
(* Theorems about the two programs with threads.  WorkbenchReview, for any *)
(* number of requests: the review lock is held exactly for the request     *)
(* that has a review under way, and an answer carries the report of its    *)
(* own review.  GitBounded, for any limit, chunk, queue and pipe: what a   *)
(* bounded call of git says of its output is true, and it leaves nothing   *)
(* behind.                                                                 *)
(***************************************************************************)
EXTENDS WorkbenchReview, GitBounded, TLAPS

-----------------------------------------------------------------------------
(* WorkbenchReview *)

\* What LockMatchesReview rests on: how far a handler is says whether its future
\* exists and who must give the lock back.
Order ==
    /\ \A r \in Requests : handler[r] \in {"none", "arrived", "locked"} => job[r] = "none"
    /\ \A r \in Requests : registered[r] => handler[r] \in {"waiting", "answered"}
    /\ \A r \in Requests : answer[r] # 0 => handler[r] = "answered"
    /\ \A r \in Requests :
          handler[r] = "waiting" /\ job[r] \notin Done => registered[r]
    /\ \A r \in Requests :
          answer[r] = 504 /\ job[r] \notin Done => registered[r]
    /\ \A i \in DOMAIN queue : job[queue[i]] # "none"
    /\ cancelled # NoOne => job[cancelled] = "cancelled"

\* Whoever has a review under way has the lock.
LockHeld == \A r \in Requests : lock = r <=> UnderWay(r)

LockInv == TypeOK /\ Order /\ LockHeld

USE DEF Stages, Done

LEMMA InitInv == Init => LockInv
<1> SUFFICES ASSUME Init PROVE LockInv
  OBVIOUS
<1>1. TypeOK
  <2>1. queue \in Seq(Requests)
    BY DEF Init
  <2>2. registered \in [Requests -> BOOLEAN]
    BY Zenon DEF Init
  <2> QED BY <2>1, <2>2 DEF Init, TypeOK
<1>2. Order /\ LockHeld
  BY WorkbenchAssumption DEF Init, Order, LockHeld, UnderWay
<1> QED BY <1>1, <1>2 DEF LockInv

\* What a lock that follows the reviews says of a timeout.
LEMMA InvImplies == LockInv => TypeOK /\ LockMatchesReview
BY DEF LockInv, Order, LockHeld, UnderWay, LockMatchesReview

LEMMA ArriveInv == ASSUME LockInv, NEW r \in Requests, Arrive(r) PROVE LockInv'
BY WorkbenchAssumption
DEF LockInv, TypeOK, Order, LockHeld, UnderWay, Arrive, future, pool, closing, reports

LEMMA AdmitInv == ASSUME LockInv, NEW r \in Requests, Admit(r) PROVE LockInv'
<1>1. TypeOK'
  BY DEF LockInv, TypeOK, Admit, Answer, future, pool, closing, reports
<1>2. Order'
  BY DEF LockInv, TypeOK, Order, Admit, Answer, future, pool, closing, reports
<1>3. LockHeld'
  BY WorkbenchAssumption
  DEF LockInv, TypeOK, Order, LockHeld, UnderWay, Admit, Answer, future, pool, closing, reports
<1> QED BY <1>1, <1>2, <1>3 DEF LockInv

LEMMA SubmitInv == ASSUME LockInv, NEW r \in Requests, Submit(r) PROVE LockInv'
<1>1. UNCHANGED <<registered, worker, closer, cancelled, latest, loaded, overwritten>>
  BY DEF Submit, closing, reports
<1>2. job[r] = "none" /\ ~registered[r] /\ answer[r] = 0 /\ handler[r] = "locked" /\ lock = r
  BY DEF LockInv, TypeOK, Order, LockHeld, UnderWay, Submit
<1>3. CASE queue' = Append(queue, r) /\ job' = [job EXCEPT ![r] = "queued"]
  <2>1. queue' \in Seq(Requests)
    BY <1>3 DEF LockInv, TypeOK
  <2>2. \A i \in DOMAIN queue' : job'[queue'[i]] # "none"
    <3> SUFFICES ASSUME NEW i \in DOMAIN Append(queue, r)
                 PROVE  job'[Append(queue, r)[i]] # "none"
      BY <1>3
    <3>1. CASE i \in DOMAIN queue
      <4>1. Append(queue, r)[i] = queue[i] /\ queue[i] \in Requests
        BY <3>1 DEF LockInv, TypeOK
      <4> QED BY <1>3, <3>1, <4>1 DEF LockInv, TypeOK, Order
    <3>2. CASE i \notin DOMAIN queue
      <4>1. Append(queue, r)[i] = r
        BY <3>2 DEF LockInv, TypeOK
      <4> QED BY <1>3, <4>1 DEF LockInv, TypeOK
    <3> QED BY <3>1, <3>2
  <2>3. CASE /\ alive' = TRUE
             /\ handler' = [handler EXCEPT ![r] = "submitted"]
             /\ UNCHANGED <<answer, lock>>
    <3>1. TypeOK'
      BY <1>1, <1>3, <2>1, <2>3 DEF LockInv, TypeOK
    <3>2. Order'
      BY <1>1, <1>2, <1>3, <2>2, <2>3 DEF LockInv, TypeOK, Order
    <3>3. LockHeld'
      BY <1>1, <1>2, <2>3 DEF LockInv, TypeOK, LockHeld, UnderWay
    <3> QED BY <3>1, <3>2, <3>3 DEF LockInv
  <2>4. CASE Release /\ Answer(r, 500) /\ UNCHANGED alive
    <3>1. TypeOK'
      BY <1>1, <1>3, <2>1, <2>4 DEF LockInv, TypeOK, Release, Answer
    <3>2. Order'
      BY <1>1, <1>2, <1>3, <2>2, <2>4 DEF LockInv, TypeOK, Order, Answer
    <3>3. LockHeld'
      BY <1>1, <1>2, <2>4, WorkbenchAssumption
      DEF LockInv, TypeOK, LockHeld, UnderWay, Release, Answer
    <3> QED BY <3>1, <3>2, <3>3 DEF LockInv
  <2> QED BY <1>3, <2>3, <2>4 DEF Submit
<1>4. CASE Release /\ Answer(r, 500) /\ UNCHANGED <<queue, job, alive>>
  <2>1. TypeOK'
    BY <1>1, <1>4 DEF LockInv, TypeOK, Release, Answer
  <2>2. Order'
    BY <1>1, <1>2, <1>4 DEF LockInv, TypeOK, Order, Answer
  <2>3. LockHeld'
    BY <1>1, <1>2, <1>4, WorkbenchAssumption
    DEF LockInv, TypeOK, LockHeld, UnderWay, Release, Answer
  <2> QED BY <2>1, <2>2, <2>3 DEF LockInv
<1> QED BY <1>3, <1>4 DEF Submit

LEMMA RegisterInv == ASSUME LockInv, NEW r \in Requests, Register(r) PROVE LockInv'
<1>1. /\ handler' = [handler EXCEPT ![r] = "waiting"]
      /\ UNCHANGED <<answer, job, queue, worker, alive, closer, cancelled, latest, loaded,
                     overwritten>>
  BY DEF Register, pool, closing, reports
<1>2. ~registered[r] /\ answer[r] = 0 /\ handler[r] = "submitted" /\ lock = r
  BY DEF LockInv, TypeOK, Order, LockHeld, UnderWay, Register
<1>3. CASE job[r] \in Done /\ Release /\ UNCHANGED registered
  <2>1. TypeOK'
    BY <1>1, <1>3 DEF LockInv, TypeOK, Release
  <2>2. Order'
    BY <1>1, <1>2, <1>3 DEF LockInv, TypeOK, Order
  <2>3. LockHeld'
    BY <1>1, <1>2, <1>3, WorkbenchAssumption DEF LockInv, TypeOK, LockHeld, UnderWay, Release
  <2> QED BY <2>1, <2>2, <2>3 DEF LockInv
<1>4. CASE registered' = [registered EXCEPT ![r] = TRUE] /\ UNCHANGED lock
  <2>1. registered' \in [Requests -> BOOLEAN]
    BY <1>4 DEF LockInv, TypeOK
  <2>2. TypeOK'
    BY <1>1, <1>4, <2>1 DEF LockInv, TypeOK
  <2>3. Order'
    BY <1>1, <1>2, <1>4 DEF LockInv, TypeOK, Order
  <2>4. LockHeld'
    BY <1>1, <1>2, <1>4 DEF LockInv, TypeOK, LockHeld, UnderWay
  <2> QED BY <2>2, <2>3, <2>4 DEF LockInv
<1> QED BY <1>3, <1>4 DEF Register

LEMMA WaitInv == ASSUME LockInv, NEW r \in Requests, Wait(r) PROVE LockInv'
<1>1. TypeOK'
  BY DEF LockInv, TypeOK, Wait, Answer, future, pool, closing, reports
<1>2. Order'
  BY DEF LockInv, TypeOK, Order, Wait, Answer, future, pool, closing, reports
<1>3. LockHeld'
  BY DEF LockInv, TypeOK, Order, LockHeld, UnderWay, Wait, Answer, future, pool, closing, reports
<1> QED BY <1>1, <1>2, <1>3 DEF LockInv

LEMMA TakeInv == ASSUME LockInv, Take PROVE LockInv'
<1>1. Head(queue) \in Requests /\ Tail(queue) \in Seq(Requests)
  BY DEF LockInv, TypeOK, Take
<1>2. \A i \in DOMAIN Tail(queue) : i + 1 \in DOMAIN queue /\ Tail(queue)[i] = queue[i + 1]
  BY DEF LockInv, TypeOK, Take
<1>3. \A i \in DOMAIN queue' : job'[queue'[i]] # "none"
  BY <1>1, <1>2 DEF LockInv, Order, Take, future
<1> QED BY <1>1, <1>3
  DEF LockInv, TypeOK, Order, LockHeld, UnderWay, Take, threads, future, closing, reports

LEMMA BeginInv == ASSUME LockInv, Begin PROVE LockInv'
<1>1. worker \in Requests
  BY DEF LockInv, TypeOK, Begin
<1>2. \A i \in DOMAIN queue : queue[i] \in Requests
  BY DEF LockInv, TypeOK
<1> QED BY <1>1, <1>2
  DEF LockInv, TypeOK, Order, LockHeld, UnderWay, Begin, threads, pool, closing, reports

LEMMA ReviewInv == ASSUME LockInv, Review PROVE LockInv'
<1>1. worker \in Requests
  BY DEF LockInv, TypeOK, Review
<1>2. \A i \in DOMAIN queue : queue[i] \in Requests
  BY DEF LockInv, TypeOK
<1>3. TypeOK'
  BY <1>1 DEF LockInv, TypeOK, Review, Becomes, threads, pool, closing
<1>4. Order' /\ LockHeld'
  BY <1>1, <1>2
  DEF LockInv, TypeOK, Order, LockHeld, UnderWay, Review, Becomes, threads, pool, closing
<1> QED BY <1>3, <1>4 DEF LockInv

LEMMA CalledInv == ASSUME LockInv, Called PROVE LockInv'
<1>1. worker \in Requests
  BY DEF LockInv, TypeOK, Called
<1>2. TypeOK'
  BY <1>1 DEF LockInv, TypeOK, Called, Release, threads, closing, reports
<1>3. Order'
  BY <1>1 DEF LockInv, TypeOK, Order, Called, Release, threads, closing, reports
<1>4. LockHeld'
  BY <1>1, WorkbenchAssumption
  DEF LockInv, TypeOK, Order, LockHeld, UnderWay, Called, Release, threads, closing, reports
<1> QED BY <1>2, <1>3, <1>4 DEF LockInv

LEMMA ShutdownInv == ASSUME LockInv, Shutdown PROVE LockInv'
BY DEF LockInv, TypeOK, Order, LockHeld, UnderWay, Shutdown, threads, future, pool, reports

LEMMA DrainInv == ASSUME LockInv, Drain PROVE LockInv'
<1>1. CASE cancelled = NoOne /\ queue # <<>>
  <2> DEFINE first == Head(queue)
  <2>1. first \in Requests /\ Tail(queue) \in Seq(Requests)
    BY <1>1 DEF LockInv, TypeOK
  <2>2. \A i \in DOMAIN Tail(queue) : i + 1 \in DOMAIN queue /\ Tail(queue)[i] = queue[i + 1]
    BY <1>1 DEF LockInv, TypeOK
  <2>3. 1 \in DOMAIN queue /\ first = queue[1]
    BY <1>1 DEF LockInv, TypeOK
  <2>4. job[first] # "none"
    BY <2>3 DEF LockInv, Order
  <2>5. /\ cancelled' = first /\ queue' = Tail(queue)
        /\ job' = [job EXCEPT ![first] = "cancelled"]
        /\ UNCHANGED <<handler, answer, lock, registered, closer, worker, alive, latest,
                       loaded, overwritten>>
    BY <1>1, WorkbenchAssumption DEF Drain, threads, reports
  <2> HIDE DEF first
  <2>6. TypeOK'
    BY <2>1, <2>5 DEF LockInv, TypeOK
  <2>7. \A i \in DOMAIN queue' : queue'[i] \in Requests /\ job'[queue'[i]] # "none"
    <3> SUFFICES ASSUME NEW i \in DOMAIN Tail(queue)
                 PROVE  Tail(queue)[i] \in Requests /\ job'[Tail(queue)[i]] # "none"
      BY <2>5
    <3>1. i + 1 \in DOMAIN queue /\ Tail(queue)[i] = queue[i + 1]
      BY <2>2
    <3>2. queue[i + 1] \in Requests /\ job[queue[i + 1]] # "none"
      BY <3>1 DEF LockInv, TypeOK, Order
    <3> QED BY <3>1, <3>2, <2>1, <2>5 DEF LockInv, TypeOK
  <2>8. Order'
    BY <2>1, <2>4, <2>5, <2>7 DEF LockInv, TypeOK, Order
  <2>9. LockHeld'
    BY <2>5 DEF LockInv, LockHeld, UnderWay
  <2> QED BY <2>6, <2>8, <2>9 DEF LockInv
<1>2. CASE cancelled # NoOne
  <2>1. cancelled \in Requests
    BY <1>2 DEF LockInv, TypeOK
  <2>2. TypeOK'
    <3>1. registered' \in [Requests -> BOOLEAN]
      BY <1>2, <2>1 DEF LockInv, TypeOK, Drain
    <3>2. UNCHANGED <<job, queue, closer>> /\ cancelled' = NoOne
      BY <1>2 DEF Drain
    <3>3. lock' \in Requests \cup {NoOne}
      BY <1>2 DEF LockInv, TypeOK, Drain, Release
    <3> QED BY <3>1, <3>2, <3>3 DEF LockInv, TypeOK, Drain, threads, reports
  <2>3. Order'
    BY <1>2, <2>1 DEF LockInv, TypeOK, Order, Drain, Release, threads, reports
  <2>4. LockHeld'
    BY <1>2, <2>1, WorkbenchAssumption
    DEF LockInv, TypeOK, Order, LockHeld, UnderWay, Drain, Release, threads, reports
  <2> QED BY <2>2, <2>3, <2>4 DEF LockInv
<1>3. CASE cancelled = NoOne /\ queue = <<>>
  BY <1>3 DEF LockInv, TypeOK, Order, LockHeld, UnderWay, Drain, threads, future, reports
<1> QED BY <1>1, <1>2, <1>3

LEMMA DiffOutsideInv == ASSUME LockInv, DiffOutside PROVE LockInv'
BY DEF LockInv, TypeOK, Order, LockHeld, UnderWay, DiffOutside, threads, future, pool, closing

LEMMA NextInv == LockInv /\ [Next]_vars => LockInv'
<1> SUFFICES ASSUME LockInv, [Next]_vars PROVE LockInv'
  OBVIOUS
<1>1. CASE \E r \in Requests : Arrive(r) \/ Handle(r)
  BY <1>1, ArriveInv, AdmitInv, SubmitInv, RegisterInv, WaitInv DEF Handle
<1>2. CASE Work
  BY <1>2, TakeInv, BeginInv, ReviewInv, CalledInv DEF Work
<1>3. CASE Shutdown \/ Drain \/ DiffOutside
  BY <1>3, ShutdownInv, DrainInv, DiffOutsideInv
<1>4. CASE UNCHANGED vars
  BY <1>4 DEF LockInv, TypeOK, Order, LockHeld, UnderWay, vars, threads, future, pool, closing,
              reports
<1> QED BY <1>1, <1>2, <1>3, <1>4 DEF Next

LEMMA Inductive == Spec => []LockInv
BY InitInv, NextInv, PTL DEF Spec

\* The handlers, the future, the queue and the reports stay well typed, for any
\* set of requests.
THEOREM ReviewTyped == Spec => []TypeOK
BY Inductive, InvImplies, PTL

\* However requests, timeouts, failures and a closing server interleave, the
\* review lock is held exactly while its request has a review under way.
THEOREM LockFollowsReview == Spec => []LockMatchesReview
BY Inductive, InvImplies, PTL

-----------------------------------------------------------------------------
(* The report of an answer *)

\* What AnswerMatchesReport rests on: one review at a time is anywhere between
\* the queue and its end, and the report on disk is that of the one that loads.
OneAtATime ==
    /\ \A i \in DOMAIN queue : job[queue[i]] = "queued" /\ queue[i] # worker
    /\ \A i, j \in DOMAIN queue : queue[i] = queue[j] => i = j
    /\ \A r \in Requests : job[r] \in Stages => worker = r
    /\ worker # NoOne => job[worker] # "none"

OwnReport ==
    /\ \A r \in Requests : answer[r] = 200 => job[r] = "finished"
    /\ \A r \in Requests : job[r] = "finished" /\ r \notin overwritten => loaded[r] = r
    /\ worker # NoOne /\ job[worker] = "loading" /\ worker \notin overwritten => latest = worker

ReportInv == OneAtATime /\ OwnReport

\* A step that changes none of the variables of the reports' order.
LEMMA ReportsUntouched ==
  ASSUME ReportInv, UNCHANGED <<job, queue, worker, latest, loaded, overwritten>>,
         \A r \in Requests : answer'[r] = 200 => answer[r] = 200 \/ job[r] = "finished"
  PROVE  ReportInv'
BY DEF ReportInv, OneAtATime, OwnReport

LEMMA HandleReports ==
  ASSUME LockInv, ReportInv, NEW r \in Requests, Arrive(r) \/ Admit(r) \/ Register(r) \/ Wait(r)
  PROVE  ReportInv'
<1>1. UNCHANGED <<job, queue, worker, latest, loaded, overwritten>>
  BY DEF Arrive, Admit, Register, Wait, future, pool, closing, reports
<1>2. \A q \in Requests : answer'[q] = 200 => answer[q] = 200 \/ job[q] = "finished"
  BY DEF LockInv, TypeOK, Arrive, Admit, Register, Wait, Answer
<1> QED
  BY <1>1, <1>2, ReportsUntouched

LEMMA SubmitReports ==
  ASSUME LockInv, ReportInv, NEW r \in Requests, Submit(r)
  PROVE  ReportInv'
<1>1. UNCHANGED <<worker, latest, loaded, overwritten>>
  BY DEF Submit, reports
<1>2. job[r] = "none" /\ worker # r /\ r # NoOne
  BY WorkbenchAssumption DEF LockInv, TypeOK, Order, ReportInv, OneAtATime, Submit
<1>3. \A q \in Requests : answer'[q] = 200 => answer[q] = 200 /\ q # r
  BY DEF LockInv, TypeOK, Order, Submit, Answer
<1>4. CASE queue' = Append(queue, r) /\ job' = [job EXCEPT ![r] = "queued"]
  <2>1. queue \in Seq(Requests) /\ job \in [Requests -> {"none", "queued"} \cup Stages \cup Done]
    BY DEF LockInv, TypeOK
  <2>2. /\ \A i \in DOMAIN queue' : (i \in DOMAIN queue /\ queue'[i] = queue[i])
                                    \/ (i = Len(queue) + 1 /\ queue'[i] = r)
        /\ \A i \in DOMAIN queue : queue[i] \in Requests /\ queue[i] # r
    <3>1. \A i \in DOMAIN Append(queue, r) :
             (i \in DOMAIN queue /\ Append(queue, r)[i] = queue[i])
             \/ (i = Len(queue) + 1 /\ Append(queue, r)[i] = r)
      BY <2>1
    <3>2. \A i \in DOMAIN queue : queue[i] \in Requests /\ queue[i] # r
      BY <1>2, <2>1 DEF ReportInv, OneAtATime
    <3> QED
      BY <1>4, <3>1, <3>2
  <2>3. \A i \in DOMAIN queue' : job'[queue'[i]] = "queued" /\ queue'[i] # worker
    BY <1>2, <1>4, <2>1, <2>2 DEF ReportInv, OneAtATime
  <2>4. \A i, j \in DOMAIN queue' : queue'[i] = queue'[j] => i = j
    BY <2>2 DEF ReportInv, OneAtATime
  <2>5. \A q \in Requests : job'[q] = IF q = r THEN "queued" ELSE job[q]
    BY <1>4, <2>1
  <2>6. worker # NoOne => worker \in Requests
    BY DEF LockInv, TypeOK
  <2>7. OneAtATime'
    BY <1>1, <2>3, <2>4, <2>5, <2>6 DEF ReportInv, OneAtATime
  <2>8. OwnReport'
    BY <1>1, <1>2, <1>3, <2>5, <2>6 DEF ReportInv, OwnReport
  <2> QED
    BY <2>7, <2>8 DEF ReportInv
<1>5. CASE UNCHANGED <<queue, job>>
  BY <1>1, <1>3, <1>5, ReportsUntouched
<1> QED
  BY <1>4, <1>5 DEF Submit

LEMMA WorkReports ==
  ASSUME LockInv, ReportInv, Work PROVE ReportInv'
<1>1. /\ job \in [Requests -> {"none", "queued"} \cup Stages \cup Done]
      /\ queue \in Seq(Requests) /\ NoOne \notin Requests
      /\ loaded \in [Requests -> Requests \cup {NoOne}]
      /\ worker # NoOne => worker \in Requests
      /\ \A i \in DOMAIN queue : queue[i] \in Requests
  BY WorkbenchAssumption DEF LockInv, TypeOK
<1>2. CASE Take
  <2>1. /\ queue' = Tail(queue) /\ worker = NoOne /\ worker' = Head(queue) /\ queue # <<>>
        /\ UNCHANGED <<job, answer, latest, loaded, overwritten>>
    BY <1>2 DEF Take, threads, future, reports
  <2>2. /\ 1 \in DOMAIN queue /\ worker' = queue[1]
        /\ \A i \in DOMAIN queue' : i \in Nat /\ i # 0 /\ i + 1 \in DOMAIN queue /\ queue'[i] = queue[i + 1]
    BY <1>1, <2>1
  <2>3. \A i \in DOMAIN queue' : job'[queue'[i]] = "queued" /\ queue'[i] # worker'
    BY <2>1, <2>2 DEF ReportInv, OneAtATime
  <2>4. \A i, j \in DOMAIN queue' : queue'[i] = queue'[j] => i = j
    BY <2>2 DEF ReportInv, OneAtATime
  <2>5. job'[worker'] = "queued" /\ \A r \in Requests : job'[r] \notin Stages
    BY <1>1, <2>1, <2>2 DEF ReportInv, OneAtATime
  <2>6. OneAtATime'
    BY <2>3, <2>4, <2>5 DEF OneAtATime
  <2>7. OwnReport'
    BY <2>1, <2>5 DEF ReportInv, OwnReport
  <2> QED
    BY <2>6, <2>7 DEF ReportInv
<1>3. CASE Begin
  <2>1. /\ worker \in Requests /\ job[worker] = "queued" /\ job' = [job EXCEPT ![worker] = "judging"]
        /\ UNCHANGED <<queue, worker, answer, latest, loaded, overwritten>>
    BY <1>1, <1>3 DEF Begin, threads, pool, reports
  <2>2. \A r \in Requests : job'[r] = IF r = worker THEN "judging" ELSE job[r]
    BY <1>1, <2>1
  <2>3. OneAtATime'
    BY <1>1, <2>1, <2>2 DEF ReportInv, OneAtATime
  <2>4. OwnReport'
    BY <2>1, <2>2 DEF ReportInv, OwnReport
  <2> QED
    BY <2>3, <2>4 DEF ReportInv
<1>4. CASE Review
  <2>1. /\ worker \in Requests /\ job[worker] \in Stages /\ UNCHANGED <<queue, worker, answer, overwritten>>
        /\ \/ job[worker] = "judging" /\ Becomes("writing") /\ UNCHANGED <<latest, loaded>>
           \/ job[worker] = "writing" /\ latest' = worker /\ Becomes("loading") /\ UNCHANGED loaded
           \/ /\ job[worker] = "loading" /\ loaded' = [loaded EXCEPT ![worker] = latest]
              /\ Becomes("finished") /\ UNCHANGED latest
           \/ Becomes("failed") /\ UNCHANGED <<latest, loaded>>
    BY <1>1, <1>4 DEF Review, threads, pool
  <2>2. PICK next \in {"writing", "loading", "finished", "failed"} : Becomes(next)
    BY <2>1
  <2>3. \A r \in Requests : job'[r] = IF r = worker THEN next ELSE job[r]
    BY <1>1, <2>1, <2>2 DEF Becomes
  <2>4. OneAtATime'
    BY <1>1, <2>1, <2>3 DEF ReportInv, OneAtATime
  <2>5. \A r \in Requests : answer[r] = 200 => r # worker
    BY <2>1 DEF ReportInv, OwnReport
  <2>6. \A r \in Requests : r # worker => loaded'[r] = loaded[r]
    BY <1>1, <2>1
  <2>7. next = "loading" => latest' = worker
    BY <2>1, <2>2, <1>1 DEF Becomes
  <2>8. next = "finished" /\ worker \notin overwritten => loaded'[worker] = worker
    <3>1. next = "finished" => job[worker] = "loading" /\ loaded'[worker] = latest
      BY <2>1, <2>2, <1>1 DEF Becomes
    <3> QED
      BY <1>1, <2>1, <3>1 DEF ReportInv, OwnReport
  <2>9. OwnReport'
    BY <2>1, <2>3, <2>5, <2>6, <2>7, <2>8 DEF ReportInv, OwnReport
  <2> QED
    BY <2>4, <2>9 DEF ReportInv
<1>5. CASE Called
  <2>1. /\ worker' = NoOne /\ job[worker] \in Done /\ worker # NoOne
        /\ UNCHANGED <<job, queue, answer, latest, loaded, overwritten>>
    BY <1>5 DEF Called, threads, reports
  <2>2. OneAtATime'
    BY <1>1, <2>1 DEF ReportInv, OneAtATime
  <2>3. OwnReport'
    BY <2>1 DEF ReportInv, OwnReport
  <2> QED
    BY <2>2, <2>3 DEF ReportInv
<1> QED
  BY <1>2, <1>3, <1>4, <1>5 DEF Work

LEMMA DrainReports ==
  ASSUME LockInv, ReportInv, Drain PROVE ReportInv'
<1>1. /\ job \in [Requests -> {"none", "queued"} \cup Stages \cup Done] /\ queue \in Seq(Requests)
      /\ worker # NoOne => worker \in Requests
  BY DEF LockInv, TypeOK
<1>2. UNCHANGED <<worker, answer, latest, loaded, overwritten>>
  BY DEF Drain, threads, reports
<1>3. CASE UNCHANGED <<job, queue>>
  BY <1>2, <1>3, ReportsUntouched
<1>4. CASE /\ queue # <<>> /\ queue' = Tail(queue)
           /\ job' = [job EXCEPT ![Head(queue)] = "cancelled"]
  <2>1. PICK first \in Requests : first = Head(queue)
    BY <1>1, <1>4
  <2>2. /\ 1 \in DOMAIN queue /\ first = queue[1]
        /\ \A i \in DOMAIN queue' : i \in Nat /\ i # 0 /\ i + 1 \in DOMAIN queue /\ queue'[i] = queue[i + 1]
        /\ \A i \in DOMAIN queue : queue[i] \in Requests
    BY <1>1, <1>4, <2>1
  <2>3. job[first] = "queued" /\ first # worker
    BY <2>2 DEF ReportInv, OneAtATime
  <2>4. \A r \in Requests : job'[r] = IF r = first THEN "cancelled" ELSE job[r]
    BY <1>1, <1>4, <2>1
  <2>5. \A i, j \in DOMAIN queue' : queue'[i] = queue'[j] => i = j
    BY <2>2 DEF ReportInv, OneAtATime
  <2>6. \A i \in DOMAIN queue' : queue'[i] # first /\ queue'[i] \in Requests
    BY <2>2 DEF ReportInv, OneAtATime
  <2>7. \A i \in DOMAIN queue' : job'[queue'[i]] = "queued" /\ queue'[i] # worker
    BY <2>2, <2>4, <2>6 DEF ReportInv, OneAtATime
  <2>8. OneAtATime'
    BY <1>1, <1>2, <2>3, <2>4, <2>5, <2>7 DEF ReportInv, OneAtATime
  <2>9. OwnReport'
    BY <1>1, <1>2, <2>3, <2>4 DEF ReportInv, OwnReport
  <2> QED
    BY <2>8, <2>9 DEF ReportInv
<1> QED
  BY <1>3, <1>4 DEF Drain, future

LEMMA OutsideReports ==
  ASSUME LockInv, ReportInv, DiffOutside PROVE ReportInv'
<1>1. UNCHANGED <<job, queue, worker, answer, loaded>> /\ overwritten' = overwritten \cup {worker}
  BY DEF DiffOutside, threads, future, pool
<1> QED
  BY <1>1 DEF ReportInv, OneAtATime, OwnReport

LEMMA NextReports == LockInv /\ ReportInv /\ [Next]_vars => ReportInv'
<1> SUFFICES ASSUME LockInv, ReportInv, [Next]_vars PROVE ReportInv'
  OBVIOUS
<1>1. CASE UNCHANGED <<job, queue, worker, latest, loaded, overwritten, answer>>
  BY <1>1, ReportsUntouched
<1>2. CASE UNCHANGED vars
  BY <1>1, <1>2 DEF vars, threads, future, pool, reports
<1>3. CASE Shutdown
  BY <1>1, <1>3 DEF Shutdown, threads, future, pool, reports
<1> QED
  BY <1>2, <1>3, HandleReports, SubmitReports, WorkReports, DrainReports, OutsideReports
     DEF Next, Handle

\* An answer that gives a verdict carries the report of that very review,
\* whatever was queued, timed out, failed or was cancelled meanwhile.
THEOREM AnswersCarryTheirReport == Spec => []AnswerMatchesReport
<1>1. Init => ReportInv
  BY WorkbenchAssumption DEF Init, ReportInv, OneAtATime, OwnReport
<1>2. LockInv /\ ReportInv => AnswerMatchesReport
  BY DEF ReportInv, OwnReport, AnswerMatchesReport
<1> QED
  BY <1>1, <1>2, Inductive, NextReports, PTL DEF Spec

-----------------------------------------------------------------------------
(* GitBounded *)

IsChunk(i, s) == events[i].kind = "chunk" /\ events[i].of = s
Has(kind, s)  == \E i \in DOMAIN events : events[i].kind = kind /\ events[i].of = s
End(i)        == events[i].at + events[i].size

CountInv(s) ==
    /\ written[s] = taken[s] + buffer[s] + pipe[s]
    /\ kept[s] <= taken[s]

\* The chunks of a stream lie in the queue in order, they reach to what its
\* reader has taken, and while all is well they begin where the kept part ends.
LaneInv(s) ==
    /\ \A i \in DOMAIN events : IsChunk(i, s) => End(i) <= taken[s]
    /\ \A i, k \in DOMAIN events :
          i < k /\ IsChunk(i, s) /\ IsChunk(k, s) => End(i) <= events[k].at
    /\ \A i \in DOMAIN events : IsChunk(i, s) =>
          \/ End(i) = taken[s]
          \/ \E k \in DOMAIN events : IsChunk(k, s) /\ events[k].at = End(i)
    /\ state = "complete" =>
          /\ \A i \in DOMAIN events : IsChunk(i, s) => kept[s] <= events[i].at
          /\ \/ kept[s] = taken[s]
             \/ \E k \in DOMAIN events : IsChunk(k, s) /\ events[k].at = kept[s]

\* A reader ends when it has read everything or has failed.
ReadOut(s) == pipe[s] = 0 /\ buffer[s] = 0 /\ ~Held

\* The end is the last that the queue holds of a reader.
EndInv(s) ==
    /\ reader[s] \in {"ending", "done"} => pending \/ Has("error", s) \/ ReadOut(s)
    /\ Has("end", s) => reader[s] = "done"
    /\ \A i, k \in DOMAIN events :
          events[i].kind = "end" /\ events[i].of = s /\ events[k].of = s => k <= i
    /\ reader[s] = "done" /\ (\E i \in DOMAIN events : events[i].of = s) => Has("end", s)

\* A stream is open for the caller until it took the end from the queue.
Open(s) == IF reader[s] = "done" /\ ~Has("end", s) THEN 0 ELSE 1

CallerInv ==
    /\ main # "draining" => open = 0
    /\ main # "returned" <=> result = "none"
    /\ main = "returned" <=> git = "reaped"
    /\ result = "complete" => ~pending /\ state = "complete" /\ code = 0
    /\ state = "complete" => Retained <= Limit
    /\ state = "bounded" =>
          Retained = Limit /\ written["stdout"] + written["stderr"] > Limit

StreamsInv ==
    /\ \A s \in Streams : CountInv(s) /\ LaneInv(s) /\ EndInv(s)
    /\ open = Open("stdout") + Open("stderr")

CallInv == CallTypeOK /\ StreamsInv /\ CallerInv

-----------------------------------------------------------------------------
(* The queue *)

LEMMA EventFields ==
  ASSUME NEW e \in Events
  PROVE  /\ e.of \in Streams
         /\ e.kind \in {"chunk", "end", "error"}
         /\ e.kind = "chunk" => e.at \in Nat /\ e.size \in Nat /\ e.size > 0
BY DEF Events

\* What is in the queue has the fields of an event.
LEMMA QueueFields ==
  ASSUME events \in Seq(Events)
  PROVE  \A i \in DOMAIN events :
            /\ i \in Nat
            /\ events[i].of \in Streams
            /\ events[i].kind \in {"chunk", "end", "error"}
            /\ events[i].kind = "chunk" =>
                  events[i].at \in Nat /\ events[i].size \in Nat /\ events[i].size > 0
<1> SUFFICES ASSUME NEW i \in DOMAIN events
             PROVE  /\ i \in Nat
                    /\ events[i].of \in Streams
                    /\ events[i].kind \in {"chunk", "end", "error"}
                    /\ events[i].kind = "chunk" =>
                          events[i].at \in Nat /\ events[i].size \in Nat /\ events[i].size > 0
  OBVIOUS
<1>1. i \in Nat /\ events[i] \in Events
  OBVIOUS
<1> QED BY <1>1, EventFields

LEMMA PutQueue ==
  ASSUME events \in Seq(Events), Len(events) <= QueueSize, NEW e \in Events, Put(e)
  PROVE  /\ events' \in Seq(Events) /\ Len(events') <= QueueSize
         /\ Len(events) \in Nat
         /\ DOMAIN events = 1 .. Len(events)
         /\ DOMAIN events' = 1 .. Len(events) + 1
         /\ \A i \in 1 .. Len(events) : events'[i] = events[i]
         /\ events'[Len(events) + 1] = e
BY GitAssumption DEF Put

LEMMA TailQueue ==
  ASSUME events \in Seq(Events), Len(events) <= QueueSize, events # <<>>, events' = Tail(events)
  PROVE  /\ events' \in Seq(Events) /\ Len(events') <= QueueSize
         /\ Len(events) \in Nat \ {0}
         /\ DOMAIN events = 1 .. Len(events)
         /\ DOMAIN events' = 1 .. Len(events) - 1
         /\ \A i \in 1 .. Len(events) - 1 : events'[i] = events[i + 1]
         /\ Head(events) = events[1] /\ Head(events) \in Events
BY GitAssumption

-----------------------------------------------------------------------------
(* The chunks of one stream *)

LEMMA LaneSame ==
  ASSUME NEW s \in Streams, LaneInv(s), UNCHANGED events,
         kept'[s] = kept[s], taken'[s] = taken[s],
         state' = "complete" => state = "complete"
  PROVE  LaneInv(s)'
BY DEF LaneInv, IsChunk, End

LEMMA LanePutOther ==
  ASSUME CallTypeOK, NEW s \in Streams, LaneInv(s), NEW e \in Events, Put(e),
         ~(e.kind = "chunk" /\ e.of = s),
         kept'[s] = kept[s], taken'[s] = taken[s], state' = state
  PROVE  LaneInv(s)'
<1>1. events \in Seq(Events) /\ Len(events) <= QueueSize
  BY DEF CallTypeOK
<1>2. PICK n \in Nat :
         /\ DOMAIN events = 1 .. n /\ DOMAIN events' = 1 .. n + 1
         /\ \A i \in 1 .. n : events'[i] = events[i]
         /\ events'[n + 1] = e
  BY <1>1, PutQueue
<1>3. \A i \in DOMAIN events' : IsChunk(i, s)' => i \in DOMAIN events /\ IsChunk(i, s)
  BY <1>2 DEF IsChunk
<1>4. \A i \in DOMAIN events : IsChunk(i, s) => i \in DOMAIN events' /\ IsChunk(i, s)'
  BY <1>2 DEF IsChunk
<1>5. \A i \in DOMAIN events : events'[i] = events[i]
  BY <1>2
<1> QED BY <1>3, <1>4, <1>5 DEF LaneInv, End

LEMMA LanePutChunk ==
  ASSUME CallTypeOK, NEW s \in Streams, LaneInv(s), NEW e \in Events, Put(e),
         e.kind = "chunk", e.of = s, e.at = taken[s],
         taken'[s] = taken[s] + e.size, kept'[s] = kept[s], state' = state,
         kept[s] <= taken[s]
  PROVE  LaneInv(s)'
<1>1. events \in Seq(Events) /\ Len(events) <= QueueSize
  BY DEF CallTypeOK
<1>2. PICK n \in Nat :
         /\ DOMAIN events = 1 .. n /\ DOMAIN events' = 1 .. n + 1
         /\ \A i \in 1 .. n : events'[i] = events[i]
         /\ events'[n + 1] = e
  BY <1>1, PutQueue
<1>3. taken[s] \in Nat /\ kept[s] \in Nat /\ e.size \in Nat /\ e.size > 0
  BY EventFields DEF CallTypeOK
<1>4. \A i \in 1 .. n : events[i].kind = "chunk" =>
          events[i].at \in Nat /\ events[i].size \in Nat /\ events[i].size > 0
  BY <1>1, <1>2, QueueFields
<1>5. \A i \in 1 .. n : events'[i] = events[i] /\ i < n + 1 /\ i \in Nat
  BY <1>2
<1>6. \A i \in 1 .. n + 1 : i \in 1 .. n \/ i = n + 1
  BY <1>2
<1>7. \A i \in 1 .. n : IsChunk(i, s) => End(i) <= taken[s]
  BY <1>2 DEF LaneInv
<1>8. \A i \in DOMAIN events' : IsChunk(i, s)' => End(i)' <= taken'[s]
  <2> SUFFICES ASSUME NEW i \in 1 .. n + 1, IsChunk(i, s)' PROVE End(i)' <= taken'[s]
    BY <1>2
  <2>1. CASE i \in 1 .. n
    BY <2>1, <1>3, <1>4, <1>5, <1>7 DEF IsChunk, End
  <2>2. CASE i = n + 1
    BY <2>2, <1>2, <1>3 DEF End
  <2> QED BY <2>1, <2>2, <1>6
<1>9. \A i, k \in DOMAIN events' :
         i < k /\ IsChunk(i, s)' /\ IsChunk(k, s)' => End(i)' <= events'[k].at
  <2> SUFFICES ASSUME NEW i \in 1 .. n + 1, NEW k \in 1 .. n + 1, i < k,
                      IsChunk(i, s)', IsChunk(k, s)'
               PROVE  End(i)' <= events'[k].at
    BY <1>2
  <2>1. i \in 1 .. n
    BY <1>2
  <2>2. CASE k \in 1 .. n
    BY <2>1, <2>2, <1>2, <1>5 DEF IsChunk, End, LaneInv
  <2>3. CASE k = n + 1
    BY <2>1, <2>3, <1>2, <1>5, <1>7 DEF IsChunk, End
  <2> QED BY <2>2, <2>3, <1>6
<1>10. \A i \in DOMAIN events' : IsChunk(i, s)' =>
          \/ End(i)' = taken'[s]
          \/ \E k \in DOMAIN events' : IsChunk(k, s)' /\ events'[k].at = End(i)'
  <2> SUFFICES ASSUME NEW i \in 1 .. n + 1, IsChunk(i, s)', End(i)' # taken'[s]
               PROVE  \E k \in 1 .. n + 1 : IsChunk(k, s)' /\ events'[k].at = End(i)'
    BY <1>2
  <2>1. i \in 1 .. n
    BY <1>2, <1>6 DEF End
  <2>2. IsChunk(i, s) /\ End(i)' = End(i)
    BY <2>1, <1>5 DEF IsChunk, End
  <2>3. CASE End(i) = taken[s]
    <3>1. n + 1 \in 1 .. n + 1 /\ IsChunk(n + 1, s)' /\ events'[n + 1].at = End(i)'
      BY <2>2, <2>3, <1>2 DEF IsChunk
    <3> QED BY <3>1
  <2>4. CASE \E k \in 1 .. n : IsChunk(k, s) /\ events[k].at = End(i)
    <3>1. PICK k \in 1 .. n : IsChunk(k, s) /\ events[k].at = End(i)
      BY <2>4
    <3>2. k \in 1 .. n + 1 /\ IsChunk(k, s)' /\ events'[k].at = End(i)'
      BY <3>1, <2>2, <1>2, <1>5 DEF IsChunk
    <3> QED BY <3>2
  <2> QED BY <2>1, <2>2, <2>3, <2>4, <1>2 DEF LaneInv
<1>11. ASSUME state' = "complete"
       PROVE  /\ \A i \in DOMAIN events' : IsChunk(i, s)' => kept'[s] <= events'[i].at
              /\ \/ kept'[s] = taken'[s]
                 \/ \E k \in DOMAIN events' : IsChunk(k, s)' /\ events'[k].at = kept'[s]
  <2>1. state = "complete"
    BY <1>11
  <2>2. ASSUME NEW i \in 1 .. n + 1, IsChunk(i, s)' PROVE kept'[s] <= events'[i].at
    <3>1. CASE i \in 1 .. n
      BY <2>1, <2>2, <3>1, <1>2, <1>5 DEF IsChunk, LaneInv
    <3>2. CASE i = n + 1
      BY <3>2, <1>2
    <3> QED BY <3>1, <3>2, <1>6
  <2>3. CASE kept[s] = taken[s]
    <3>1. n + 1 \in 1 .. n + 1 /\ IsChunk(n + 1, s)' /\ events'[n + 1].at = kept'[s]
      BY <2>3, <1>2 DEF IsChunk
    <3> QED BY <2>2, <3>1, <1>2
  <2>4. CASE \E k \in 1 .. n : IsChunk(k, s) /\ events[k].at = kept[s]
    <3>1. PICK k \in 1 .. n : IsChunk(k, s) /\ events[k].at = kept[s]
      BY <2>4
    <3>2. k \in 1 .. n + 1 /\ IsChunk(k, s)' /\ events'[k].at = kept'[s]
      BY <3>1, <1>2, <1>5 DEF IsChunk
    <3> QED BY <2>2, <3>2, <1>2
  <2> QED BY <2>1, <2>3, <2>4, <1>2 DEF LaneInv
<1> QED BY <1>8, <1>9, <1>10, <1>11 DEF LaneInv

\* While all is well, the next chunk of a stream begins where the kept part ends.
LEMMA HeadFollows ==
  ASSUME CallTypeOK, NEW s \in Streams, LaneInv(s), events # <<>>, IsChunk(1, s),
         state = "complete"
  PROVE  events[1].at = kept[s]
<1>1. events \in Seq(Events) /\ Len(events) <= QueueSize
  BY DEF CallTypeOK
<1>2. PICK n \in Nat \ {0} : DOMAIN events = 1 .. n
  BY <1>1
<1>3. taken[s] \in Nat /\ kept[s] \in Nat
  BY DEF CallTypeOK
<1>4. 1 \in 1 .. n /\ events[1].at \in Nat /\ events[1].size \in Nat /\ events[1].size > 0
  BY <1>1, <1>2, QueueFields DEF IsChunk
<1>5. End(1) = events[1].at + events[1].size
  BY DEF End
<1>6. kept[s] <= events[1].at
  BY <1>2, <1>4 DEF LaneInv
<1>7. CASE kept[s] = taken[s]
  <2>1. End(1) <= taken[s]
    BY <1>2, <1>4 DEF LaneInv
  <2> QED BY <2>1, <1>3, <1>4, <1>5, <1>6, <1>7
<1>8. CASE \E k \in 1 .. n : IsChunk(k, s) /\ events[k].at = kept[s]
  <2>1. PICK k \in 1 .. n : IsChunk(k, s) /\ events[k].at = kept[s]
    BY <1>8
  <2>2. CASE k = 1
    BY <2>1, <2>2
  <2>3. CASE k # 1
    <3>1. 1 < k
      BY <2>3
    <3>2. End(1) <= events[k].at
      BY <3>1, <2>1, <1>2, <1>4 DEF LaneInv
    <3> QED BY <3>2, <2>1, <1>3, <1>4, <1>5, <1>6
  <2> QED BY <2>2, <2>3
<1> QED BY <1>2, <1>7, <1>8 DEF LaneInv

LEMMA LaneTail ==
  ASSUME CallTypeOK, NEW s \in Streams, LaneInv(s), events # <<>>, events' = Tail(events),
         taken'[s] = taken[s],
         state' = "complete" =>
            /\ state = "complete"
            /\ kept'[s] = IF IsChunk(1, s) THEN kept[s] + events[1].size ELSE kept[s]
  PROVE  LaneInv(s)'
<1>1. events \in Seq(Events) /\ Len(events) <= QueueSize
  BY DEF CallTypeOK
<1>2. PICK n \in Nat \ {0} :
         /\ DOMAIN events = 1 .. n /\ DOMAIN events' = 1 .. n - 1
         /\ \A i \in 1 .. n - 1 : events'[i] = events[i + 1]
  BY <1>1, TailQueue
<1>3. taken[s] \in Nat /\ kept[s] \in Nat
  BY DEF CallTypeOK
<1>4. \A i \in 1 .. n : events[i].kind = "chunk" =>
          events[i].at \in Nat /\ events[i].size \in Nat /\ events[i].size > 0
  BY <1>1, <1>2, QueueFields
<1>5. \A i \in 1 .. n - 1 : i + 1 \in 1 .. n /\ i \in Nat
  BY <1>2
<1>6. \A i \in 1 .. n - 1 : /\ IsChunk(i, s)' <=> IsChunk(i + 1, s)
                            /\ End(i)' = End(i + 1)
                            /\ events'[i].at = events[i + 1].at
  BY <1>2, <1>5 DEF IsChunk, End
<1>7. \A k \in 1 .. n : k # 1 => k - 1 \in 1 .. n - 1 /\ k = (k - 1) + 1
  BY <1>2
<1>8. \A i \in DOMAIN events' : IsChunk(i, s)' => End(i)' <= taken'[s]
  BY <1>2, <1>5, <1>6 DEF LaneInv
<1>9. \A i, k \in DOMAIN events' :
         i < k /\ IsChunk(i, s)' /\ IsChunk(k, s)' => End(i)' <= events'[k].at
  <2> SUFFICES ASSUME NEW i \in 1 .. n - 1, NEW k \in 1 .. n - 1, i < k,
                      IsChunk(i, s)', IsChunk(k, s)'
               PROVE  End(i)' <= events'[k].at
    BY <1>2
  <2>1. PICK a \in 1 .. n, b \in 1 .. n : a = i + 1 /\ b = k + 1
    BY <1>5
  <2>2. a < b
    BY <2>1, <1>2
  <2>3. /\ IsChunk(a, s) /\ IsChunk(b, s)
        /\ End(i)' = End(a) /\ events'[k].at = events[b].at
    BY <2>1, <1>6
  <2>4. End(a) <= events[b].at
    BY <2>2, <2>3, <1>2 DEF LaneInv
  <2> QED BY <2>3, <2>4

\* Nothing but an earlier chunk ends where the first one begins.
<1>10. ASSUME NEW at \in Nat, IsChunk(1, s) => events[1].at < at,
              \E k \in 1 .. n : IsChunk(k, s) /\ events[k].at = at
       PROVE  \E k \in 1 .. n - 1 : IsChunk(k, s)' /\ events'[k].at = at
  <2>1. PICK k \in 1 .. n : IsChunk(k, s) /\ events[k].at = at
    BY <1>10
  <2>2. k # 1
    BY <2>1, <1>10, <1>4 DEF IsChunk
  <2> DEFINE j == k - 1
  <2>3. j \in 1 .. n - 1 /\ k = j + 1
    BY <2>2, <1>7
  <2> HIDE DEF j
  <2>4. IsChunk(j, s)' /\ events'[j].at = at
    BY <2>1, <2>3, <1>6
  <2> QED BY <2>3, <2>4
<1>11. \A i \in DOMAIN events' : IsChunk(i, s)' =>
          \/ End(i)' = taken'[s]
          \/ \E k \in DOMAIN events' : IsChunk(k, s)' /\ events'[k].at = End(i)'
  <2> SUFFICES ASSUME NEW i \in 1 .. n - 1, IsChunk(i, s)', End(i)' # taken'[s]
               PROVE  \E k \in 1 .. n - 1 : IsChunk(k, s)' /\ events'[k].at = End(i)'
    BY <1>2
  <2>1. i + 1 \in 1 .. n /\ IsChunk(i + 1, s) /\ End(i)' = End(i + 1)
    BY <1>5, <1>6
  <2>2. End(i + 1) \in Nat
    BY <2>1, <1>4 DEF IsChunk, End
  <2>3. \E k \in 1 .. n : IsChunk(k, s) /\ events[k].at = End(i + 1)
    BY <2>1, <1>2 DEF LaneInv
  <2>4. IsChunk(1, s) => events[1].at < End(i + 1)
    <3> SUFFICES ASSUME IsChunk(1, s) PROVE events[1].at < End(i + 1)
      OBVIOUS
    <3>1. 1 \in 1 .. n /\ 1 < i + 1
      BY <1>2, <1>5
    <3>2. End(1) <= events[i + 1].at
      BY <3>1, <2>1, <1>2 DEF LaneInv
    <3>3. events[1].at \in Nat /\ events[1].size \in Nat /\ events[1].size > 0
      BY <3>1, <1>4 DEF IsChunk
    <3>4. events[i + 1].at \in Nat /\ events[i + 1].size \in Nat /\ events[i + 1].size > 0
      BY <2>1, <1>4 DEF IsChunk
    <3>5. End(1) = events[1].at + events[1].size
          /\ End(i + 1) = events[i + 1].at + events[i + 1].size
      BY DEF End
    <3>6. \A a, b, c, d \in Nat : b > 0 /\ a + b <= c => a < c + d
      OBVIOUS
    <3> QED BY <3>2, <3>3, <3>4, <3>5, <3>6
  <2> QED BY <2>1, <2>2, <2>3, <2>4, <1>10
<1>12. ASSUME state' = "complete"
       PROVE  /\ \A i \in DOMAIN events' : IsChunk(i, s)' => kept'[s] <= events'[i].at
              /\ \/ kept'[s] = taken'[s]
                 \/ \E k \in DOMAIN events' : IsChunk(k, s)' /\ events'[k].at = kept'[s]
  <2>1. state = "complete"
    BY <1>12
  <2>2. /\ \A i \in 1 .. n : IsChunk(i, s) => kept[s] <= events[i].at
        /\ \/ kept[s] = taken[s]
           \/ \E k \in 1 .. n : IsChunk(k, s) /\ events[k].at = kept[s]
    BY <2>1, <1>2 DEF LaneInv
  <2>3. CASE ~IsChunk(1, s)
    <3>1. kept'[s] = kept[s]
      BY <2>3, <1>12
    <3>2. \A i \in 1 .. n - 1 : IsChunk(i, s)' => kept'[s] <= events'[i].at
      BY <3>1, <2>2, <1>5, <1>6
    <3>3. \/ kept'[s] = taken'[s]
          \/ \E k \in 1 .. n - 1 : IsChunk(k, s)' /\ events'[k].at = kept'[s]
      BY <3>1, <2>2, <2>3, <1>3, <1>10
    <3> QED BY <3>2, <3>3, <1>2
  <2>4. CASE IsChunk(1, s)
    <3>1. 1 \in 1 .. n /\ events[1].at \in Nat /\ events[1].size \in Nat /\ events[1].size > 0
      BY <2>4, <1>2, <1>4 DEF IsChunk
    <3>2. events[1].at = kept[s]
      BY <2>1, <2>4, HeadFollows
    <3>3. kept'[s] = End(1) /\ End(1) \in Nat /\ events[1].at < End(1)
      BY <2>4, <3>1, <3>2, <1>12 DEF End
    <3>4. \A i \in 1 .. n - 1 : IsChunk(i, s)' => kept'[s] <= events'[i].at
      <4> SUFFICES ASSUME NEW i \in 1 .. n - 1, IsChunk(i, s)' PROVE End(1) <= events'[i].at
        BY <3>3
      <4>1. 1 < i + 1 /\ i + 1 \in 1 .. n /\ IsChunk(i + 1, s)
        BY <1>5, <1>6, <1>2
      <4>2. End(1) <= events[i + 1].at
        BY <4>1, <2>4, <3>1, <1>2 DEF LaneInv
      <4> QED BY <4>2, <1>6
    <3>5. \/ End(1) = taken[s]
          \/ \E k \in 1 .. n : IsChunk(k, s) /\ events[k].at = End(1)
      BY <2>4, <3>1, <1>2 DEF LaneInv
    <3>6. \/ kept'[s] = taken'[s]
          \/ \E k \in 1 .. n - 1 : IsChunk(k, s)' /\ events'[k].at = kept'[s]
      BY <3>3, <3>5, <1>10
    <3> QED BY <3>4, <3>6, <1>2
  <2> QED BY <2>3, <2>4
<1> QED BY <1>8, <1>9, <1>11, <1>12 DEF LaneInv

-----------------------------------------------------------------------------
(* The end of one stream *)

LEMMA EndSame ==
  ASSUME NEW s \in Streams, EndInv(s), UNCHANGED events, reader'[s] = reader[s],
         pending => pending',
         reader[s] \in {"ending", "done"} /\ ReadOut(s) => ReadOut(s)'
  PROVE  EndInv(s)' /\ Open(s)' = Open(s)
<1>1. /\ Has("error", s)' <=> Has("error", s)
      /\ Has("end", s)' <=> Has("end", s)
  BY DEF Has
<1> QED BY <1>1 DEF EndInv, Open

LEMMA EndPutOther ==
  ASSUME CallTypeOK, NEW s \in Streams, EndInv(s), NEW e \in Events, Put(e), e.of # s,
         reader'[s] = reader[s], pending => pending', ReadOut(s) => ReadOut(s)'
  PROVE  EndInv(s)' /\ Open(s)' = Open(s)
<1>1. events \in Seq(Events) /\ Len(events) <= QueueSize
  BY DEF CallTypeOK
<1>2. PICK n \in Nat :
         /\ DOMAIN events = 1 .. n /\ DOMAIN events' = 1 .. n + 1
         /\ \A i \in 1 .. n : events'[i] = events[i]
         /\ events'[n + 1] = e
  BY <1>1, PutQueue
<1>3. \A i \in DOMAIN events' : events'[i].of = s => i \in DOMAIN events /\ events'[i] = events[i]
  BY <1>2
<1>4. \A i \in DOMAIN events : i \in DOMAIN events' /\ events'[i] = events[i]
  BY <1>2
<1>5. /\ Has("error", s)' <=> Has("error", s)
      /\ Has("end", s)' <=> Has("end", s)
  BY <1>3, <1>4 DEF Has
<1> QED BY <1>3, <1>4, <1>5 DEF EndInv, Open

LEMMA EndPutOwn ==
  ASSUME CallTypeOK, NEW s \in Streams, EndInv(s), NEW e \in Events, Put(e), e.of = s,
         reader[s] # "done", reader'[s] = "done" <=> e.kind = "end",
         reader'[s] \in {"ending", "done"} =>
            pending' \/ e.kind = "error" \/ Has("error", s) \/ ReadOut(s)'
  PROVE  EndInv(s)' /\ Open(s)' = Open(s)
<1>1. events \in Seq(Events) /\ Len(events) <= QueueSize
  BY DEF CallTypeOK
<1>2. PICK n \in Nat :
         /\ DOMAIN events = 1 .. n /\ DOMAIN events' = 1 .. n + 1
         /\ \A i \in 1 .. n : events'[i] = events[i]
         /\ events'[n + 1] = e
  BY <1>1, PutQueue
<1>3. \A i \in DOMAIN events' : (i \in DOMAIN events /\ events'[i] = events[i]) \/ i = n + 1
  BY <1>2
<1>4. \A i \in DOMAIN events : i \in DOMAIN events' /\ events'[i] = events[i]
  BY <1>2
<1>5. ~Has("end", s)
  BY DEF EndInv
<1>6. Has("end", s)' <=> e.kind = "end"
  <2>1. n + 1 \in DOMAIN events' /\ events'[n + 1] = e
    BY <1>2
  <2> QED BY <2>1, <1>3, <1>5 DEF Has
<1>7. Has("error", s) \/ e.kind = "error" => Has("error", s)'
  <2>1. n + 1 \in DOMAIN events' /\ events'[n + 1] = e
    BY <1>2
  <2> QED BY <2>1, <1>4 DEF Has
<1>8. ASSUME NEW i \in DOMAIN events', NEW k \in DOMAIN events',
             events'[i].kind = "end", events'[i].of = s
      PROVE  k <= i
  <2>1. i = n + 1
    BY <1>8, <1>3, <1>5 DEF Has
  <2> QED BY <2>1, <1>2
<1> QED BY <1>6, <1>7, <1>8 DEF EndInv, Open

LEMMA EndTail ==
  ASSUME CallTypeOK, NEW s \in Streams, EndInv(s), events # <<>>, events' = Tail(events),
         reader'[s] = reader[s], pending => pending',
         events[1].kind = "error" => pending', ReadOut(s) => ReadOut(s)'
  PROVE  /\ EndInv(s)'
         /\ Open(s)' = IF events[1].kind = "end" /\ events[1].of = s THEN 0 ELSE Open(s)
         /\ events[1].kind = "end" /\ events[1].of = s => Open(s) = 1
<1>1. events \in Seq(Events) /\ Len(events) <= QueueSize
  BY DEF CallTypeOK
<1>2. PICK n \in Nat \ {0} :
         /\ DOMAIN events = 1 .. n /\ DOMAIN events' = 1 .. n - 1
         /\ \A i \in 1 .. n - 1 : events'[i] = events[i + 1]
  BY <1>1, TailQueue
<1>3. \A i \in DOMAIN events' : i + 1 \in DOMAIN events /\ events'[i] = events[i + 1]
  BY <1>2
<1>4. ASSUME NEW i \in DOMAIN events, i # 1
      PROVE  \E j \in DOMAIN events' : i = j + 1 /\ events'[j] = events[i]
  <2>1. i - 1 \in 1 .. n - 1 /\ i = (i - 1) + 1
    BY <1>2, <1>4
  <2> QED BY <2>1, <1>2
<1>5. 1 \in DOMAIN events
  BY <1>2
<1>6. \A kind : Has(kind, s)' => Has(kind, s)
  BY <1>3 DEF Has
<1>7. \A kind : Has(kind, s) => Has(kind, s)' \/ (events[1].kind = kind /\ events[1].of = s)
  BY <1>4 DEF Has
<1>8. events[1].kind = "end" /\ events[1].of = s => Has("end", s) /\ ~Has("end", s)'
  <2> SUFFICES ASSUME events[1].kind = "end", events[1].of = s
               PROVE  Has("end", s) /\ ~Has("end", s)'
    OBVIOUS
  <2>1. \A k \in DOMAIN events : events[k].of = s => k <= 1
    BY <1>5 DEF EndInv
  <2>2. ASSUME NEW i \in DOMAIN events', events'[i].of = s PROVE FALSE
    BY <2>1, <2>2, <1>2, <1>3
  <2> QED BY <2>2, <1>5 DEF Has
<1>9. Open(s)' = IF events[1].kind = "end" /\ events[1].of = s THEN 0 ELSE Open(s)
  BY <1>6, <1>7, <1>8 DEF Open, EndInv
<1>10. events[1].kind = "end" /\ events[1].of = s => Open(s) = 1
  BY <1>8 DEF Open
<1>11. reader'[s] \in {"ending", "done"} => pending' \/ Has("error", s)' \/ ReadOut(s)'
  BY <1>7 DEF EndInv
<1>12. Has("end", s)' => reader'[s] = "done"
  BY <1>6 DEF EndInv
<1>13. ASSUME NEW i \in DOMAIN events', NEW k \in DOMAIN events',
              events'[i].kind = "end", events'[i].of = s, events'[k].of = s
       PROVE  k <= i
  <2>1. PICK a \in DOMAIN events, b \in DOMAIN events :
           a = i + 1 /\ b = k + 1 /\ events[a] = events'[i] /\ events[b] = events'[k]
    BY <1>3
  <2>2. b <= a
    BY <2>1, <1>13 DEF EndInv
  <2> QED BY <2>1, <2>2, <1>2
<1>14. ASSUME reader'[s] = "done", NEW i \in DOMAIN events', events'[i].of = s
       PROVE  Has("end", s)'
  <2>1. PICK a \in DOMAIN events : a = i + 1 /\ events[a] = events'[i]
    BY <1>3
  <2>2. Has("end", s)
    BY <2>1, <1>14 DEF EndInv
  <2>3. ~(events[1].kind = "end" /\ events[1].of = s)
    <3>1. a > 1
      BY <2>1, <1>2
    <3> QED BY <3>1, <2>1, <1>14, <1>5, <1>2 DEF EndInv
  <2> QED BY <2>2, <2>3, <1>7
<1> QED BY <1>9, <1>10, <1>11, <1>12, <1>13, <1>14 DEF EndInv

-----------------------------------------------------------------------------
(* One lemma per kind of step *)

LEMMA InitCall == CallInit => CallInv
<1> SUFFICES ASSUME CallInit PROVE CallInv
  OBVIOUS
<1>1. CallTypeOK
  <2>1. events \in Seq(Events) /\ Len(events) <= QueueSize
    BY GitAssumption DEF CallInit
  <2>2. buffer \in [Streams -> 0 .. Chunk]
    BY GitAssumption DEF CallInit
  <2>3. /\ written \in [Streams -> Nat] /\ pipe \in [Streams -> Nat]
        /\ taken \in [Streams -> Nat] /\ kept \in [Streams -> Nat]
        /\ reader \in [Streams -> {"reading", "failing", "ending", "done"}]
    BY DEF CallInit
  <2>6. killed \in BOOLEAN /\ shut \in BOOLEAN /\ helper \in BOOLEAN
    BY Zenon DEF CallInit
  <2>4. /\ git \in {"running", "exiting", "exited", "reaped"}
        /\ code \in {0, 1, 9}
        /\ main \in {"draining", "reaping", "returned"}
        /\ open \in 0 .. 2
    BY DEF CallInit
  <2>5. /\ state \in {"complete", "bounded", "timeout"}
        /\ pending \in BOOLEAN
        /\ result \in {"none", "complete", "bounded", "failed", "error"}
    BY DEF CallInit
  <2> QED BY <2>1, <2>2, <2>3, <2>4, <2>5, <2>6 DEF CallTypeOK
<1>2. events = <<>> /\ DOMAIN events = {}
  BY DEF CallInit
<1>3. \A s \in Streams : CountInv(s) /\ LaneInv(s) /\ EndInv(s) /\ Open(s) = 1
  BY <1>2 DEF CallInit, CountInv, LaneInv, EndInv, Open, Has, IsChunk
<1>4. open = Open("stdout") + Open("stderr")
  BY <1>3 DEF CallInit, Streams
<1>5. CallerInv
  BY GitAssumption DEF CallInit, CallerInv, Retained, Streams
<1> QED BY <1>1, <1>3, <1>4, <1>5 DEF CallInv, StreamsInv

\* A step that leaves the queue and what the caller knows alone.
LEMMA SameStreams ==
  ASSUME CallInv, UNCHANGED <<events, kept, taken, open, pending>>,
         state' = state \/ state' # "complete",
         \A s \in Streams : CountInv(s)',
         \A s \in Streams : reader'[s] # reader[s] =>
            /\ reader[s] \in {"reading", "failing"}
            /\ reader'[s] = "failing" \/ (reader'[s] = "ending" /\ ReadOut(s)'),
         \A s \in Streams :
            reader[s] \in {"ending", "done"} /\ ReadOut(s) => ReadOut(s)'
  PROVE  StreamsInv'
<1>1. \A s \in Streams : LaneInv(s)'
  BY LaneSame DEF CallInv, StreamsInv
<1>2. ASSUME NEW s \in Streams PROVE EndInv(s)' /\ Open(s)' = Open(s)
  <2>1. EndInv(s)
    BY DEF CallInv, StreamsInv
  <2>2. CASE reader'[s] = reader[s]
    BY <2>1, <2>2, EndSame
  <2>3. CASE reader'[s] # reader[s]
    <3>1. /\ Has("error", s)' <=> Has("error", s)
          /\ Has("end", s)' <=> Has("end", s)
      BY DEF Has
    <3> QED BY <2>1, <2>3, <3>1 DEF EndInv, Open
  <2> QED BY <2>2, <2>3
<1>3. (open = Open("stdout") + Open("stderr"))'
  BY <1>2 DEF CallInv, StreamsInv, Streams
<1> QED BY <1>1, <1>2, <1>3 DEF StreamsInv

LEMMA SameCaller ==
  ASSUME CallInv, UNCHANGED <<main, open, state, pending, kept, result>>,
         main # "returned" \/ UNCHANGED code, git' = "reaped" <=> git = "reaped",
         \A s \in Streams : written'[s] = written[s] \/ written'[s] = written[s] + 1
  PROVE  CallerInv'
<1>1. /\ written["stdout"] \in Nat /\ written["stderr"] \in Nat
      /\ "stdout" \in Streams /\ "stderr" \in Streams
  BY DEF CallInv, CallTypeOK, Streams
<1>2. Limit \in Nat
  BY GitAssumption
<1>3. Retained' = Retained
  BY DEF Retained
<1>4. state = "bounded" => written'["stdout"] + written'["stderr"] > Limit
  BY <1>1, <1>2 DEF CallInv, CallerInv
<1> QED BY <1>3, <1>4 DEF CallInv, CallerInv

LEMMA OutsideStep ==
  ASSUME CallInv,
         (\E s \in Streams : GitWrite(s)) \/ Helper \/ GitShut \/ GitExit \/ Die
  PROVE  CallInv'
<1>1. CallTypeOK'
  <2>1. CASE \E s \in Streams : GitWrite(s)
    <3>1. PICK t \in Streams : GitWrite(t)
      BY <2>1
    <3>2. /\ written' = [written EXCEPT ![t] = written[t] + 1]
          /\ pipe' = [pipe EXCEPT ![t] = pipe[t] + 1]
          /\ UNCHANGED <<process, reading, events, caller>>
      BY <3>1, Zenon DEF GitWrite
    <3>3. written \in [Streams -> Nat] /\ pipe \in [Streams -> Nat]
      BY DEF CallInv, CallTypeOK
    <3>4. written' \in [Streams -> Nat] /\ pipe' \in [Streams -> Nat]
      BY <3>2, <3>3
    <3>5. UNCHANGED <<git, code, killed, shut, helper>>
      BY <3>2, Zenon DEF process
    <3>6. UNCHANGED <<reader, buffer, taken, events, main, open, state, pending, kept, result>>
      BY <3>2, Zenon DEF reading, caller
    <3>7. /\ git' \in {"running", "exiting", "exited", "reaped"} /\ code' \in {0, 1, 9}
          /\ killed' \in BOOLEAN /\ shut' \in BOOLEAN /\ helper' \in BOOLEAN
      BY <3>5, Zenon DEF CallInv, CallTypeOK
    <3> QED BY <3>4, <3>6, <3>7, Zenon DEF CallInv, CallTypeOK
  <2>2. CASE Helper
    <3>1. helper' \in BOOLEAN
      BY <2>2, Zenon DEF Helper
    <3>2. UNCHANGED <<git, code, killed, shut, written, pipe, reading, events, caller>>
      BY <2>2 DEF Helper
    <3> QED BY <3>1, <3>2 DEF CallInv, CallTypeOK, reading, caller
  <2>3. CASE GitShut
    BY <2>3 DEF CallInv, CallTypeOK, GitShut, reading, caller
  <2>4. CASE GitExit
    <3>1. code' \in {0, 1, 9}
      BY <2>4 DEF GitExit
    <3>2. UNCHANGED <<killed, shut, helper, written, pipe, reading, events, caller>>
          /\ git' = "exiting"
      BY <2>4 DEF GitExit
    <3> QED BY <3>1, <3>2 DEF CallInv, CallTypeOK, reading, caller
  <2>5. CASE Die
    BY <2>5 DEF CallInv, CallTypeOK, Die, reading, caller
  <2> QED BY <2>1, <2>2, <2>3, <2>4, <2>5
<1>2. StreamsInv'
  <2>1. CASE \E s \in Streams : GitWrite(s)
    <3>1. PICK t \in Streams : GitWrite(t)
      BY <2>1
    <3>2. ASSUME NEW s \in Streams PROVE CountInv(s)'
      <4>1. CountInv(s) /\ UNCHANGED <<taken, buffer, kept>>
        BY <3>1 DEF CallInv, StreamsInv, GitWrite, reading, caller
      <4>2. /\ pipe[s] \in Nat /\ written[s] \in Nat /\ taken[s] \in Nat
            /\ buffer[s] \in 0 .. Chunk
        BY DEF CallInv, CallTypeOK
      <4>3. CASE s = t
        <5>1. written'[s] = written[s] + 1 /\ pipe'[s] = pipe[s] + 1
          BY <3>1, <4>3 DEF CallInv, CallTypeOK, GitWrite
        <5> QED BY <4>1, <4>2, <5>1, GitAssumption DEF CountInv
      <4>4. CASE s # t
        <5>1. written'[s] = written[s] /\ pipe'[s] = pipe[s]
          BY <3>1, <4>4 DEF CallInv, CallTypeOK, GitWrite
        <5> QED BY <4>1, <5>1 DEF CountInv
      <4> QED BY <4>3, <4>4
    <3>3. \A s \in Streams : ~ReadOut(s)
      BY <3>1 DEF GitWrite, ReadOut
    <3> QED BY <3>1, <3>2, <3>3, SameStreams DEF GitWrite, reading, caller
  <2>2. CASE Helper \/ GitShut \/ GitExit \/ Die
    <3>1. UNCHANGED <<written, pipe, reading, events, caller>>
      BY <2>2 DEF Helper, GitShut, GitExit, Die
    <3>2. Held' => Held
      BY <2>2 DEF Helper, GitShut, GitExit, Die, Held
    <3>3. \A s \in Streams : CountInv(s)' /\ (ReadOut(s) => ReadOut(s)')
      BY <3>1, <3>2 DEF CallInv, StreamsInv, CountInv, ReadOut, reading, caller
    <3> QED BY <3>1, <3>3, SameStreams DEF reading, caller
  <2> QED BY <2>1, <2>2
<1>3. CallerInv'
  <2>1. UNCHANGED <<main, open, state, pending, kept, result>>
    BY DEF GitWrite, Helper, GitShut, GitExit, Die, caller
  <2>2. main # "returned" \/ UNCHANGED code
    BY DEF GitWrite, Helper, GitShut, GitExit, Die, process, CallInv, CallerInv
  <2>3. git' = "reaped" <=> git = "reaped"
    BY DEF GitWrite, Helper, GitShut, GitExit, Die, process
  <2>4. \A s \in Streams : written'[s] = written[s] \/ written'[s] = written[s] + 1
    BY DEF GitWrite, Helper, GitShut, GitExit, Die, CallInv, CallTypeOK
  <2> QED BY <2>1, <2>2, <2>3, <2>4, SameCaller
<1> QED BY <1>1, <1>2, <1>3 DEF CallInv

\* Steps of the readers that put nothing into the queue.
LEMMA PullStep ==
  ASSUME CallInv, NEW t \in Streams, Pull(t) \/ ReadFails(t)
  PROVE  CallInv'
<1>1. CallTypeOK'
  <2>1. CASE Pull(t)
    <3>1. pipe[t] \in Nat /\ buffer[t] \in 0 .. Chunk /\ Chunk \in Nat
      BY GitAssumption DEF CallInv, CallTypeOK
    <3>2. pipe[t] - 1 \in Nat /\ buffer[t] + 1 \in 0 .. Chunk
      BY <2>1, <3>1 DEF Pull
    <3>3. pipe' \in [Streams -> Nat] /\ buffer' \in [Streams -> 0 .. Chunk]
      BY <2>1, <3>2 DEF CallInv, CallTypeOK, Pull
    <3> QED BY <2>1, <3>3 DEF CallInv, CallTypeOK, Pull, process, caller
  <2>2. CASE ReadFails(t)
    <3>1. reader' \in [Streams -> {"reading", "failing", "ending", "done"}]
      BY <2>2 DEF CallInv, CallTypeOK, ReadFails
    <3> QED BY <2>2, <3>1 DEF CallInv, CallTypeOK, ReadFails, process, caller
  <2> QED BY <2>1, <2>2
<1>2. ASSUME NEW s \in Streams PROVE CountInv(s)'
  <2>1. CountInv(s) /\ UNCHANGED <<written, taken, kept>>
    BY DEF CallInv, StreamsInv, Pull, ReadFails, caller
  <2>2. CASE pipe'[s] = pipe[s] /\ buffer'[s] = buffer[s]
    BY <2>1, <2>2 DEF CountInv
  <2>3. CASE Pull(t) /\ s = t
    <3>1. pipe'[s] = pipe[s] - 1 /\ buffer'[s] = buffer[s] + 1
      BY <2>3 DEF CallInv, CallTypeOK, Pull
    <3>2. /\ pipe[s] \in Nat /\ taken[s] \in Nat /\ buffer[s] \in Nat
      BY GitAssumption DEF CallInv, CallTypeOK
    <3> QED BY <2>1, <3>1, <3>2 DEF CountInv
  <2> QED BY <2>2, <2>3 DEF CallInv, CallTypeOK, Pull, ReadFails
<1>3. UNCHANGED <<process, written, taken, events, caller>>
  BY DEF Pull, ReadFails
<1>4. \A s \in Streams : s # t => pipe'[s] = pipe[s] /\ buffer'[s] = buffer[s]
  BY DEF Pull, ReadFails, CallInv, CallTypeOK
<1>5. reader[t] = "reading"
  BY DEF Pull, ReadFails
<1>6. Held' <=> Held
  BY <1>3 DEF Held, process
<1>7. \A s \in Streams : reader'[s] # reader[s] => s = t /\ reader'[s] = "failing"
  BY DEF Pull, ReadFails, CallInv, CallTypeOK
<1>8. \A s \in Streams : reader[s] \in {"ending", "done"} /\ ReadOut(s) => ReadOut(s)'
  BY <1>4, <1>5, <1>6 DEF ReadOut
<1>9. StreamsInv'
  BY <1>2, <1>3, <1>5, <1>7, <1>8, SameStreams DEF caller
<1>10. CallerInv'
  BY <1>3, SameCaller DEF process, caller
<1> QED BY <1>1, <1>9, <1>10 DEF CallInv

\* Steps of the readers that put an event into the queue, or come to the end.
LEMMA ReadType ==
  ASSUME CallInv, NEW t \in Streams, Read(t)
  PROVE  CallTypeOK'
<1>1. events \in Seq(Events) /\ Len(events) <= QueueSize
  BY DEF CallInv, CallTypeOK
<1>2. UNCHANGED <<process, written, pipe, caller>>
  BY DEF Read
<1>3. /\ reader' \in [Streams -> {"reading", "failing", "ending", "done"}]
      /\ taken[t] \in Nat /\ buffer[t] \in 0 .. Chunk /\ Chunk \in Nat
  BY GitAssumption DEF Read, CallInv, CallTypeOK
<1>4. /\ taken' \in [Streams -> Nat]
      /\ buffer' \in [Streams -> 0 .. Chunk]
  BY <1>3 DEF Read, CallInv, CallTypeOK
<1>5. events' \in Seq(Events) /\ Len(events') <= QueueSize
  <2>1. ASSUME NEW e \in Events, Put(e) PROVE events' \in Seq(Events) /\ Len(events') <= QueueSize
    BY <2>1, <1>1, PutQueue
  <2>2. /\ buffer[t] > 0 => [kind |-> "chunk", of |-> t, at |-> taken[t], size |-> buffer[t]] \in Events
        /\ [kind |-> "error", of |-> t] \in Events
        /\ [kind |-> "end", of |-> t] \in Events
    BY <1>3 DEF Events
  <2> QED BY <1>1, <2>1, <2>2 DEF Read
<1> QED BY <1>2, <1>3, <1>4, <1>5 DEF CallInv, CallTypeOK, process, caller

LEMMA ReadChunk ==
  ASSUME CallInv, NEW t \in Streams, Read(t), reader[t] = "reading", buffer[t] > 0
  PROVE  StreamsInv'
<1> DEFINE e == [kind |-> "chunk", of |-> t, at |-> taken[t], size |-> buffer[t]]
<1>1. /\ taken[t] \in Nat /\ buffer[t] \in Nat /\ pipe[t] \in Nat /\ kept[t] \in Nat
      /\ CountInv(t) /\ written[t] \in Nat
  BY GitAssumption DEF CallInv, CallTypeOK, StreamsInv
<1>2. /\ Put(e) /\ UNCHANGED <<reader, process, written, pipe, caller>>
      /\ taken' = [taken EXCEPT ![t] = @ + buffer[t]]
      /\ buffer' = [buffer EXCEPT ![t] = 0]
  BY <1>1 DEF Read
<1>3. /\ e \in Events /\ e.kind = "chunk" /\ e.of = t
      /\ e.at = taken[t] /\ e.size = buffer[t]
  BY <1>1 DEF Events
<1> HIDE DEF e
<1>4. taken'[t] = taken[t] + buffer[t] /\ buffer'[t] = 0
  BY <1>2 DEF CallInv, CallTypeOK
<1>5. \A s \in Streams : s # t => taken'[s] = taken[s] /\ buffer'[s] = buffer[s]
  BY <1>2 DEF CallInv, CallTypeOK
<1>6. /\ UNCHANGED <<kept, state, pending, open>>
      /\ Held' <=> Held
  BY <1>2 DEF caller, process, Held
<1>7. ASSUME NEW s \in Streams PROVE CountInv(s)' /\ LaneInv(s)' /\ EndInv(s)' /\ Open(s)' = Open(s)
  <2>1. CountInv(s) /\ LaneInv(s) /\ EndInv(s) /\ CallTypeOK
    BY DEF CallInv, StreamsInv
  <2>2. CASE s = t
    <3>1. CountInv(s)'
      BY <1>1, <1>2, <1>4, <1>6, <2>2 DEF CountInv
    <3>2. LaneInv(s)'
      BY <1>1, <1>2, <1>3, <1>4, <1>6, <2>1, <2>2, LanePutChunk DEF CountInv
    <3>3. EndInv(s)' /\ Open(s)' = Open(s)
      BY <1>2, <1>3, <2>1, <2>2, EndPutOwn
    <3> QED BY <3>1, <3>2, <3>3
  <2>3. CASE s # t
    <3>1. CountInv(s)'
      BY <1>2, <1>5, <1>6, <2>1, <2>3 DEF CountInv
    <3>2. LaneInv(s)'
      BY <1>2, <1>3, <1>5, <1>6, <2>1, <2>3, LanePutOther
    <3>3. ReadOut(s)' <=> ReadOut(s)
      BY <1>2, <1>5, <1>6, <2>3 DEF ReadOut
    <3>4. EndInv(s)' /\ Open(s)' = Open(s)
      BY <1>2, <1>3, <1>6, <3>3, <2>1, <2>3, EndPutOther
    <3> QED BY <3>1, <3>2, <3>4
  <2> QED BY <2>2, <2>3
<1>8. (open = Open("stdout") + Open("stderr"))'
  BY <1>6, <1>7 DEF CallInv, StreamsInv, Streams
<1> QED BY <1>7, <1>8 DEF StreamsInv

LEMMA ReadMark ==
  ASSUME CallInv, NEW t \in Streams, NEW e \in Events, e.of = t, Put(e),
         UNCHANGED <<process, written, pipe, caller, buffer, taken>>,
         \/ /\ e.kind = "error" /\ reader[t] = "failing"
            /\ reader' = [reader EXCEPT ![t] = "ending"]
         \/ /\ e.kind = "end" /\ reader[t] = "ending"
            /\ reader' = [reader EXCEPT ![t] = "done"]
  PROVE  StreamsInv'
<1>1. /\ UNCHANGED <<kept, state, pending, open>>
      /\ \A s \in Streams : ReadOut(s)' <=> ReadOut(s)
  BY DEF caller, process, ReadOut, Held
<1>2. /\ reader[t] # "done" /\ (reader'[t] = "done" <=> e.kind = "end")
      /\ reader[t] = "ending" \/ e.kind = "error"
      /\ \A s \in Streams : s # t => reader'[s] = reader[s]
  BY DEF CallInv, CallTypeOK
<1>3. ASSUME NEW s \in Streams PROVE CountInv(s)' /\ LaneInv(s)' /\ EndInv(s)' /\ Open(s)' = Open(s)
  <2>1. CountInv(s) /\ LaneInv(s) /\ EndInv(s) /\ CallTypeOK
    BY DEF CallInv, StreamsInv
  <2>2. CountInv(s)'
    BY <1>1, <2>1 DEF CountInv
  <2>3. LaneInv(s)'
    BY <1>1, <2>1, LanePutOther
  <2>4. CASE s = t
    <3>1. pending' \/ e.kind = "error" \/ Has("error", s) \/ ReadOut(s)'
      BY <1>1, <1>2, <2>1, <2>4 DEF EndInv
    <3> QED BY <3>1, <1>2, <2>1, <2>2, <2>3, <2>4, EndPutOwn
  <2>5. CASE s # t
    BY <1>1, <1>2, <2>1, <2>2, <2>3, <2>5, EndPutOther
  <2> QED BY <2>4, <2>5
<1>4. (open = Open("stdout") + Open("stderr"))'
  BY <1>1, <1>3 DEF CallInv, StreamsInv, Streams
<1> QED BY <1>3, <1>4 DEF StreamsInv

LEMMA ReadStep ==
  ASSUME CallInv, NEW t \in Streams, Read(t)
  PROVE  CallInv'
<1>1. UNCHANGED <<process, written, pipe, caller>>
  BY DEF Read
<1>2. CallerInv'
  BY <1>1, SameCaller DEF process, caller
<1>3. CASE reader[t] = "reading" /\ buffer[t] > 0
  BY <1>2, <1>3, ReadType, ReadChunk DEF CallInv
<1>4. CASE reader[t] = "reading" /\ buffer[t] = 0
  <2>1. /\ AtEnd(t) /\ UNCHANGED <<buffer, taken, events>>
        /\ reader' = [reader EXCEPT ![t] = "ending"]
    BY <1>4 DEF Read
  <2>2. /\ reader'[t] = "ending"
        /\ \A s \in Streams : s # t => reader'[s] = reader[s]
    BY <2>1 DEF CallInv, CallTypeOK
  <2>3. \A s \in Streams : CountInv(s)' /\ (ReadOut(s)' <=> ReadOut(s))
    BY <1>1, <2>1 DEF CallInv, StreamsInv, CountInv, ReadOut, Held, process, caller
  <2>4. ReadOut(t)
    BY <1>4, <2>1 DEF ReadOut, AtEnd
  <2>5. StreamsInv'
    BY <1>1, <1>4, <2>1, <2>2, <2>3, <2>4, SameStreams DEF caller
  <2> QED BY <1>2, <2>5, ReadType DEF CallInv
<1>5. CASE reader[t] = "failing"
  <2> DEFINE e == [kind |-> "error", of |-> t]
  <2>1. Put(e) /\ UNCHANGED <<buffer, taken>> /\ reader' = [reader EXCEPT ![t] = "ending"]
    BY <1>5 DEF Read
  <2>2. e \in Events /\ e.kind = "error" /\ e.of = t
    BY DEF Events
  <2> HIDE DEF e
  <2>3. StreamsInv'
    BY <1>1, <1>5, <2>1, <2>2, ReadMark
  <2> QED BY <1>2, <2>3, ReadType DEF CallInv
<1>6. CASE reader[t] = "ending"
  <2> DEFINE e == [kind |-> "end", of |-> t]
  <2>1. Put(e) /\ UNCHANGED <<buffer, taken>> /\ reader' = [reader EXCEPT ![t] = "done"]
    BY <1>6 DEF Read
  <2>2. e \in Events /\ e.kind = "end" /\ e.of = t
    BY DEF Events
  <2> HIDE DEF e
  <2>3. StreamsInv'
    BY <1>1, <1>6, <2>1, <2>2, ReadMark
  <2> QED BY <1>2, <2>3, ReadType DEF CallInv
<1> QED BY <1>3, <1>4, <1>5, <1>6 DEF Read

-----------------------------------------------------------------------------
(* Steps of the caller *)

LEMMA TimeoutStep == CallInv /\ Timeout => CallInv'
<1> SUFFICES ASSUME CallInv, Timeout PROVE CallInv'
  OBVIOUS
<1>1. /\ UNCHANGED <<git, code, shut, helper, written, pipe, reading, events, main, open,
                     pending, kept, result>>
      /\ state' = "timeout" /\ main = "draining"
  BY DEF Timeout
<1>2. killed' \in BOOLEAN
  BY Zenon DEF Timeout, Kill
<1>3. CallTypeOK'
  BY <1>1, <1>2 DEF CallInv, CallTypeOK, reading
<1>4. \A s \in Streams : CountInv(s)' /\ (ReadOut(s)' <=> ReadOut(s))
  BY <1>1 DEF CallInv, StreamsInv, CountInv, ReadOut, Held, reading
<1>5. StreamsInv'
  BY <1>1, <1>4, SameStreams DEF reading
<1>6. CallerInv'
  BY <1>1 DEF CallInv, CallerInv
<1> QED BY <1>3, <1>5, <1>6 DEF CallInv

LEMMA ReapStep == CallInv /\ Reap => CallInv'
<1> SUFFICES ASSUME CallInv, Reap PROVE CallInv'
  OBVIOUS
<1>1. /\ UNCHANGED <<code, shut, helper, written, pipe, reading, events, open, state, pending,
                     kept>>
      /\ main = "reaping"
  BY DEF Reap
<1>2. Held' <=> Held
  BY <1>1 DEF Held, Reap
<1>3. \A s \in Streams : CountInv(s)' /\ (ReadOut(s)' <=> ReadOut(s))
  BY <1>1, <1>2 DEF CallInv, StreamsInv, CountInv, ReadOut, reading
<1>4. StreamsInv'
  BY <1>1, <1>3, SameStreams DEF reading
<1>5. Retained' = Retained
  BY <1>1 DEF Retained
<1>6. CASE git = "running" /\ Kill /\ UNCHANGED <<git, main, result>>
  <2>1. killed' \in BOOLEAN
    BY <1>6, Zenon DEF Kill
  <2>2. CallTypeOK'
    BY <1>1, <1>6, <2>1 DEF CallInv, CallTypeOK, reading
  <2>3. CallerInv'
    BY <1>1, <1>5, <1>6 DEF CallInv, CallerInv
  <2> QED BY <1>4, <2>2, <2>3 DEF CallInv
<1>7. CASE /\ git = "exited" /\ git' = "reaped"
           /\ main' = "returned" /\ result' = Acquisition /\ UNCHANGED killed
  <2>1. /\ Acquisition \in {"error", "bounded", "failed", "complete"}
        /\ Acquisition = "complete" => ~pending /\ state = "complete" /\ code = 0
    <3>1. state \in {"complete", "bounded", "timeout"}
      BY DEF CallInv, CallTypeOK
    <3> QED BY <3>1 DEF Acquisition
  <2>2. CallTypeOK'
    BY <1>1, <1>7, <2>1 DEF CallInv, CallTypeOK, reading
  <2>3. CallerInv'
    BY <1>1, <1>5, <1>7, <2>1 DEF CallInv, CallerInv
  <2> QED BY <1>4, <2>2, <2>3 DEF CallInv
<1> QED BY <1>6, <1>7 DEF Reap

\* What the caller keeps of the chunk at the head of the queue.
LEMMA StoreStep ==
  ASSUME CallInv, events # <<>>, events[1].kind = "chunk", state = "complete", Store(events[1])
  PROVE  /\ kept' \in [Streams -> Nat]
         /\ \A s \in Streams : kept'[s] <= taken[s]
         /\ state' \in {"complete", "bounded"}
         /\ state' = "complete" =>
               /\ Retained' <= Limit
               /\ \A s \in Streams :
                     kept'[s] = IF IsChunk(1, s) THEN kept[s] + events[1].size ELSE kept[s]
         /\ state' = "bounded" =>
               Retained' = Limit /\ written["stdout"] + written["stderr"] > Limit
<1>1. PICK t \in Streams, z \in Nat : events[1].of = t /\ events[1].size = z
  <2>1. 1 \in DOMAIN events /\ events \in Seq(Events)
    BY DEF CallInv, CallTypeOK
  <2> QED BY <2>1, QueueFields
<1>2. IsChunk(1, t) /\ \A s \in Streams : s # t => ~IsChunk(1, s)
  BY <1>1 DEF IsChunk
<1>3. kept[t] + z <= taken[t]
  <2>1. 1 \in DOMAIN events /\ CallTypeOK /\ LaneInv(t)
    BY DEF CallInv, StreamsInv, CallTypeOK
  <2>2. events[1].at = kept[t]
    BY <1>2, <2>1, HeadFollows
  <2>3. End(1) <= taken[t]
    BY <1>2, <2>1 DEF LaneInv
  <2> QED BY <1>1, <2>2, <2>3 DEF End
<1>4. PICK u \in Streams : u # t /\ Streams = {t, u}
  BY DEF Streams
<1>5. /\ kept[t] \in Nat /\ kept[u] \in Nat /\ taken[t] \in Nat /\ taken[u] \in Nat
      /\ written[t] \in Nat /\ written[u] \in Nat /\ Limit \in Nat
      /\ taken[t] <= written[t] /\ taken[u] <= written[u] /\ kept[u] <= taken[u]
  <2>1. ASSUME NEW s \in Streams
        PROVE  /\ kept[s] \in Nat /\ taken[s] \in Nat /\ written[s] \in Nat
               /\ kept[s] <= taken[s] /\ taken[s] <= written[s]
    <3>1. /\ kept[s] \in Nat /\ taken[s] \in Nat /\ written[s] \in Nat
          /\ pipe[s] \in Nat /\ buffer[s] \in Nat
      BY GitAssumption DEF CallInv, CallTypeOK
    <3>2. CountInv(s)
      BY DEF CallInv, StreamsInv
    <3> QED BY <3>1, <3>2 DEF CountInv
  <2>2. Limit \in Nat
    BY GitAssumption
  <2> QED BY <2>1, <2>2
<1>6. /\ Retained = kept[t] + kept[u]
      /\ written["stdout"] + written["stderr"] = written[t] + written[u]
      /\ kept' \in [Streams -> Nat] => Retained' = kept'[t] + kept'[u]
  <2>1. (t = "stdout" /\ u = "stderr") \/ (t = "stderr" /\ u = "stdout")
    BY <1>4 DEF Streams
  <2>2. kept' \in [Streams -> Nat] => kept'["stdout"] \in Nat /\ kept'["stderr"] \in Nat
    BY DEF Streams
  <2> QED BY <2>1, <2>2, <1>5 DEF Retained
<1>7. kept[t] + kept[u] <= Limit
  BY <1>6 DEF CallInv, CallerInv
<1>8. \A x \in Nat : kept' = [kept EXCEPT ![t] = @ + x] =>
         /\ kept' \in [Streams -> Nat]
         /\ kept'[t] = kept[t] + x /\ kept'[u] = kept[u]
  BY <1>4, <1>5 DEF CallInv, CallTypeOK
<1>9. CASE Retained + z > Limit
  <2>1. PICK x \in Nat : x = Limit - Retained /\ x <= z
    BY <1>1, <1>5, <1>6, <1>7, <1>9
  <2>2. kept' = [kept EXCEPT ![t] = @ + x] /\ state' = "bounded"
    BY <1>1, <1>9, <1>5, <1>6, <2>1 DEF Store, Keep
  <2>3. kept' \in [Streams -> Nat] /\ kept'[t] = kept[t] + x /\ kept'[u] = kept[u]
    BY <1>8, <2>2
  <2>4. kept'[t] <= taken[t] /\ kept'[u] <= taken[u]
    BY <1>3, <1>5, <2>1, <2>3
  <2>5. Retained' = Limit
    <3>1. \A a, b, c, l \in Nat : c = l - (a + b) => (a + c) + b = l
      OBVIOUS
    <3>2. x = Limit - (kept[t] + kept[u]) /\ Retained' = (kept[t] + x) + kept[u]
      BY <1>6, <2>1, <2>3
    <3> QED BY <3>1, <3>2, <1>5
  <2>6. written["stdout"] + written["stderr"] > Limit
    <3>1. \A a, b, c, l, v, w \in Nat :
             (a + b) + c > l /\ a + c <= v /\ b <= w => v + w > l
      OBVIOUS
    <3>2. (kept[t] + kept[u]) + z > Limit
      BY <1>6, <1>9
    <3>3. kept[t] + z <= written[t] /\ kept[u] <= written[u]
      BY <1>3, <1>5
    <3> QED BY <3>1, <3>2, <3>3, <1>5, <1>6
  <2> QED BY <1>4, <2>2, <2>3, <2>4, <2>5, <2>6
<1>10. CASE Retained + z <= Limit
  <2>1. kept' = [kept EXCEPT ![t] = @ + z] /\ state' = state
    BY <1>1, <1>10, <1>5, <1>6 DEF Store, Keep
  <2>2. kept' \in [Streams -> Nat] /\ kept'[t] = kept[t] + z /\ kept'[u] = kept[u]
    BY <1>8, <2>1
  <2>3. kept'[t] <= taken[t] /\ kept'[u] <= taken[u]
    BY <1>3, <1>5, <2>2
  <2>4. Retained' <= Limit
    BY <1>5, <1>6, <1>10, <2>2
  <2> QED BY <1>1, <1>2, <1>4, <2>1, <2>2, <2>3, <2>4
<1>11. Retained + z > Limit \/ Retained + z <= Limit
  BY <1>1 DEF Store
<1> QED BY <1>9, <1>10, <1>11

\* What taking the head from the queue does, whatever it is.
LEMMA DrainFacts ==
  ASSUME CallInv, Collect
  PROVE  /\ UNCHANGED <<git, code, shut, helper, written, pipe, reading, result>>
         /\ main = "draining" /\ main' = IF open' = 0 THEN "reaping" ELSE "draining"
         /\ events # <<>> /\ events' = Tail(events)
         /\ killed' \in BOOLEAN /\ pending' \in BOOLEAN
         /\ pending => pending'
         /\ events[1].kind = "error" => pending'
         /\ open' = IF events[1].kind = "end" THEN open - 1 ELSE open
         /\ kept' \in [Streams -> Nat]
         /\ \A s \in Streams : kept'[s] <= taken[s]
         /\ state' \in {"complete", "bounded", "timeout"}
         /\ state' = "complete" =>
               /\ state = "complete" /\ Retained' <= Limit
               /\ \A s \in Streams :
                     kept'[s] = IF IsChunk(1, s) THEN kept[s] + events[1].size ELSE kept[s]
         /\ state' = "bounded" =>
               Retained' = Limit /\ written["stdout"] + written["stderr"] > Limit
<1> DEFINE event == events[1]
<1>1. /\ UNCHANGED <<git, code, shut, helper, written, pipe, reading, result>>
      /\ main = "draining" /\ main' = IF open' = 0 THEN "reaping" ELSE "draining"
      /\ events # <<>> /\ events' = Tail(events)
  BY DEF Collect, Drained
<1>2. events \in Seq(Events) /\ Head(events) = event
  BY <1>1 DEF CallInv, CallTypeOK
<1>3. \/ event.kind = "error" /\ Failed /\ UNCHANGED <<open, state, kept>>
      \/ event.kind = "end" /\ open' = open - 1 /\ UNCHANGED <<state, kept, killed, pending>>
      \/ event.kind = "chunk" /\ state = "complete" /\ Store(event) /\ UNCHANGED <<open, pending>>
      \/ event.kind = "chunk" /\ state # "complete"
         /\ UNCHANGED <<open, state, kept, killed, pending>>
  BY <1>2 DEF Collect
<1>4. /\ kept \in [Streams -> Nat] /\ state \in {"complete", "bounded", "timeout"}
      /\ \A s \in Streams : kept[s] <= taken[s]
      /\ state = "complete" => Retained <= Limit
      /\ state = "bounded" =>
            Retained = Limit /\ written["stdout"] + written["stderr"] > Limit
  BY DEF CallInv, CallTypeOK, StreamsInv, CountInv, CallerInv
<1>5. killed \in BOOLEAN /\ pending \in BOOLEAN
  BY DEF CallInv, CallTypeOK
<1>6. killed' \in BOOLEAN
  BY <1>3, <1>5, Zenon DEF Failed, Store, Kill
<1>7. pending' \in BOOLEAN /\ (pending => pending') /\ (event.kind = "error" => pending')
  <2>1. CASE event.kind = "error"
    <3>1. pending' = TRUE
      BY <1>3, <2>1 DEF Failed
    <3> QED BY <3>1, Zenon
  <2>2. CASE event.kind # "error"
    <3>1. pending' = pending
      BY <1>3, <2>2
    <3> QED BY <1>5, <2>2, <3>1, Zenon
  <2> QED BY <2>1, <2>2, Zenon
<1>8. CASE event.kind = "chunk" /\ state = "complete" /\ Store(event) /\ UNCHANGED <<open, pending>>
  BY <1>1, <1>6, <1>7, <1>8, StoreStep
<1>9. CASE UNCHANGED <<state, kept>> /\ (state = "complete" => event.kind # "chunk")
  <2>1. Retained' = Retained
    BY <1>9 DEF Retained
  <2>2. open' = IF event.kind = "end" THEN open - 1 ELSE open
    BY <1>3
  <2>3. state = "complete" => \A s \in Streams : ~IsChunk(1, s)
    BY <1>9 DEF IsChunk
  <2> QED BY <1>1, <1>4, <1>6, <1>7, <1>9, <2>1, <2>2, <2>3
<1> QED BY <1>3, <1>8, <1>9

LEMMA DrainStep == CallInv /\ Collect => CallInv'
<1> SUFFICES ASSUME CallInv, Collect PROVE CallInv'
  OBVIOUS
<1>1. /\ UNCHANGED <<git, code, shut, helper, written, pipe, reading, result>>
      /\ main = "draining" /\ main' = IF open' = 0 THEN "reaping" ELSE "draining"
      /\ events # <<>> /\ events' = Tail(events)
      /\ killed' \in BOOLEAN /\ pending' \in BOOLEAN
      /\ open' = IF events[1].kind = "end" THEN open - 1 ELSE open
      /\ kept' \in [Streams -> Nat]
      /\ state' \in {"complete", "bounded", "timeout"}
  BY DrainFacts
<1>2. events \in Seq(Events) /\ Len(events) <= QueueSize
  BY DEF CallInv, CallTypeOK
<1>3. events' \in Seq(Events) /\ Len(events') <= QueueSize
  BY <1>1, <1>2, TailQueue
<1>4. PICK t \in Streams : events[1].of = t
  <2>1. 1 \in DOMAIN events
    BY <1>1, <1>2
  <2> QED BY <1>2, <2>1, QueueFields
<1>5. UNCHANGED <<taken, reader>> /\ \A s \in Streams : ReadOut(s) <=> ReadOut(s)'
  BY <1>1 DEF reading, ReadOut, Held
<1>6. ASSUME NEW s \in Streams
      PROVE  /\ CountInv(s)' /\ LaneInv(s)' /\ EndInv(s)'
             /\ Open(s)' = IF events[1].kind = "end" /\ s = t THEN 0 ELSE Open(s)
             /\ events[1].kind = "end" /\ s = t => Open(s) = 1
  <2>1. CountInv(s) /\ LaneInv(s) /\ EndInv(s) /\ CallTypeOK
    BY DEF CallInv, StreamsInv
  <2>2. CountInv(s)'
    <3>1. kept'[s] <= taken[s]
      BY DrainFacts
    <3> QED BY <1>1, <2>1, <3>1 DEF CountInv, reading
  <2>3. LaneInv(s)'
    <3>1. state' = "complete" =>
             /\ state = "complete"
             /\ kept'[s] = IF IsChunk(1, s) THEN kept[s] + events[1].size ELSE kept[s]
      BY DrainFacts
    <3> QED BY <1>1, <1>5, <2>1, <3>1, LaneTail
  <2>4. /\ EndInv(s)'
        /\ Open(s)' = IF events[1].kind = "end" /\ events[1].of = s THEN 0 ELSE Open(s)
        /\ events[1].kind = "end" /\ events[1].of = s => Open(s) = 1
    <3>1. (pending => pending') /\ (events[1].kind = "error" => pending')
      BY DrainFacts
    <3> QED BY <1>1, <1>5, <2>1, <3>1, EndTail
  <2> QED BY <1>4, <2>2, <2>3, <2>4
<1>7. /\ open \in 0 .. 2 /\ open = Open("stdout") + Open("stderr")
      /\ Open("stdout") \in {0, 1} /\ Open("stderr") \in {0, 1}
      /\ t = "stdout" \/ t = "stderr"
  BY DEF CallInv, CallTypeOK, StreamsInv, Open, Streams
<1>8. (open = Open("stdout") + Open("stderr"))' /\ open' \in 0 .. 2
  <2>1. "stdout" \in Streams /\ "stderr" \in Streams
    BY DEF Streams
  <2> QED BY <2>1, <1>1, <1>6, <1>7
<1>9. CallTypeOK'
  BY <1>1, <1>3, <1>8 DEF CallInv, CallTypeOK, reading
<1>10. CallerInv'
  <2>1. /\ state' = "complete" => Retained' <= Limit
        /\ state' = "bounded" =>
              Retained' = Limit /\ written["stdout"] + written["stderr"] > Limit
    BY DrainFacts
  <2>2. result = "none" /\ git # "reaped"
    BY <1>1 DEF CallInv, CallerInv
  <2> QED BY <1>1, <2>1, <2>2 DEF CallerInv
<1> QED BY <1>6, <1>8, <1>9, <1>10 DEF CallInv, StreamsInv

LEMMA NextStep == CallInv /\ [CallNext]_callVars => CallInv'
<1> SUFFICES ASSUME CallInv, [CallNext]_callVars PROVE CallInv'
  OBVIOUS
<1>1. CASE (\E s \in Streams : GitWrite(s)) \/ Helper \/ GitShut \/ GitExit \/ Die
  BY <1>1, OutsideStep
<1>2. CASE \E s \in Streams : Pull(s) \/ ReadFails(s)
  BY <1>2, PullStep
<1>3. CASE \E s \in Streams : Read(s)
  BY <1>3, ReadStep
<1>4. CASE Timeout
  BY <1>4, TimeoutStep
<1>5. CASE Collect
  BY <1>5, DrainStep
<1>6. CASE Reap
  BY <1>6, ReapStep
<1>7. CASE UNCHANGED callVars
  <2>1. UNCHANGED <<process, written, pipe, reading, events, caller>>
    BY <1>7 DEF callVars
  <2>2. CallTypeOK'
    BY <2>1 DEF CallInv, CallTypeOK, process, reading, caller
  <2>3. \A s \in Streams : CountInv(s)' /\ (ReadOut(s) => ReadOut(s)')
    BY <2>1 DEF CallInv, StreamsInv, CountInv, ReadOut, Held, process, reading, caller
  <2>4. StreamsInv'
    BY <2>1, <2>3, SameStreams DEF reading, caller
  <2>5. CallerInv'
    BY <2>1, SameCaller DEF process, caller
  <2> QED BY <2>2, <2>4, <2>5 DEF CallInv
<1> QED BY <1>1, <1>2, <1>3, <1>4, <1>5, <1>6, <1>7 DEF CallNext, Caller

-----------------------------------------------------------------------------
(* The theorems *)

\* The invariant of a call: every chunk is accounted for, in order, from the
\* pipe through the reader and the queue to what is kept.
THEOREM CallInvariant == CallSpec => []CallInv
BY InitCall, NextStep, PTL DEF CallSpec

\* The variables stay in their sets; the queue stays within its size.
THEOREM CallTyped == CallSpec => []CallTypeOK
<1>1. CallInv => CallTypeOK
  BY DEF CallInv
<1> QED BY <1>1, CallInvariant, PTL

\* When no stream is open, the queue is empty and both readers are done.
LEMMA NothingQueued ==
  ASSUME CallInv, open = 0
  PROVE  /\ events = <<>>
         /\ \A s \in Streams : reader[s] = "done" /\ (pending \/ ReadOut(s))
         /\ state = "complete" => \A s \in Streams : kept[s] = taken[s]
<1>1. \A s \in Streams : Open(s) = 0
  BY DEF CallInv, StreamsInv, Streams, Open
<1>2. \A s \in Streams : reader[s] = "done" /\ ~Has("end", s) /\ EndInv(s) /\ LaneInv(s)
  BY <1>1 DEF Open, CallInv, StreamsInv
<1>3. \A s \in Streams : \A i \in DOMAIN events : events[i].of # s
  BY <1>2 DEF EndInv
<1>4. events = <<>> /\ DOMAIN events = {}
  <2>1. events \in Seq(Events)
    BY DEF CallInv, CallTypeOK
  <2>2. DOMAIN events = {}
    BY <1>3, <2>1, QueueFields
  <2>3. Len(events) = 0
    BY <2>1, <2>2
  <2> QED BY <2>1, <2>2, <2>3
<1>5. \A s \in Streams : pending \/ ReadOut(s)
  <2>1. \A s \in Streams : ~Has("error", s)
    BY <1>4 DEF Has
  <2> QED BY <1>2, <2>1 DEF EndInv
<1> QED BY <1>2, <1>4, <1>5 DEF LaneInv

\* "Complete" is said only of complete output, whatever the limit, the chunks
\* and the room in the queue and the pipes are.
THEOREM CompleteOutputIsWhole == CallSpec => []CompleteIsWhole
<1>1. CallInv => CompleteIsWhole
  <2> SUFFICES ASSUME CallInv, result = "complete" PROVE code = 0 /\ kept = written
    BY DEF CompleteIsWhole
  <2>1. main # "draining" /\ ~pending /\ state = "complete" /\ code = 0
    BY DEF CallInv, CallerInv
  <2>2. open = 0
    BY <2>1 DEF CallInv, CallerInv
  <2>3. \A s \in Streams : ReadOut(s) /\ kept[s] = taken[s]
    BY <2>1, <2>2, NothingQueued
  <2>4. /\ kept \in [Streams -> Nat] /\ written \in [Streams -> Nat]
        /\ \A s \in Streams : CountInv(s) /\ taken[s] \in Nat
    BY DEF CallInv, StreamsInv, CallTypeOK
  <2>5. \A s \in Streams : kept[s] = written[s]
    BY <2>3, <2>4 DEF CountInv, ReadOut
  <2> QED BY <2>1, <2>4, <2>5
<1> QED BY <1>1, CallInvariant, PTL

\* "Bounded" is said only of output over the limit, and exactly the limit is kept.
THEOREM BoundedOutputIsTooLong == CallSpec => []BoundedIsTooLong
<1>1. CallInv => BoundedIsTooLong
  BY DEF CallInv, CallerInv, BoundedIsTooLong
<1> QED BY <1>1, CallInvariant, PTL

\* A call that returned has reaped git and leaves no reader and no event behind.
THEOREM ReturnLeavesNothing == CallSpec => []NothingLeft
<1>1. CallInv => NothingLeft
  <2> SUFFICES ASSUME CallInv, result # "none"
               PROVE  git = "reaped" /\ events = <<>> /\ \A s \in Streams : reader[s] = "done"
    BY DEF NothingLeft
  <2>1. git = "reaped" /\ open = 0
    BY DEF CallInv, CallerInv
  <2> QED BY <2>1, NothingQueued
<1> QED BY <1>1, CallInvariant, PTL

\* What is kept of a stream grows only by the chunk that follows it.
THEOREM OutputKeptInOrder == CallSpec => KeptInOrder
<1> DEFINE Follows ==
       \A s \in Streams : kept'[s] # kept[s] => events # <<>> /\ Head(events).at = kept[s]
<1>1. CallInv /\ [CallNext]_callVars => [Follows]_kept
  <2> SUFFICES ASSUME CallInv, CallNext, NEW s \in Streams, kept'[s] # kept[s]
               PROVE  events # <<>> /\ Head(events).at = kept[s]
    BY DEF callVars, caller
  <2>1. Collect
    BY DEF CallNext, Caller, GitWrite, Helper, GitShut, GitExit, Die, Pull, Read, ReadFails,
           Timeout, Reap, caller
  <2>2. /\ events # <<>> /\ events \in Seq(Events)
        /\ Head(events) = events[1] /\ CallTypeOK /\ LaneInv(s) /\ kept \in [Streams -> Nat]
    BY <2>1 DEF Collect, CallInv, StreamsInv, CallTypeOK
  <2>3. events[1].kind = "chunk" /\ state = "complete" /\ Store(events[1])
    BY <2>1, <2>2 DEF Collect
  <2>4. IsChunk(1, s)
    BY <2>2, <2>3 DEF Store, Keep, IsChunk
  <2> QED BY <2>2, <2>3, <2>4, HeadFollows
<1>2. CallSpec => [][Follows]_kept
  BY <1>1, CallInvariant, PTL DEF CallSpec
<1> QED BY <1>2 DEF KeptInOrder
=============================================================================
