--------------------------- MODULE AerialDispatch ---------------------------
(***************************************************************************)
(* A mission's imagery sent to the ODM worker and the worker's reports of  *)
(* it: the process route, workers/odm_worker/main.py and callbacks.py, and *)
(* the processing-callback route down to its write of the job's status     *)
(* (what follows a success there is AerialCustody).                        *)
(*                                                                         *)
(* Every request has a requestId of its own, so the worker never meets one *)
(* it knows.  Its progress reports are all alike: one stands for them, and *)
(* "failed" stands for canceled too.                                       *)
(***************************************************************************)
EXTENDS Naturals, Sequences, FiniteSets

CONSTANTS
    Requests,     \* POSTs of the process route
    Mission,      \* [Requests -> missions]
    MaxQueued,    \* ODM_WORKER_MAX_QUEUED
    Attempts,     \* post_callback's attempts
    None,
    MaxFaults     \* bound on failed calls, killed handlers, timeouts of a report, restarts

Reports == {"running", "succeeded", "failed"}
Terminal == {"succeeded", "failed", "dispatch_failed"}
Active == {"requested", "accepted", "running"}
Callbacks == Requests \X Reports
Deliveries == Callbacks \X (1..Attempts)

ASSUME AerialAssumption ==
    /\ Requests # {} /\ None \notin Requests
    /\ MaxQueued \in Nat \ {0} /\ Attempts \in Nat \ {0} /\ MaxFaults \in Nat

VARIABLES
    job,          \* aerial_processing_jobs.status of each request
    ledger,       \* aerial_processing_callbacks: the callbacks recorded
    route,        \* the next step of each run of the process route
    fate,         \* what became of each request at the worker
    queue,        \* JOB_QUEUE
    work,         \* the pipeline thread: its job, what it reports, how often it tried
    handler,      \* the next step of each run of the callback route
    seen,         \* the status each of those read
    applied,      \* history: how often each callback was written to the job
    faults

vars == <<job, ledger, route, fate, queue, work, handler, seen, applied, faults>>
appVars == <<job, ledger, handler, seen, applied>>

AtRest == [req |-> None, report |-> None, tries |-> 0]

Init ==
    /\ job = [r \in Requests |-> "absent"]
    /\ ledger = {}
    /\ route = [r \in Requests |-> "idle"]
    /\ fate = [r \in Requests |-> "unknown"]
    /\ queue = <<>>
    /\ work = AtRest
    /\ handler = [d \in Deliveries |-> "none"]
    /\ seen = [d \in Deliveries |-> "absent"]
    /\ applied = [c \in Callbacks |-> 0]
    /\ faults = 0

Works == UNCHANGED faults
Fails == faults < MaxFaults /\ faults' = faults + 1
Continue(r, step) == route' = [route EXCEPT ![r] = step]
Goto(d, step) == handler' = [handler EXCEPT ![d] = step]
SetJob(r, status) == job' = [job EXCEPT ![r] = status]

-----------------------------------------------------------------------------
(***************************************************************************)
(* The process route.                                                      *)
(***************************************************************************)
MissionBusy(m) == \E r \in Requests : Mission[r] = m /\ job[r] \in Active

ReadActive(r) ==
    /\ route[r] = "idle" /\ ~MissionBusy(Mission[r])
    /\ Continue(r, "insert")
    /\ UNCHANGED <<appVars, fate, queue, work, faults>>

\* The row is there before the worker hears of the request.
InsertJob(r) ==
    /\ route[r] = "insert"
    /\ \/ Works /\ SetJob(r, "requested") /\ Continue(r, "post")
       \/ Fails /\ (SetJob(r, "requested") \/ UNCHANGED job) /\ Continue(r, "done")
    /\ UNCHANGED <<ledger, handler, seen, applied, fate, queue, work>>

PostRequest(r) ==
    /\ route[r] = "post"
    /\ \/ Works /\ fate' = [fate EXCEPT ![r] = "received"] /\ Continue(r, "wait")
       \/ Fails /\ UNCHANGED fate /\ Continue(r, "refused")
    /\ UNCHANGED <<appVars, queue, work>>

Taken(r) == fate[r] \in {"queued", "working", "ended", "lost"}

\* The answer, or WORKER_DISPATCH_TIMEOUT_MS without one.
\* Variant: a timeout is answered to the planner and left at that.
HearOrLeave(r) ==
    /\ route[r] = "wait"
    /\ \/ Taken(r) /\ Continue(r, "accepted")
       \/ fate[r] = "full" /\ Continue(r, "refused")
       \/ Continue(r, "done")
    /\ UNCHANGED <<appVars, fate, queue, work, faults>>

HearWorker(r) ==
    /\ route[r] = "wait"
    /\ \/ Taken(r) /\ Continue(r, "accepted")
       \/ Continue(r, "refused")
    /\ UNCHANGED <<appVars, fate, queue, work, faults>>

\* Variant: a word that is not in the status vocabulary.
WriteAnswerAsIs(r) ==
    /\ route[r] \in {"accepted", "refused"} /\ Works
    /\ SetJob(r, route[r]) /\ Continue(r, "done")
    /\ UNCHANGED <<ledger, handler, seen, applied, fate, queue, work>>

\* Both writes are updates by id, whatever the status is by now.
WriteAnswer(r) ==
    /\ route[r] \in {"accepted", "refused"}
    /\ LET write == SetJob(r, IF route[r] = "accepted" THEN "accepted" ELSE "dispatch_failed")
       IN (Works /\ write) \/ (Fails /\ (write \/ UNCHANGED job))
    /\ Continue(r, "done")
    /\ UNCHANGED <<ledger, handler, seen, applied, fate, queue, work>>

KillRoute(r) ==
    /\ route[r] \notin {"idle", "done"} /\ Fails
    /\ Continue(r, "done")
    /\ UNCHANGED <<appVars, fate, queue, work>>

-----------------------------------------------------------------------------
(***************************************************************************)
(* The worker: do_POST in threads of its own, one pipeline thread.         *)
(***************************************************************************)
\* The queue is measured and filled in two steps.
CheckQueue(r) ==
    /\ fate[r] = "received"
    /\ fate' = [fate EXCEPT ![r] = IF Len(queue) < MaxQueued THEN "registered" ELSE "full"]
    /\ UNCHANGED <<appVars, route, queue, work, faults>>

Enqueue(r) ==
    /\ fate[r] = "registered"
    /\ queue' = Append(queue, r)
    /\ fate' = [fate EXCEPT ![r] = "queued"]
    /\ UNCHANGED <<appVars, route, work, faults>>

TakeJob ==
    /\ work = AtRest /\ queue # <<>>
    /\ work' = [req |-> Head(queue), report |-> "running", tries |-> 0]
    /\ fate' = [fate EXCEPT ![Head(queue)] = "working"]
    /\ queue' = Tail(queue)
    /\ UNCHANGED <<appVars, route, faults>>

\* NodeODM is done with the job, or something went wrong.
Finish ==
    /\ work.req # None /\ work.report = None
    /\ \E report \in {"succeeded", "failed"} :
           work' = [work EXCEPT !.report = report, !.tries = 0]
    /\ UNCHANGED <<appVars, route, fate, queue, faults>>

Reporting == work.req # None /\ work.report # None
Delivery(n) == <<<<work.req, work.report>>, n>>

\* Reported, or given up: the job goes on either way.
Advance ==
    IF work.report = "running"
    THEN work' = [work EXCEPT !.report = None] /\ UNCHANGED fate
    ELSE work' = AtRest /\ fate' = [fate EXCEPT ![work.req] = "ended"]

Last == handler[Delivery(work.tries)]

\* An attempt is over when it was refused, or after its timeout, with its
\* handler still at work.
AttemptOver ==
    \/ work.tries = 0 /\ Works
    \/ work.tries > 0 /\ Last = "refused" /\ Works
    \/ work.tries > 0 /\ Last \notin {"ok", "refused"} /\ Fails

\* post_callback: the same payload again.
Send ==
    /\ Reporting /\ work.tries < Attempts /\ AttemptOver
    /\ work' = [work EXCEPT !.tries = @ + 1]
    /\ Goto(Delivery(work.tries + 1), "lookup")
    /\ UNCHANGED <<job, ledger, route, fate, queue, seen, applied>>

Delivered ==
    /\ Reporting /\ work.tries > 0 /\ Last = "ok" /\ Advance
    /\ UNCHANGED <<appVars, route, queue, faults>>

\* Every attempt has failed; or the route cannot be reached, and one fault
\* stands for all the attempts that are left.
NoAttemptLeft == IF work.tries = Attempts THEN AttemptOver ELSE Fails

\* Variant: an undelivered report raises, and the thread ends.
GiveUpRaises ==
    /\ Reporting /\ NoAttemptLeft
    /\ work' = [work EXCEPT !.req = None] /\ UNCHANGED fate
    /\ UNCHANGED <<appVars, route, queue>>

GiveUp ==
    /\ Reporting /\ NoAttemptLeft /\ Advance
    /\ UNCHANGED <<appVars, route, queue>>

\* Registry, queue and pipeline live in memory.
RestartWorker ==
    /\ Fails
    /\ queue' = <<>> /\ work' = AtRest
    /\ fate' = [r \in Requests |->
                   CASE fate[r] \in {"queued", "working"} -> "lost"
                     [] fate[r] \in {"received", "registered"} -> "unknown"
                     [] OTHER -> fate[r]]
    /\ UNCHANGED <<appVars, route>>

-----------------------------------------------------------------------------
(***************************************************************************)
(* The callback route.  d[1] is the callback, d[2] the attempt that sent   *)
(* it: every attempt carries the same callbackId.  A handler that is       *)
(* killed is, to the worker, one whose last call failed, and one that was  *)
(* never reached is one whose first call failed.                           *)
(***************************************************************************)
JobOf(d) == d[1][1]
StatusOf(d) == d[1][2]
Reply(d, answer) == Goto(d, answer) /\ seen' = [seen EXCEPT ![d] = "absent"]

Lookup(d) ==
    /\ handler[d] = "lookup"
    /\ \/ Works /\ seen' = [seen EXCEPT ![d] = job[JobOf(d)]] /\ Goto(d, "record")
       \/ Fails /\ Reply(d, "refused")
    /\ UNCHANGED <<job, ledger, applied, route, fate, queue, work>>

\* Variant: what the job said before is not looked at.
AfterRecordAlways(d) == Goto(d, "update") /\ UNCHANGED seen

\* Terminal status is never downgraded, as far as the earlier read can tell.
AfterRecord(d) ==
    IF seen[d] \in Terminal /\ StatusOf(d) # seen[d]
    THEN Reply(d, "ok") ELSE Goto(d, "update") /\ UNCHANGED seen

\* Variant: a redelivered callbackId is not noticed.
RecordAgain(d) ==
    /\ handler[d] = "record"
    /\ \/ Works /\ ledger' = ledger \cup {d[1]} /\ AfterRecord(d)
       \/ Fails /\ (ledger' = ledger \cup {d[1]} \/ UNCHANGED ledger) /\ Reply(d, "refused")
    /\ UNCHANGED <<job, applied, route, fate, queue, work>>

\* Variant: a report that cannot be recorded is applied all the same.
RecordIfPossible(d) ==
    /\ handler[d] = "record"
    /\ \/ Works /\ d[1] \notin ledger /\ ledger' = ledger \cup {d[1]} /\ AfterRecord(d)
       \/ Works /\ d[1] \in ledger /\ UNCHANGED ledger /\ Reply(d, "ok")
       \/ Fails /\ UNCHANGED ledger /\ AfterRecord(d)
    /\ UNCHANGED <<job, applied, route, fate, queue, work>>

\* callback_id is UNIQUE: a redelivery is answered without being applied.
Record(d) ==
    /\ handler[d] = "record"
    /\ \/ Works /\ d[1] \notin ledger /\ ledger' = ledger \cup {d[1]} /\ AfterRecord(d)
       \/ Works /\ d[1] \in ledger /\ UNCHANGED ledger /\ Reply(d, "ok")
       \/ Fails /\ (ledger' = ledger \cup {d[1]} \/ UNCHANGED ledger) /\ Reply(d, "refused")
    /\ UNCHANGED <<job, applied, route, fate, queue, work>>

WriteStatus(d) ==
    /\ SetJob(JobOf(d), StatusOf(d))
    /\ applied' = [applied EXCEPT ![d[1]] = @ + 1]

\* An update by id.  What a success still needs is done before the worker is
\* answered, and may fail with the status written.
Update(d) ==
    /\ handler[d] = "update"
    /\ \/ Works /\ WriteStatus(d) /\ Reply(d, "ok")
       \/ Fails /\ (WriteStatus(d) \/ UNCHANGED <<job, applied>>) /\ Reply(d, "refused")
    /\ UNCHANGED <<ledger, route, fate, queue, work>>

-----------------------------------------------------------------------------
RouteStep(r) == InsertJob(r) \/ PostRequest(r) \/ HearWorker(r) \/ WriteAnswer(r)
PipelineStep == TakeJob \/ Finish \/ Send \/ Delivered \/ GiveUp
HandlerStep(d) == Lookup(d) \/ Record(d) \/ Update(d)

Next == \/ \E r \in Requests : \/ ReadActive(r) \/ RouteStep(r) \/ KillRoute(r)
                               \/ CheckQueue(r) \/ Enqueue(r)
        \/ PipelineStep \/ RestartWorker
        \/ \E d \in Deliveries : HandlerStep(d)

Spec == Init /\ [][Next]_vars

\* A request that was begun goes on unless it is killed, and so does the
\* worker's only pipeline thread.  Each run of a route has finitely many steps.
Fairness == /\ WF_vars(\E r \in Requests : RouteStep(r))
            /\ WF_vars(\E d \in Deliveries : HandlerStep(d))
            /\ WF_vars(PipelineStep)
FairSpec == Spec /\ Fairness

-----------------------------------------------------------------------------
(***************************************************************************)
(* Properties.                                                             *)
(***************************************************************************)

\* Every variable has its type.
TypeOK ==
    /\ job \in [Requests -> Active \cup Terminal \cup {"absent"}]
    /\ ledger \subseteq Callbacks
    /\ route \in [Requests -> {"idle", "insert", "post", "wait", "accepted", "refused",
                               "done"}]
    /\ fate \in [Requests -> {"unknown", "received", "registered", "full", "queued",
                              "working", "ended", "lost"}]
    /\ queue \in Seq(Requests)
    /\ work \in [req : Requests \cup {None}, report : Reports \cup {None}, tries : 0..Attempts]
    /\ handler \in [Deliveries -> {"none", "lookup", "record", "update", "ok", "refused"}]
    /\ seen \in [Deliveries -> Active \cup Terminal \cup {"absent"}]
    /\ applied \in [Callbacks -> Nat]
    /\ faults \in 0..MaxFaults

\* The mission page shows nothing that did not happen: a job is accepted only
\* when the worker took it, and what a report says of it is in the ledger, from
\* which a success takes its artifacts again later.
StatusHasItsCause ==
    \A r \in Requests : /\ job[r] = "accepted" => Taken(r)
                        /\ job[r] \in Reports => <<r, job[r]>> \in ledger

\* A report is written to the job at most once, however often the worker sent
\* it and however many of its handlers run at the same time.
ReportAppliesOnce == \A c \in Callbacks : applied[c] <= 1

\* A report that begins to be handled after the job's end was written changes
\* the job no more.
LateReportIsIgnored ==
    [][\A r \in Requests : \A d \in Deliveries :
           JobOf(d) = r /\ seen[d] \in Terminal /\ handler'[d] # handler[d]
               => job'[r] = job[r] \/ StatusOf(d) = seen[d]]_vars

\* One pipeline thread serves everybody: a job in the queue is worked to its
\* end, however long the app takes to answer the reports of those before it,
\* unless the worker is restarted.
QueuedJobEnds == \A r \in Requests : fate[r] = "queued" ~> fate[r] \in {"ended", "lost"}

\* A job does not keep its mission busy as merely requested: the worker's
\* answer, its refusal or its silence is written, unless a call or the process
\* that made it failed.
RequestedIsAnswered == \A r \in Requests : job[r] = "requested" ~> job[r] # "requested" \/ faults > 0
=============================================================================
