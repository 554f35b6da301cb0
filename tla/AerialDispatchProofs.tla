------------------------ MODULE AerialDispatchProofs -------------------------
(***************************************************************************)
(* Type correctness of AerialDispatch, that what a job says has its cause, *)
(* that a report is applied once and that a late one is ignored: for every *)
(* set of requests, every assignment of them to missions, every length of  *)
(* the worker's queue, every number of attempts and every number of        *)
(* faults.                                                                 *)
(***************************************************************************)
EXTENDS AerialDispatch, TLAPS

USE AerialAssumption

-----------------------------------------------------------------------------
(***************************************************************************)
(* The inductive invariant.                                                *)
(***************************************************************************)
\* The worker has not heard of a request that is not posted yet.
UnpostedIsUnknown == \A r \in Requests : route[r] \in {"idle", "insert", "post"} => fate[r] = "unknown"

\* What is queued or at work was taken by the worker.
WorkIsTaken ==
    /\ \A i \in 1..Len(queue) : Taken(queue[i])
    /\ work.req # None => Taken(work.req)

\* An answer on its way to the row, or written there, was given.
AnswerWasGiven == \A r \in Requests : route[r] = "accepted" \/ job[r] = "accepted" => Taken(r)

ReportIsRecorded == \A r \in Requests : job[r] \in Reports => <<r, job[r]>> \in ledger

\* The UNIQUE callbackId lets one handler of a callback through to the update,
\* and only once.
OneUpdater ==
    /\ \A d \in Deliveries : handler[d] = "update" => d[1] \in ledger /\ applied[d[1]] = 0
    /\ \A d, e \in Deliveries :
           handler[d] = "update" /\ handler[e] = "update" /\ d[1] = e[1] => d = e
    /\ \A c \in Callbacks \ ledger : applied[c] = 0

UpdaterMay ==
    \A d \in Deliveries : handler[d] = "update" => seen[d] \notin Terminal \/ StatusOf(d) = seen[d]

IInv == /\ TypeOK /\ UnpostedIsUnknown /\ WorkIsTaken /\ AnswerWasGiven
        /\ ReportIsRecorded /\ OneUpdater /\ ReportAppliesOnce /\ UpdaterMay

-----------------------------------------------------------------------------
(***************************************************************************)
(* Deliveries, and the three kinds of steps.                               *)
(***************************************************************************)
LEMMA DeliveryParts ==
  ASSUME NEW d \in Deliveries
  PROVE  /\ d[1] \in Callbacks /\ JobOf(d) \in Requests /\ StatusOf(d) \in Reports
         /\ d[1] = <<JobOf(d), StatusOf(d)>>
BY DEF Deliveries, Callbacks, JobOf, StatusOf

LEMMA DeliveryType ==
  ASSUME TypeOK, Reporting, NEW n \in 1..Attempts
  PROVE  Delivery(n) \in Deliveries
<1>1. work.req \in Requests /\ work.report \in Reports
  BY DEF TypeOK, Reporting
<1>2. QED
  BY <1>1 DEF Delivery, Deliveries, Callbacks

\* A run of the process route, and the worker's server threads it calls.
RequestStep(r) == ReadActive(r) \/ RouteStep(r) \/ KillRoute(r) \/ CheckQueue(r) \/ Enqueue(r)
WorkerStep == PipelineStep \/ RestartWorker

-----------------------------------------------------------------------------
(***************************************************************************)
(* The types.                                                              *)
(***************************************************************************)
JobStates == Active \cup Terminal \cup {"absent"}
RouteSteps == {"idle", "insert", "post", "wait", "accepted", "refused", "done"}
Fates == {"unknown", "received", "registered", "full", "queued", "working", "ended", "lost"}
HandlerSteps == {"none", "lookup", "record", "update", "ok", "refused"}

LEMMA FaultsType == TypeOK /\ (Works \/ Fails) => faults' \in 0..MaxFaults
BY DEF TypeOK, Works, Fails

LEMMA SetJobType ==
  ASSUME TypeOK, NEW r \in Requests, NEW status \in JobStates, SetJob(r, status)
  PROVE  job' \in [Requests -> JobStates]
BY DEF TypeOK, SetJob, JobStates

LEMMA ContinueType ==
  ASSUME TypeOK, NEW r \in Requests, NEW step \in RouteSteps, Continue(r, step)
  PROVE  route' \in [Requests -> RouteSteps]
BY DEF TypeOK, Continue, RouteSteps

LEMMA RequestType == ASSUME TypeOK, NEW r \in Requests, RequestStep(r) PROVE TypeOK'
<1>1. faults' \in 0..MaxFaults
  BY FaultsType DEF RequestStep, RouteStep, ReadActive, InsertJob, PostRequest, HearWorker, WriteAnswer,
     KillRoute, CheckQueue, Enqueue, Works, TypeOK
<1>2. route' \in [Requests -> RouteSteps]
  <2>1. /\ "insert" \in RouteSteps /\ "post" \in RouteSteps /\ "wait" \in RouteSteps
        /\ "accepted" \in RouteSteps /\ "refused" \in RouteSteps /\ "done" \in RouteSteps
    BY DEF RouteSteps
  <2>2. CASE UNCHANGED route
    BY <2>2 DEF TypeOK, RouteSteps
  <2>3. QED
    BY <2>1, <2>2, ContinueType DEF RequestStep, RouteStep, ReadActive, InsertJob, PostRequest,
       HearWorker, WriteAnswer, KillRoute, CheckQueue, Enqueue
<1>3. job' \in [Requests -> JobStates]
  <2>1. "requested" \in JobStates /\ "accepted" \in JobStates /\ "dispatch_failed" \in JobStates
    BY DEF JobStates, Active, Terminal
  <2>2. CASE UNCHANGED job
    BY <2>2 DEF TypeOK, JobStates
  <2>3. QED
    BY <2>1, <2>2, SetJobType DEF RequestStep, RouteStep, ReadActive, InsertJob, PostRequest,
       HearWorker, WriteAnswer, KillRoute, CheckQueue, Enqueue, appVars
<1>4. fate' \in [Requests -> Fates] /\ queue' \in Seq(Requests)
  <2>1. CASE UNCHANGED <<fate, queue>>
    BY <2>1 DEF TypeOK, Fates
  <2>2. CASE PostRequest(r) \/ CheckQueue(r)
    BY <2>2 DEF PostRequest, CheckQueue, TypeOK, Fates
  <2>3. CASE Enqueue(r)
    BY <2>3 DEF Enqueue, TypeOK, Fates
  <2>4. QED
    BY <2>1, <2>2, <2>3 DEF RequestStep, RouteStep, ReadActive, InsertJob, HearWorker, WriteAnswer,
       KillRoute
<1>5. UNCHANGED <<ledger, work, handler, seen, applied>>
  BY DEF RequestStep, RouteStep, ReadActive, InsertJob, PostRequest, HearWorker, WriteAnswer,
     KillRoute, CheckQueue, Enqueue, appVars
<1>6. QED
  BY <1>1, <1>2, <1>3, <1>4, <1>5 DEF TypeOK, JobStates, RouteSteps, Fates

LEMMA WorkerType == ASSUME TypeOK, WorkerStep PROVE TypeOK'
<1> USE DEF TypeOK, Works, Fails, appVars
<1> DEFINE Work == [req : Requests \cup {None}, report : Reports \cup {None}, tries : 0..Attempts]
<1>1. AtRest \in Work
  BY DEF AtRest, Work
<1>2. CASE TakeJob
  <2>1. Head(queue) \in Requests /\ Tail(queue) \in Seq(Requests)
    BY <1>2 DEF TakeJob
  <2>2. work' \in Work
    BY <1>2, <2>1 DEF TakeJob, Reports
  <2>3. QED
    BY <1>2, <2>1, <2>2 DEF TakeJob
<1>3. CASE Finish
  <2>1. PICK report \in {"succeeded", "failed"} :
            work' = [work EXCEPT !.report = report, !.tries = 0]
    BY <1>3 DEF Finish
  <2>2. report \in Reports /\ 0 \in 0..Attempts
    BY DEF Reports
  <2>3. work' \in Work
    <3>1. [work EXCEPT !.report = report] \in Work
      BY <2>2
    <3>2. work' = [[work EXCEPT !.report = report] EXCEPT !.tries = 0]
      BY <2>1
    <3>3. QED
      BY <2>2, <3>1, <3>2
  <2>4. QED
    BY <1>3, <2>3 DEF Finish
<1>4. CASE Send
  <2>1. work.tries + 1 \in 0..Attempts
    BY <1>4 DEF Send
  <2>2. work' \in Work
    BY <1>4, <2>1 DEF Send
  <2>3. handler' \in [Deliveries -> HandlerSteps]
    BY <1>4, DeliveryType DEF Send, Goto, HandlerSteps
  <2>4. QED
    BY <1>4, <2>2, <2>3 DEF Send, AttemptOver, HandlerSteps
<1>5. ASSUME Reporting, Advance
      PROVE  work' \in Work /\ fate' \in [Requests -> Fates]
  BY <1>1, <1>5 DEF Advance, Reporting, Fates
<1>6. CASE Delivered \/ GiveUp
  BY <1>5, <1>6 DEF Delivered, GiveUp, NoAttemptLeft, AttemptOver, Fates
<1>7. CASE RestartWorker
  BY <1>1, <1>7 DEF RestartWorker
<1>8. QED
  BY <1>2, <1>3, <1>4, <1>6, <1>7 DEF WorkerStep, PipelineStep

LEMMA HandlerType == ASSUME TypeOK, NEW d \in Deliveries, HandlerStep(d) PROVE TypeOK'
<1> DEFINE Seen == [Deliveries -> Active \cup Terminal \cup {"absent"}]
<1>1. faults' \in 0..MaxFaults
  BY FaultsType DEF HandlerStep, Lookup, Record, Update
<1>2. ASSUME NEW answer \in HandlerSteps, Goto(d, answer)
      PROVE  handler' \in [Deliveries -> HandlerSteps]
  BY <1>2 DEF Goto, TypeOK, HandlerSteps
<1>3. ASSUME NEW answer \in HandlerSteps, Reply(d, answer)
      PROVE  handler' \in [Deliveries -> HandlerSteps] /\ seen' \in Seen
  BY <1>2, <1>3 DEF Reply, TypeOK
<1>4. /\ "record" \in HandlerSteps /\ "update" \in HandlerSteps
      /\ "ok" \in HandlerSteps /\ "refused" \in HandlerSteps
  BY DEF HandlerSteps
<1>5. CASE Lookup(d)
  <2>1. job[JobOf(d)] \in Active \cup Terminal \cup {"absent"}
    BY DeliveryParts DEF TypeOK
  <2>2. handler' \in [Deliveries -> HandlerSteps] /\ seen' \in Seen
    BY <1>2, <1>3, <1>4, <1>5, <2>1 DEF Lookup, TypeOK
  <2>3. QED
    BY <1>1, <1>5, <2>2 DEF Lookup, TypeOK, HandlerSteps
<1>6. CASE Record(d)
  <2>1. handler' \in [Deliveries -> HandlerSteps] /\ seen' \in Seen
    BY <1>2, <1>3, <1>4, <1>6 DEF Record, AfterRecord, TypeOK
  <2>2. ledger' \subseteq Callbacks
    BY <1>6, DeliveryParts DEF Record, TypeOK
  <2>3. QED
    BY <1>1, <1>6, <2>1, <2>2 DEF Record, TypeOK, HandlerSteps
<1>7. CASE Update(d)
  <2>1. handler' \in [Deliveries -> HandlerSteps] /\ seen' \in Seen
    BY <1>3, <1>4, <1>7 DEF Update
  <2>2. StatusOf(d) \in JobStates
    BY DeliveryParts DEF JobStates, Active, Terminal, Reports
  <2>3. ASSUME WriteStatus(d)
        PROVE  job' \in [Requests -> JobStates] /\ applied' \in [Callbacks -> Nat]
    BY <2>2, <2>3, SetJobType, DeliveryParts DEF WriteStatus, TypeOK
  <2>4. job' \in [Requests -> JobStates] /\ applied' \in [Callbacks -> Nat]
    BY <1>7, <2>3 DEF Update, TypeOK, JobStates
  <2>5. QED
    BY <1>1, <1>7, <2>1, <2>4 DEF Update, TypeOK, HandlerSteps, JobStates
<1>8. QED
  BY <1>5, <1>6, <1>7 DEF HandlerStep

-----------------------------------------------------------------------------
(***************************************************************************)
(* The request at the worker.                                              *)
(***************************************************************************)
\* A request the worker took is never one it does not know again.
LEMMA TakenIsStable ==
  ASSUME IInv, Next, NEW r \in Requests, Taken(r)
  PROVE  Taken(r)'
<1> USE DEF IInv, TypeOK, Taken, appVars
<1>1. ASSUME NEW q \in Requests, RequestStep(q) PROVE Taken(r)'
  <2>1. CASE PostRequest(q)
    BY <2>1 DEF PostRequest, UnpostedIsUnknown
  <2>2. CASE CheckQueue(q) \/ Enqueue(q)
    BY <2>2 DEF CheckQueue, Enqueue
  <2>3. CASE ReadActive(q) \/ KillRoute(q) \/ InsertJob(q) \/ HearWorker(q) \/ WriteAnswer(q)
    BY <2>3 DEF ReadActive, KillRoute, InsertJob, HearWorker, WriteAnswer
  <2>4. QED
    BY <1>1, <2>1, <2>2, <2>3 DEF RequestStep, RouteStep
<1>2. ASSUME WorkerStep PROVE Taken(r)'
  <2>1. CASE TakeJob \/ Finish \/ Send
    BY <2>1 DEF TakeJob, Finish, Send
  <2>2. CASE Delivered \/ GiveUp
    BY <2>2 DEF Delivered, GiveUp, Advance
  <2>3. CASE RestartWorker
    BY <2>3 DEF RestartWorker
  <2>4. QED
    BY <1>2, <2>1, <2>2, <2>3 DEF WorkerStep, PipelineStep
<1>3. ASSUME NEW d \in Deliveries, HandlerStep(d) PROVE Taken(r)'
  BY <1>3 DEF HandlerStep, Lookup, Record, Update
<1>4. QED
  BY <1>1, <1>2, <1>3 DEF Next, RequestStep, WorkerStep

LEMMA WorkIsTakenStep == ASSUME IInv, Next PROVE WorkIsTaken'
<1> USE DEF IInv, TypeOK, WorkIsTaken, appVars
<1>1. ASSUME NEW r \in Requests, Enqueue(r) PROVE WorkIsTaken'
  <2>1. Taken(r)'
    BY <1>1 DEF Enqueue, Taken
  <2>2. /\ Len(queue') = Len(queue) + 1 /\ queue'[Len(queue) + 1] = r
        /\ \A i \in 1..Len(queue) : queue'[i] = queue[i] /\ queue[i] \in Requests
    BY <1>1 DEF Enqueue
  <2>3. \A i \in 1..Len(queue') : Taken(queue[i])'
    BY <2>1, <2>2, TakenIsStable DEF Taken
  <2>4. work' = work /\ (work.req # None => work.req \in Requests)
    BY <1>1 DEF Enqueue
  <2>5. QED
    BY <2>3, <2>4, TakenIsStable
<1>2. ASSUME UNCHANGED <<queue, work>> PROVE WorkIsTaken'
  BY <1>2, TakenIsStable
<1>3. CASE TakeJob
  <2>1. /\ Len(queue') = Len(queue) - 1 /\ Len(queue) \in Nat \ {0} /\ work'.req = queue[1]
        /\ \A i \in 1..Len(queue') : queue'[i] = queue[i + 1]
        /\ \A i \in 1..Len(queue) : queue[i] \in Requests
    BY <1>3 DEF TakeJob
  <2>2. QED
    BY <2>1, TakenIsStable
<1>4. CASE Finish \/ Send \/ Delivered \/ GiveUp \/ RestartWorker
  <2>1. /\ queue' = queue \/ queue' = <<>>
        /\ work'.req = work.req \/ work'.req = None
    <3>1. CASE Finish \/ Send
      BY <3>1 DEF Finish, Send
    <3>2. CASE Delivered \/ GiveUp
      BY <3>2 DEF Delivered, GiveUp, Advance, AtRest
    <3>3. CASE RestartWorker
      BY <3>3 DEF RestartWorker, AtRest
    <3>4. QED
      BY <1>4, <3>1, <3>2, <3>3
  <2>2. \A i \in 1..Len(queue') : Taken(queue[i])'
    BY <2>1, TakenIsStable
  <2>3. QED
    BY <2>1, <2>2, TakenIsStable
<1>5. QED
  BY <1>1, <1>2, <1>3, <1>4 DEF Next, RouteStep, PipelineStep, HandlerStep, ReadActive, InsertJob,
     PostRequest, HearWorker, WriteAnswer, KillRoute, CheckQueue, Lookup, Record, Update

LEMMA UnpostedStep == ASSUME IInv, Next PROVE UnpostedIsUnknown'
<1> USE DEF IInv, TypeOK, UnpostedIsUnknown, appVars
<1>1. ASSUME NEW r \in Requests, RequestStep(r) PROVE UnpostedIsUnknown'
  BY <1>1 DEF RequestStep, RouteStep, ReadActive, InsertJob, PostRequest, HearWorker, WriteAnswer,
     KillRoute, CheckQueue, Enqueue, Continue
<1>2. ASSUME TakeJob PROVE UnpostedIsUnknown'
  <2>1. Head(queue) \in Requests /\ Taken(Head(queue))
    BY <1>2 DEF TakeJob, WorkIsTaken
  <2>2. QED
    BY <1>2, <2>1 DEF TakeJob, Taken
<1>3. ASSUME Delivered \/ GiveUp PROVE UnpostedIsUnknown'
  <2>1. work.req \in Requests /\ Taken(work.req)
    BY <1>3 DEF Delivered, GiveUp, Reporting, WorkIsTaken
  <2>2. QED
    BY <1>3, <2>1 DEF Delivered, GiveUp, Advance, Taken
<1>4. ASSUME Finish \/ Send PROVE UnpostedIsUnknown'
  BY <1>4 DEF Finish, Send
<1>5. ASSUME RestartWorker PROVE UnpostedIsUnknown'
  BY <1>5 DEF RestartWorker
<1>6. ASSUME NEW d \in Deliveries, HandlerStep(d) PROVE UnpostedIsUnknown'
  BY <1>6 DEF HandlerStep, Lookup, Record, Update
<1>7. QED
  BY <1>1, <1>2, <1>3, <1>4, <1>5, <1>6 DEF Next, RequestStep, PipelineStep

LEMMA AnswerStep == ASSUME IInv, Next PROVE AnswerWasGiven'
<1> USE DEF IInv, TypeOK, AnswerWasGiven, appVars
<1>1. ASSUME NEW r \in Requests, RequestStep(r) PROVE AnswerWasGiven'
  <2>1. CASE HearWorker(r)
    BY <2>1, TakenIsStable, <1>1 DEF HearWorker, Continue, Next, RequestStep
  <2>2. CASE WriteAnswer(r) \/ InsertJob(r)
    BY <2>2, TakenIsStable, <1>1 DEF WriteAnswer, InsertJob, Continue, SetJob, Next, RequestStep
  <2>3. CASE ReadActive(r) \/ PostRequest(r) \/ KillRoute(r) \/ CheckQueue(r) \/ Enqueue(r)
    BY <2>3, TakenIsStable DEF ReadActive, PostRequest, KillRoute, CheckQueue, Enqueue, Continue
  <2>4. QED
    BY <1>1, <2>1, <2>2, <2>3 DEF RequestStep, RouteStep
<1>2. ASSUME WorkerStep PROVE AnswerWasGiven'
  <2>1. UNCHANGED <<route, job>>
    BY <1>2 DEF WorkerStep, PipelineStep, TakeJob, Finish, Send, Delivered, GiveUp, RestartWorker
  <2>2. QED
    BY <2>1, TakenIsStable
<1>3. ASSUME NEW d \in Deliveries, HandlerStep(d) PROVE AnswerWasGiven'
  <2>1. route' = route /\ \A r \in Requests : job'[r] = job[r] \/ job'[r] \in Reports
    BY <1>3, DeliveryParts DEF HandlerStep, Lookup, Record, Update, WriteStatus, SetJob
  <2>2. QED
    BY <2>1, TakenIsStable DEF Reports
<1>4. QED
  BY <1>1, <1>2, <1>3 DEF Next, RequestStep, WorkerStep

-----------------------------------------------------------------------------
(***************************************************************************)
(* The reports at the app.                                                 *)
(***************************************************************************)
LEMMA RecordedStep == ASSUME IInv, Next PROVE ReportIsRecorded'
<1> USE DEF IInv, TypeOK, ReportIsRecorded, appVars, Reports
<1>1. ASSUME NEW r \in Requests, RequestStep(r) PROVE ReportIsRecorded'
  BY <1>1 DEF RequestStep, RouteStep, ReadActive, InsertJob, PostRequest, HearWorker, WriteAnswer,
     KillRoute, CheckQueue, Enqueue, SetJob
<1>2. ASSUME WorkerStep PROVE ReportIsRecorded'
  BY <1>2 DEF WorkerStep, PipelineStep, TakeJob, Finish, Send, Delivered, GiveUp, RestartWorker
<1>3. ASSUME NEW d \in Deliveries, HandlerStep(d) PROVE ReportIsRecorded'
  <2>1. CASE Lookup(d) \/ Record(d)
    BY <2>1 DEF Lookup, Record
  <2>2. CASE Update(d)
    <3>1. <<JobOf(d), StatusOf(d)>> \in ledger
      BY <2>2, DeliveryParts DEF Update, OneUpdater
    <3>2. QED
      BY <2>2, <3>1, DeliveryParts DEF Update, WriteStatus, SetJob
  <2>3. QED
    BY <1>3, <2>1, <2>2 DEF HandlerStep
<1>4. QED
  BY <1>1, <1>2, <1>3 DEF Next, RequestStep, WorkerStep

\* A delivery that begins to be handled again is at its first step; the other
\* handlers are where they were.
LEMMA SendOnlyBegins ==
  ASSUME IInv, Send
  PROVE  \A d \in Deliveries : handler'[d] = handler[d] \/ handler'[d] = "lookup"
<1>1. work.tries + 1 \in 1..Attempts
  BY DEF Send, IInv, TypeOK
<1>2. Delivery(work.tries + 1) \in Deliveries
  BY <1>1, DeliveryType DEF Send, IInv
<1>3. QED
  BY <1>2 DEF Send, Goto, IInv, TypeOK

LEMMA UpdaterStep ==
  ASSUME IInv, Next
  PROVE  OneUpdater' /\ ReportAppliesOnce' /\ UpdaterMay'
<1> USE DEF IInv, TypeOK, OneUpdater, ReportAppliesOnce, UpdaterMay, appVars, Goto, Reply
<1>1. ASSUME NEW r \in Requests, RequestStep(r)
      PROVE  OneUpdater' /\ ReportAppliesOnce' /\ UpdaterMay'
  BY <1>1 DEF RequestStep, RouteStep, ReadActive, InsertJob, PostRequest, HearWorker, WriteAnswer,
     KillRoute, CheckQueue, Enqueue
<1>2. CASE Send
  <2>1. UNCHANGED <<ledger, applied, seen>>
    BY <1>2 DEF Send
  <2>2. QED
    BY <1>2, <2>1, SendOnlyBegins
<1>3. CASE TakeJob \/ Finish \/ Delivered \/ GiveUp \/ RestartWorker
  BY <1>3 DEF TakeJob, Finish, Delivered, GiveUp, RestartWorker
<1>4. ASSUME NEW d \in Deliveries, Lookup(d)
      PROVE  OneUpdater' /\ ReportAppliesOnce' /\ UpdaterMay'
  <2>1. /\ \A e \in Deliveries : handler'[e] = "update" => handler[e] = "update" /\ seen'[e] = seen[e]
        /\ ledger' = ledger /\ applied' = applied
    BY <1>4 DEF Lookup
  <2>2. QED
    BY <2>1
<1>5. ASSUME NEW d \in Deliveries, Record(d)
      PROVE  OneUpdater' /\ ReportAppliesOnce' /\ UpdaterMay'
  <2>1. /\ handler' = [handler EXCEPT ![d] = handler'[d]] /\ seen' = [seen EXCEPT ![d] = seen'[d]]
        /\ ledger \subseteq ledger' /\ applied' = applied
        /\ handler'[d] \in {"update", "ok", "refused"}
    BY <1>5 DEF Record, AfterRecord
  <2>2. CASE handler'[d] = "update"
    <3>1. /\ d[1] \notin ledger /\ ledger' = ledger \cup {d[1]} /\ seen' = seen
          /\ seen[d] \notin Terminal \/ StatusOf(d) = seen[d]
      BY <1>5, <2>2 DEF Record, AfterRecord
    <3>2. \A e \in Deliveries : handler'[e] = "update" => e = d \/ (handler[e] = "update" /\ e[1] # d[1])
      BY <2>1, <3>1
    <3>3. OneUpdater'
      BY <2>1, <3>1, <3>2, DeliveryParts
    <3>4. UpdaterMay'
      BY <2>1, <3>1, <3>2
    <3>5. QED
      BY <2>1, <3>3, <3>4
  <2>3. CASE handler'[d] # "update"
    <3>1. \A e \in Deliveries : handler'[e] = "update" => handler[e] = "update" /\ seen'[e] = seen[e]
      BY <2>1, <2>3
    <3>2. QED
      BY <2>1, <3>1
  <2>4. QED
    BY <2>2, <2>3
<1>6. ASSUME NEW d \in Deliveries, Update(d)
      PROVE  OneUpdater' /\ ReportAppliesOnce' /\ UpdaterMay'
  <2>1. /\ handler[d] = "update" /\ ledger' = ledger
        /\ handler' = [handler EXCEPT ![d] = handler'[d]] /\ seen' = [seen EXCEPT ![d] = "absent"]
        /\ handler'[d] \in {"ok", "refused"}
        /\ applied' = applied \/ applied' = [applied EXCEPT ![d[1]] = applied[d[1]] + 1]
    BY <1>6 DEF Update, WriteStatus
  <2>2. d[1] \in ledger /\ d[1] \in Callbacks /\ applied[d[1]] = 0
    BY <2>1, DeliveryParts
  <2>3. \A e \in Deliveries : handler'[e] = "update" => e # d /\ e[1] # d[1] /\ handler[e] = "update"
    BY <2>1
  <2>4. \A c \in Callbacks : applied'[c] = applied[c] \/ (c = d[1] /\ applied'[c] = 1)
    BY <2>1, <2>2
  <2>5. OneUpdater'
    BY <2>1, <2>2, <2>3, <2>4, DeliveryParts
  <2>6. ReportAppliesOnce'
    BY <2>4
  <2>7. UpdaterMay'
    BY <2>1, <2>3
  <2>8. QED
    BY <2>5, <2>6, <2>7
<1>7. QED
  BY <1>1, <1>2, <1>3, <1>4, <1>5, <1>6 DEF Next, RequestStep, PipelineStep, HandlerStep

-----------------------------------------------------------------------------
(***************************************************************************)
(* The theorems.                                                           *)
(***************************************************************************)
LEMMA InitInvariant == Init => IInv
<1> SUFFICES ASSUME Init PROVE IInv
  OBVIOUS
<1>1. work \in [req : Requests \cup {None}, report : Reports \cup {None}, tries : 0..Attempts]
  BY DEF Init, AtRest
<1>2. TypeOK
  BY <1>1 DEF Init, TypeOK
<1>3. UnpostedIsUnknown /\ WorkIsTaken /\ AnswerWasGiven /\ ReportIsRecorded
  BY DEF Init, UnpostedIsUnknown, WorkIsTaken, AtRest, AnswerWasGiven, ReportIsRecorded, Reports
<1>4. OneUpdater /\ ReportAppliesOnce /\ UpdaterMay
  BY DEF Init, OneUpdater, ReportAppliesOnce, UpdaterMay
<1>5. QED
  BY <1>2, <1>3, <1>4 DEF IInv

LEMMA StepInvariant == IInv /\ [Next]_vars => IInv'
<1> SUFFICES ASSUME IInv, [Next]_vars PROVE IInv'
  OBVIOUS
<1>1. CASE Next
  <2>1. TypeOK'
    BY <1>1, RequestType, WorkerType, HandlerType DEF IInv, Next, RequestStep, WorkerStep
  <2>2. QED
    BY <1>1, <2>1, UnpostedStep, WorkIsTakenStep, AnswerStep, RecordedStep, UpdaterStep DEF IInv
<1>2. CASE UNCHANGED vars
  BY <1>2 DEF vars, IInv, TypeOK, UnpostedIsUnknown, WorkIsTaken, Taken, AnswerWasGiven,
              ReportIsRecorded, OneUpdater, ReportAppliesOnce, UpdaterMay
<1>3. QED
  BY <1>1, <1>2

\* The invariant holds of every state of the route, the worker and the
\* callback handlers.
THEOREM Invariant == Spec => []IInv
BY InitInvariant, StepInvariant, PTL DEF Spec

\* Whatever the route, the worker and the handlers of its reports do, every
\* variable keeps its type.
THEOREM TypeCorrect == Spec => []TypeOK
<1>1. IInv => TypeOK
  BY DEF IInv
<1>2. QED
  BY <1>1, Invariant, PTL

\* A job says accepted only when the worker took it, and what a report says of
\* it is in the callback ledger.
THEOREM StatusIsCaused == Spec => []StatusHasItsCause
<1>1. IInv => StatusHasItsCause
  BY DEF IInv, StatusHasItsCause, AnswerWasGiven, ReportIsRecorded
<1>2. QED
  BY <1>1, Invariant, PTL

\* The callback route writes a report to the job at most once, however often it
\* is delivered.
THEOREM AppliedOnce == Spec => []ReportAppliesOnce
<1>1. IInv => ReportAppliesOnce
  BY DEF IInv
<1>2. QED
  BY <1>1, Invariant, PTL

\* A handler that read a job's end writes nothing else over it.
THEOREM LateReportsChangeNothing == Spec => LateReportIsIgnored
<1> DEFINE Ignored ==
    \A r \in Requests : \A d \in Deliveries :
        JobOf(d) = r /\ seen[d] \in Terminal /\ handler'[d] # handler[d]
            => job'[r] = job[r] \/ StatusOf(d) = seen[d]
<1>1. ASSUME IInv, Next, NEW d \in Deliveries, seen[d] \in Terminal, handler'[d] # handler[d]
      PROVE  job'[JobOf(d)] = job[JobOf(d)] \/ StatusOf(d) = seen[d]
  <2>1. CASE job' = job
    BY <2>1
  <2>2. ASSUME NEW e \in Deliveries, Update(e) PROVE StatusOf(d) = seen[d]
    <3>1. e = d
      BY <1>1, <2>2 DEF Update, Reply, Goto, IInv, TypeOK
    <3>2. QED
      BY <1>1, <2>2, <3>1 DEF Update, IInv, UpdaterMay
  <2>3. ASSUME NEW r \in Requests, RequestStep(r) PROVE handler' = handler
    BY <2>3 DEF RequestStep, RouteStep, ReadActive, InsertJob, PostRequest, HearWorker, WriteAnswer,
       KillRoute, CheckQueue, Enqueue, appVars
  <2>4. CASE WorkerStep
    BY <2>1, <2>4 DEF WorkerStep, PipelineStep, TakeJob, Finish, Send, Delivered, GiveUp,
       RestartWorker, appVars
  <2>5. ASSUME NEW e \in Deliveries, Lookup(e) \/ Record(e) PROVE job' = job
    BY <2>5 DEF Lookup, Record
  <2>6. QED
    BY <1>1, <2>1, <2>2, <2>3, <2>4, <2>5 DEF Next, RequestStep, WorkerStep, HandlerStep
<1>2. IInv /\ [Next]_vars => [Ignored]_vars
  BY <1>1
<1>3. QED
  BY <1>2, Invariant, PTL DEF Spec, LateReportIsIgnored
=============================================================================
