----------------------------- MODULE ModelRuns -----------------------------
(***************************************************************************)
(* The life of one worker-backed model run: the create route that inserts  *)
(* it, the launch route that re-queues it, the worker threads that take    *)
(* its stages, and the stale-run reaper.  They share two tables            *)
(* (model_runs, model_run_stages) and the output rows, and nothing else:   *)
(* no process holds a lock or a transaction over more than one of the      *)
(* calls below, except the reaper's stored procedure.  Every database call *)
(* is one action (each of the two statements of that procedure too); what  *)
(* a process keeps between two calls is its own state.                     *)
(*                                                                         *)
(* Runs share no rows, so one run is enough: the other runs of a           *)
(* deployment only delay a thread, and every step here may be delayed.     *)
(* Time is left out: the reaper may judge a live run stale whenever it     *)
(* reads it (RunReaper models the clocks and thresholds behind that).      *)
(*                                                                         *)
(* A definition marked "Variant" is a plausible mistake in the definition  *)
(* that follows it: put in its place, it breaks a property.                *)
(***************************************************************************)
EXTENDS Naturals, FiniteSets

CONSTANTS
    NStages,      \* stages of the run's engine: 3 for aequilibrae, 6 for behavioral_demand
    Threads,      \* poll loops and push drains of every worker process
    Host,         \* [Threads -> processes]: threads of a process share its execution lock
    Owns,         \* [Threads -> SUBSET (1..NStages)]: the stages a worker polls for, by name
    ChecksInTry,  \* threads whose completion check sits inside the stage's try block
    WritingOrds,  \* stages that register artifacts, KPIs or evidence
    Creator,      \* the create request
    Requests,     \* relaunch requests
    Reapers,      \* cron sweeps and page loads that reconcile
    MaxFaults     \* bound on lost calls and crashes

Ords == 1..NStages
Inserters == Requests \cup {Creator}

\* model_run_stages has no unique key on (run, stage): a row is identified by
\* the request that inserted it and its sort_order.
Rows == Inserters \X Ords
Ord(row) == row[2]

ASSUME StagesAssumption == NStages \in Nat \ {0}
ASSUME WorkerAssumption == /\ Owns \in [Threads -> SUBSET Ords]
                           /\ ChecksInTry \subseteq Threads
                           /\ WritingOrds \subseteq Ords
ASSUME CreatorAssumption == Creator \notin Requests
ASSUME FaultAssumption == MaxFaults \in Nat

VARIABLES
    run,           \* model_runs.status, "absent" before the insert
    failureCount,  \* model_runs.failure_count
    stage,         \* model_run_stages.status of each row, "absent" before its insert
    outputs,       \* artifact, KPI and evidence rows: <<sort_order, attempt that wrote them>>
    attempt,       \* history: how often stages were queued for this run
    creator,       \* what the create request does next
    thread,        \* each worker thread: what it does next, the row it works on and
                   \* (history) the attempt in which it claimed that row
    request,       \* each relaunch request: what it does next, the failure_count it read
    snap,          \* each reaper: no judgement held, or between its two statements, or waiting
                   \* to make them; and whether the rows moved since its read
    faults         \* lost calls and crashes so far

vars == <<run, failureCount, stage, outputs, attempt, creator, thread, request, snap, faults>>

LiveStatus == {"queued", "running"}
RunStatus == LiveStatus \cup {"succeeded", "failed"}
StageStatus == RunStatus \cup {"skipped"}

\* Where a thread is between its claim and the return of process_stage; from
\* the claim on it holds the execution lock of its process.
InBody == {"mark", "exec", "succeed", "failstage", "failrun", "check", "complete"}
ThreadPc == InBody \cup {"idle", "classify", "claim", "skip"}
RequestPc == {"ready", "count", "history", "requeue", "stages", "insert",
              "reset", "clear", "done"}

Idle == [pc |-> "idle", row |-> <<Creator, 1>>, attempt |-> 0]

-----------------------------------------------------------------------------
Inserted == {row \in Rows : stage[row] # "absent"}
Earlier(row) == {r \in Inserted : Ord(r) < Ord(row)}

\* classify_stage_readiness, on what one read of the earlier rows returns.
BlockedTerminal(row) == \E r \in Earlier(row) : stage[r] \in {"failed", "skipped"}
\* Variant: a stage is ready when those before it have begun.
ReadyBehindRunning(row) == \A r \in Earlier(row) : stage[r] \in {"running", "succeeded"}
Ready(row) == \A r \in Earlier(row) : stage[r] = "succeeded"

Executing(t) == thread[t].pc \in InBody

\* Any update of the run row or of a stage row moves its updated_at (the
\* set_*_updated_at triggers): what a reaper read before is out of date.
AfterTouch == [none |-> "none", same |-> "moved", moved |-> "moved", reaping |-> "reaping"]
Touch == snap' = [k \in Reapers |-> AfterTouch[snap[k]]]

\* A reaper between its two statements has updated the run row and not yet
\* committed: other updates of that row wait.
RunUnlocked == \A k \in Reapers : snap[k] # "reaping"
PatchRun(status) == RunUnlocked /\ run' = status /\ Touch

Fault == faults < MaxFaults /\ faults' = faults + 1

-----------------------------------------------------------------------------
Init ==
    /\ run = "absent"
    /\ failureCount = 0
    /\ stage = [row \in Rows |-> "absent"]
    /\ outputs = {}
    /\ attempt = 0
    /\ creator = "run"
    /\ thread = [t \in Threads |-> Idle]
    /\ request = [q \in Requests |-> [pc |-> "ready", count |-> 0]]
    /\ snap = [k \in Reapers |-> "none"]
    /\ faults = 0

(***************************************************************************)
(* The create route, worker-backed engines.                                *)
(***************************************************************************)
CreateRun ==
    /\ creator = "run"
    /\ run' = "queued"
    /\ creator' = "stages"
    /\ Touch
    /\ UNCHANGED <<failureCount, stage, outputs, attempt, thread, request, faults>>

QueueRowsOf(by) ==
    /\ stage' = [row \in Rows |-> IF row[1] = by THEN "queued" ELSE stage[row]]
    /\ attempt' = attempt + 1
    /\ Touch

CreateStages ==
    /\ creator = "stages"
    /\ QueueRowsOf(Creator)
    /\ creator' = "done"
    /\ UNCHANGED <<run, failureCount, outputs, thread, request, faults>>

\* The insert of the stage rows fails and the run is marked failed, unless
\* that update fails too or the request dies before it.
CreateStagesFails ==
    /\ creator = "stages"
    /\ Fault
    /\ creator' = "done"
    /\ PatchRun("failed") \/ UNCHANGED <<run, snap>>
    /\ UNCHANGED <<failureCount, stage, outputs, attempt, thread, request>>

(***************************************************************************)
(* The launch route.                                                       *)
(***************************************************************************)
RequestStep(q, from, to) ==
    /\ request[q].pc = from
    /\ request' = [request EXCEPT ![q].pc = to]

\* The one look at the status: routeAcceptsRelaunchOfStatus.
RefusedByRelaunch == {"running", "succeeded"}

ReadRun(q) ==
    /\ run # "absent"
    /\ RequestStep(q, "ready", IF run \in RefusedByRelaunch THEN "done"
                               ELSE IF run = "failed" THEN "count" ELSE "requeue")
    /\ UNCHANGED <<run, failureCount, stage, outputs, attempt, creator, thread, snap, faults>>

ReadFailureCount(q) ==
    /\ request[q].pc = "count"
    /\ request' = [request EXCEPT ![q] = [pc |-> "history", count |-> failureCount]]
    /\ UNCHANGED <<run, failureCount, stage, outputs, attempt, creator, thread, snap, faults>>

WriteFailureHistory(q) ==
    /\ RequestStep(q, "history", "requeue")
    /\ RunUnlocked
    /\ failureCount' = request[q].count + 1
    /\ Touch
    /\ UNCHANGED <<run, stage, outputs, attempt, creator, thread, faults>>

\* The history is best effort: a failed read or write of it is passed over.
HistoryLost(q) ==
    /\ Fault
    /\ \E from \in {"count", "history"} : RequestStep(q, from, "requeue")
    /\ UNCHANGED <<run, failureCount, stage, outputs, attempt, creator, thread, snap>>

\* An update by id: it does not test the status read above.
Requeue(q) ==
    /\ RequestStep(q, "requeue", "stages")
    /\ PatchRun("queued")
    /\ UNCHANGED <<failureCount, stage, outputs, attempt, creator, thread, faults>>

ReadStages(q) ==
    /\ RequestStep(q, "stages", IF Inserted = {} THEN "insert" ELSE "reset")
    /\ UNCHANGED <<run, failureCount, stage, outputs, attempt, creator, thread, snap, faults>>

InsertStages(q) ==
    /\ RequestStep(q, "insert", "clear")
    /\ QueueRowsOf(q)
    /\ UNCHANGED <<run, failureCount, outputs, creator, thread, faults>>

\* Variant: only the stages that were being executed are queued again.
ResetRunningStages(q) ==
    /\ RequestStep(q, "reset", "clear")
    /\ stage' = [row \in Rows |-> IF stage[row] = "running" THEN "queued" ELSE stage[row]]
    /\ attempt' = attempt + 1
    /\ Touch
    /\ UNCHANGED <<run, failureCount, outputs, creator, thread, faults>>

ResetStages(q) ==
    /\ RequestStep(q, "reset", "clear")
    /\ stage' = [row \in Rows |-> IF stage[row] = "absent" THEN "absent" ELSE "queued"]
    /\ attempt' = attempt + 1
    /\ Touch
    /\ UNCHANGED <<run, failureCount, outputs, creator, thread, faults>>

\* Four concurrent deletes.  What follows, the ledger row and the push,
\* writes nothing here.
ClearOutputs(q) ==
    /\ RequestStep(q, "clear", "done")
    /\ outputs' = {}
    /\ UNCHANGED <<run, failureCount, stage, attempt, creator, thread, snap, faults>>

\* A failed call, or the death of the request, leaves what it wrote so far;
\* of the four deletes any may have been done.
RequestFails(q) ==
    /\ request[q].pc \notin {"ready", "done"}
    /\ Fault
    /\ request' = [request EXCEPT ![q].pc = "done"]
    /\ outputs' \in IF request[q].pc = "clear" THEN SUBSET outputs ELSE {outputs}
    /\ UNCHANGED <<run, failureCount, stage, attempt, creator, thread, snap>>

(***************************************************************************)
(* A worker thread: process_first_actionable_stage and process_stage.      *)
(***************************************************************************)
Goto(t, from, to) ==
    /\ thread[t].pc = from
    /\ thread' = [thread EXCEPT ![t] = IF to = "idle" THEN Idle ELSE [@ EXCEPT !.pc = to]]

\* The queued rows are read once and then classified one by one, each with a
\* read of its own: a row is looked at some time after it was seen queued.
FetchQueued(t, row) ==
    /\ thread[t].pc = "idle"
    /\ stage[row] = "queued"
    /\ Ord(row) \in Owns[t]
    /\ thread' = [thread EXCEPT ![t] = [pc |-> "classify", row |-> row, attempt |-> 0]]
    /\ UNCHANGED <<run, failureCount, stage, outputs, attempt, creator, request, snap, faults>>

\* Variant: a stage behind a failed one waits.
ClassifyBlockedAsWaiting(t) ==
    /\ Goto(t, "classify", IF Ready(thread[t].row) THEN "claim" ELSE "idle")
    /\ UNCHANGED <<run, failureCount, stage, outputs, attempt, creator, request, snap, faults>>

ClassifyReadiness(t) ==
    LET row == thread[t].row IN
    /\ Goto(t, "classify", IF BlockedTerminal(row) THEN "skip"
                           ELSE IF Ready(row) THEN "claim" ELSE "idle")
    /\ UNCHANGED <<run, failureCount, stage, outputs, attempt, creator, request, snap, faults>>

\* sb_patch_stage, and sb_patch_run likewise: an update by id, whatever the
\* row says now.
PatchStage(t, status) == stage' = [stage EXCEPT ![thread[t].row] = status] /\ Touch

\* Variant: the run takes the status of the skipped stage.
MarkRunSkippedToo(t) ==
    /\ Goto(t, "skip", "idle")
    /\ PatchStage(t, "skipped")
    /\ PatchRun("skipped")
    /\ UNCHANGED <<failureCount, outputs, attempt, creator, request, faults>>

MarkStageSkipped(t) ==
    /\ Goto(t, "skip", "idle")
    /\ PatchStage(t, "skipped")
    /\ UNCHANGED <<run, failureCount, outputs, attempt, creator, request, faults>>

\* process_stage waits for the execution lock of its process, then claims:
\* the one update that tests what the row says.
LockIgnored(t) == TRUE   \* Variant: the poll loop and the push drain share no lock.
LockFree(t) == \A u \in Threads \ {t} : Host[u] = Host[t] => ~Executing(u)

\* Variant: the claim is an update by id.
ClaimWhateverItSays(t) ==
    /\ thread[t].pc = "claim"
    /\ LockFree(t)
    /\ thread' = [thread EXCEPT ![t] = [pc |-> "mark", row |-> @.row, attempt |-> attempt]]
    /\ PatchStage(t, "running")
    /\ UNCHANGED <<run, failureCount, outputs, attempt, creator, request, faults>>

ClaimStage(t) ==
    /\ thread[t].pc = "claim"
    /\ LockFree(t)
    /\ stage[thread[t].row] = "queued"
    /\ thread' = [thread EXCEPT ![t] = [pc |-> "mark", row |-> @.row, attempt |-> attempt]]
    /\ PatchStage(t, "running")
    /\ UNCHANGED <<run, failureCount, outputs, attempt, creator, request, faults>>

LoseClaim(t) ==
    /\ LockFree(t)
    /\ stage[thread[t].row] # "queued"
    /\ Goto(t, "claim", "idle")
    /\ UNCHANGED <<run, failureCount, stage, outputs, attempt, creator, request, snap, faults>>

MarkRunRunning(t) ==
    /\ Goto(t, "mark", "exec")
    /\ PatchRun("running")
    /\ UNCHANGED <<failureCount, stage, outputs, attempt, creator, request, faults>>

\* A log_tail patch in the middle of a stage: only updated_at moves.
Heartbeat(t) ==
    /\ thread[t].pc = "exec"
    /\ Touch
    /\ UNCHANGED <<run, failureCount, stage, outputs, attempt, creator, thread, request, faults>>

Written(t) ==
    LET ord == Ord(thread[t].row) IN
    IF ord \in WritingOrds THEN outputs \cup {<<ord, thread[t].attempt>>} ELSE outputs

FinishBody(t) ==
    /\ Goto(t, "exec", "succeed")
    /\ outputs' = Written(t)
    /\ UNCHANGED <<run, failureCount, stage, attempt, creator, request, snap, faults>>

\* The body raises, before or after it registered its outputs.
RaiseInBody(t) ==
    /\ Goto(t, "exec", "failstage")
    /\ outputs' \in {outputs, Written(t)}
    /\ UNCHANGED <<run, failureCount, stage, attempt, creator, request, snap, faults>>

SucceedStage(t) ==
    /\ Goto(t, "succeed", "check")
    /\ PatchStage(t, "succeeded")
    /\ UNCHANGED <<run, failureCount, outputs, attempt, creator, request, faults>>

FailStage(t) ==
    /\ Goto(t, "failstage", "failrun")
    /\ PatchStage(t, "failed")
    /\ UNCHANGED <<run, failureCount, outputs, attempt, creator, request, faults>>

FailRun(t) ==
    /\ Goto(t, "failrun", "idle")
    /\ PatchRun("failed")
    /\ UNCHANGED <<failureCount, stage, outputs, attempt, creator, request, faults>>

AllStagesSucceeded == \A row \in Inserted : stage[row] = "succeeded"

\* Variant: a run is complete when no stage of it failed.
CheckNoneFailed(t) ==
    /\ Goto(t, "check", IF \A row \in Inserted : stage[row] # "failed" THEN "complete" ELSE "idle")
    /\ UNCHANGED <<run, failureCount, stage, outputs, attempt, creator, request, snap, faults>>

CheckRunComplete(t) ==
    /\ Goto(t, "check", IF AllStagesSucceeded THEN "complete" ELSE "idle")
    /\ UNCHANGED <<run, failureCount, stage, outputs, attempt, creator, request, snap, faults>>

CompleteRun(t) ==
    /\ Goto(t, "complete", "idle")
    /\ PatchRun("succeeded")
    /\ UNCHANGED <<failureCount, stage, outputs, attempt, creator, request, faults>>

\* The patch helpers do not look at the answer: an update the server refused
\* is passed over and the thread goes on.
AfterIgnored == [skip |-> "idle", mark |-> "exec", succeed |-> "check",
                 failstage |-> "failrun", failrun |-> "idle", complete |-> "idle"]

WriteIgnored(t) ==
    /\ Fault
    /\ \E pc \in DOMAIN AfterIgnored : Goto(t, pc, AfterIgnored[pc])
    /\ UNCHANGED <<run, failureCount, stage, outputs, attempt, creator, request, snap>>

\* A call that raises (no connection) fails the stage when it is inside the
\* try block; elsewhere it ends in the poll loop's handler, the lock released.
InTry(t) == \/ thread[t].pc = "succeed"
            \/ t \in ChecksInTry /\ thread[t].pc \in {"check", "complete"}

CallRaises(t) ==
    /\ Fault
    /\ \E pc \in ThreadPc \ {"idle", "exec"} :
          Goto(t, pc, IF InTry(t) THEN "failstage" ELSE "idle")
    /\ UNCHANGED <<run, failureCount, stage, outputs, attempt, creator, request, snap>>

\* The claim is applied, its answer lost: nobody works on the row.
ClaimAnswerLost(t) ==
    /\ Fault
    /\ LockFree(t)
    /\ stage[thread[t].row] = "queued"
    /\ Goto(t, "claim", "idle")
    /\ PatchStage(t, "running")
    /\ UNCHANGED <<run, failureCount, outputs, attempt, creator, request>>

\* A worker process dies and is started again.
Crash(h) ==
    /\ Fault
    /\ thread' = [t \in Threads |-> IF Host[t] = h THEN Idle ELSE thread[t]]
    /\ UNCHANGED <<run, failureCount, stage, outputs, attempt, creator, request, snap>>

(***************************************************************************)
(* The reaper: reads the live runs, later calls reap_model_run_if_stale.   *)
(***************************************************************************)
JudgeStale(k) ==
    /\ run \in LiveStatus
    /\ snap[k] = "none"
    /\ snap' = [snap EXCEPT ![k] = "same"]
    /\ UNCHANGED <<run, failureCount, stage, outputs, attempt, creator, thread, request, faults>>

\* The first statement tests both tables and fails the run, seen by nobody
\* until the commit.
ReapRun(k) ==
    /\ snap[k] = "same"
    /\ run \in LiveStatus
    /\ RunUnlocked
    /\ snap' = [snap EXCEPT ![k] = "reaping"]
    /\ UNCHANGED <<run, failureCount, stage, outputs, attempt, creator, thread, request, faults>>

\* The second one fails the stages that are live by then, and commits.
ReapStages(k) ==
    /\ snap[k] = "reaping"
    /\ run' = "failed"
    /\ stage' = [row \in Rows |-> IF stage[row] \in LiveStatus THEN "failed" ELSE stage[row]]
    /\ snap' = [j \in Reapers |-> IF j = k THEN "none" ELSE AfterTouch[snap[j]]]
    /\ UNCHANGED <<failureCount, outputs, attempt, creator, thread, request, faults>>

\* The procedure finds that a row moved, or the call fails.
ReapSkipped(k) ==
    /\ snap[k] \in {"same", "moved"}
    /\ snap' = [snap EXCEPT ![k] = "none"]
    /\ UNCHANGED <<run, failureCount, stage, outputs, attempt, creator, thread, request, faults>>

-----------------------------------------------------------------------------
CreateStep == CreateRun \/ CreateStages

LaunchStep(q) == \/ ReadRun(q) \/ ReadFailureCount(q) \/ WriteFailureHistory(q)
                 \/ Requeue(q) \/ ReadStages(q) \/ InsertStages(q) \/ ResetStages(q)
                 \/ ClearOutputs(q)

\* What a thread that has begun does next, in the order of the code.
Proceed(t) == \/ ClassifyReadiness(t) \/ MarkStageSkipped(t) \/ ClaimStage(t) \/ LoseClaim(t)
              \/ MarkRunRunning(t) \/ FinishBody(t) \/ RaiseInBody(t) \/ SucceedStage(t)
              \/ FailStage(t) \/ FailRun(t) \/ CheckRunComplete(t) \/ CompleteRun(t)

ThreadFault(t) == WriteIgnored(t) \/ CallRaises(t) \/ ClaimAnswerLost(t) \/ Crash(Host[t])

Next == \/ CreateStep \/ CreateStagesFails
        \/ \E q \in Requests : LaunchStep(q) \/ HistoryLost(q) \/ RequestFails(q)
        \/ \E t \in Threads : \/ \E row \in Rows : FetchQueued(t, row)
                              \/ Proceed(t) \/ Heartbeat(t) \/ ThreadFault(t)
        \/ \E k \in Reapers : JudgeStale(k) \/ ReapRun(k) \/ ReapStages(k) \/ ReapSkipped(k)

Spec == Init /\ [][Next]_vars

\* A request runs to its end; a thread that has begun goes on; and the loop
\* over the queued rows starts again at the head every few seconds, so that
\* no row is passed over for ever.
Fairness == /\ WF_vars(CreateStep)
            /\ \A q \in Requests : WF_vars(LaunchStep(q))
            /\ \A t \in Threads : /\ WF_vars(Proceed(t))
                                  /\ \A row \in Rows : SF_vars(FetchQueued(t, row))

FairSpec == Spec /\ Fairness

-----------------------------------------------------------------------------
(***************************************************************************)
(* Properties.                                                             *)
(***************************************************************************)

\* Every variable has its type; the counters stay within their named bounds.
TypeOK ==
    /\ run \in RunStatus \cup {"absent"}
    /\ failureCount \in Nat
    /\ stage \in [Rows -> StageStatus \cup {"absent"}]
    /\ outputs \subseteq Ords \X Nat
    /\ attempt \in Nat
    /\ creator \in {"run", "stages", "done"}
    /\ thread \in [Threads -> [pc : ThreadPc, row : Rows, attempt : Nat]]
    /\ request \in [Requests -> [pc : RequestPc, count : Nat]]
    /\ snap \in [Reapers -> {"none", "same", "moved", "reaping"}]
    /\ faults \in 0..MaxFaults

SameRow(t, u) == thread[t].row = thread[u].row

\* Between two queueings of a stage at most one thread executes it, whatever
\* relaunches, reaps, lost answers and crashes fall in between: what the
\* conditional update of sb_claim_stage is for.
OneExecutorPerAttempt ==
    \A t, u \in Threads :
        (Executing(t) /\ Executing(u) /\ SameRow(t, u)
            /\ thread[t].attempt = thread[u].attempt) => t = u

\* One stage at a time in a process (_STAGE_EXECUTION_LOCK), whatever the poll
\* loop and the push drain of that process take up and whatever fails.
OneStagePerProcess ==
    \A t, u \in Threads : (Executing(t) /\ Executing(u) /\ Host[t] = Host[u]) => t = u

\* Without relaunches, a stage is executed or recorded as succeeded only when
\* every earlier stage is recorded as succeeded: classify_stage_readiness
\* reads the earlier rows well before the claim, and reaps, late patches of a
\* reaped worker and lost updates may fall in between.
StagesInOrder ==
    \A row \in Inserted :
        (stage[row] = "succeeded" \/ \E t \in Threads : Executing(t) /\ thread[t].row = row)
            => \A r \in Earlier(row) : stage[r] = "succeeded"

\* Without relaunches, a run shown as succeeded has succeeded stages only, and
\* the output rows of each of its writing stages are there.
SucceededRunIsComplete ==
    run = "succeeded" =>
        /\ AllStagesSucceeded
        /\ \A ord \in WritingOrds : \E a \in 1..attempt : <<ord, a>> \in outputs

\* With at most one relaunch, no reap and no lost call, a run that says queued
\* while no request is at work on it has a stage that a worker will find
\* queued, or one that is executing: the relaunch left something to do.
QueuedRunHasWork ==
    (run = "queued" /\ creator = "done" /\ faults = 0
        /\ \A q \in Requests : request[q].pc \in {"ready", "done"})
    => \/ \E row \in Rows : stage[row] = "queued"
       \/ \E t \in Threads : Executing(t)

\* With workers for every stage, no relaunch and no lost call, a run comes to
\* rest as succeeded or failed and every stage is decided, the stages behind a
\* failed one by being skipped.
EveryRunSettles ==
    <>[](/\ run \in {"succeeded", "failed"}
         /\ \A row \in Inserted : stage[row] \in {"succeeded", "failed", "skipped"})
=============================================================================
