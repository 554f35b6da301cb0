-------------------------- MODULE ModelRunsProofs --------------------------
(***************************************************************************)
(* Type correctness of ModelRuns, and that a stage has one executor in     *)
(* each attempt, for every number of stages, threads, processes, requests, *)
(* reapers and faults.                                                     *)
(***************************************************************************)
EXTENDS ModelRuns, TLAPS

USE StagesAssumption, WorkerAssumption, CreatorAssumption, FaultAssumption

-----------------------------------------------------------------------------
(***************************************************************************)
(* What the operators shared by the actions do to the types.               *)
(***************************************************************************)
LEMMA IdleType == Idle \in [pc : ThreadPc, row : Rows, attempt : Nat]
<1>1. 1 \in Ords
  BY DEF Ords
<1>2. <<Creator, 1>> \in Rows
  BY <1>1 DEF Rows, Inserters
<1>3. QED
  BY <1>2 DEF Idle, ThreadPc

LEMMA TouchType ==
  ASSUME TypeOK, Touch
  PROVE  snap' \in [Reapers -> {"none", "same", "moved", "reaping"}]
BY DEF TypeOK, Touch, AfterTouch

LEMMA GotoType ==
  ASSUME TypeOK, NEW t \in Threads, NEW from \in ThreadPc, NEW to \in ThreadPc, Goto(t, from, to)
  PROVE  thread' \in [Threads -> [pc : ThreadPc, row : Rows, attempt : Nat]]
BY IdleType DEF TypeOK, Goto

LEMMA PatchStageType ==
  ASSUME TypeOK, NEW t \in Threads, NEW status \in StageStatus, PatchStage(t, status)
  PROVE  stage' \in [Rows -> StageStatus \cup {"absent"}]
BY DEF TypeOK, PatchStage

LEMMA FaultType ==
  ASSUME TypeOK, Fault
  PROVE  faults' \in 0..MaxFaults
BY DEF TypeOK, Fault

LEMMA RequestStepType ==
  ASSUME TypeOK, NEW q \in Requests, NEW from \in RequestPc, NEW to \in RequestPc,
         RequestStep(q, from, to)
  PROVE  request' \in [Requests -> [pc : RequestPc, count : Nat]]
BY DEF TypeOK, RequestStep


-----------------------------------------------------------------------------
(***************************************************************************)
(* Type correctness.                                                       *)
(***************************************************************************)
LEMMA InitType == Init => TypeOK
<1> SUFFICES ASSUME Init PROVE TypeOK
  OBVIOUS
<1>1. thread \in [Threads -> [pc : ThreadPc, row : Rows, attempt : Nat]]
  BY IdleType DEF Init
<1>2. request \in [Requests -> [pc : RequestPc, count : Nat]]
  BY DEF Init, RequestPc
<1>3. QED
  BY <1>1, <1>2 DEF Init, TypeOK

\* The create route.
LEMMA CreateType == TypeOK /\ (CreateStep \/ CreateStagesFails) => TypeOK'
<1> SUFFICES ASSUME TypeOK, CreateStep \/ CreateStagesFails PROVE TypeOK'
  OBVIOUS
<1>1. CASE CreateRun
  <2>1. snap' \in [Reapers -> {"none", "same", "moved", "reaping"}]
    BY <1>1, TouchType DEF CreateRun
  <2>2. QED
    BY <1>1, <2>1 DEF TypeOK, CreateRun, RunStatus, LiveStatus
<1>2. CASE CreateStages
  <2>1. snap' \in [Reapers -> {"none", "same", "moved", "reaping"}]
    BY <1>2, TouchType DEF CreateStages, QueueRowsOf
  <2>2. stage' \in [Rows -> StageStatus \cup {"absent"}]
    BY <1>2 DEF TypeOK, CreateStages, QueueRowsOf, StageStatus, RunStatus, LiveStatus
  <2>3. attempt' \in Nat
    BY <1>2 DEF TypeOK, CreateStages, QueueRowsOf
  <2>4. QED
    BY <1>2, <2>1, <2>2, <2>3 DEF TypeOK, CreateStages
<1>3. CASE CreateStagesFails
  <2>1. snap' \in [Reapers -> {"none", "same", "moved", "reaping"}]
    BY <1>3, TouchType DEF CreateStagesFails, PatchRun, TypeOK
  <2>2. run' \in RunStatus \cup {"absent"}
    BY <1>3 DEF TypeOK, CreateStagesFails, PatchRun, RunStatus
  <2>3. faults' \in 0..MaxFaults
    BY <1>3, FaultType DEF CreateStagesFails
  <2>4. QED
    BY <1>3, <2>1, <2>2, <2>3 DEF TypeOK, CreateStagesFails
<1>4. QED
  BY <1>1, <1>2, <1>3 DEF CreateStep

\* The launch route.
LEMMA LaunchType ==
  ASSUME NEW q \in Requests, TypeOK, LaunchStep(q) \/ HistoryLost(q) \/ RequestFails(q)
  PROVE  TypeOK'
<1> USE DEF RequestPc
<1>1. CASE ReadRun(q)
  <2>1. request' \in [Requests -> [pc : RequestPc, count : Nat]]
    BY <1>1, RequestStepType DEF ReadRun
  <2>2. QED
    BY <1>1, <2>1 DEF TypeOK, ReadRun
<1>2. CASE ReadFailureCount(q)
  BY <1>2 DEF TypeOK, ReadFailureCount
<1>3. CASE WriteFailureHistory(q)
  <2>1. request' \in [Requests -> [pc : RequestPc, count : Nat]]
    BY <1>3, RequestStepType DEF WriteFailureHistory
  <2>2. snap' \in [Reapers -> {"none", "same", "moved", "reaping"}]
    BY <1>3, TouchType DEF WriteFailureHistory
  <2>3. failureCount' \in Nat
    BY <1>3 DEF TypeOK, WriteFailureHistory
  <2>4. QED
    BY <1>3, <2>1, <2>2, <2>3 DEF TypeOK, WriteFailureHistory
<1>4. CASE HistoryLost(q)
  <2>1. request' \in [Requests -> [pc : RequestPc, count : Nat]]
    BY <1>4, RequestStepType DEF HistoryLost
  <2>2. faults' \in 0..MaxFaults
    BY <1>4, FaultType DEF HistoryLost
  <2>3. QED
    BY <1>4, <2>1, <2>2 DEF TypeOK, HistoryLost
<1>5. CASE Requeue(q)
  <2>1. request' \in [Requests -> [pc : RequestPc, count : Nat]]
    BY <1>5, RequestStepType DEF Requeue
  <2>2. snap' \in [Reapers -> {"none", "same", "moved", "reaping"}]
    BY <1>5, TouchType DEF Requeue, PatchRun
  <2>3. QED
    BY <1>5, <2>1, <2>2 DEF TypeOK, Requeue, PatchRun, RunStatus, LiveStatus
<1>6. CASE ReadStages(q)
  <2>1. request' \in [Requests -> [pc : RequestPc, count : Nat]]
    BY <1>6, RequestStepType DEF ReadStages
  <2>2. QED
    BY <1>6, <2>1 DEF TypeOK, ReadStages
<1>7. CASE InsertStages(q) \/ ResetStages(q)
  <2>1. request' \in [Requests -> [pc : RequestPc, count : Nat]]
    BY <1>7, RequestStepType DEF InsertStages, ResetStages
  <2>2. snap' \in [Reapers -> {"none", "same", "moved", "reaping"}]
    BY <1>7, TouchType DEF InsertStages, ResetStages, QueueRowsOf
  <2>3. stage' \in [Rows -> StageStatus \cup {"absent"}]
    BY <1>7 DEF TypeOK, InsertStages, ResetStages, QueueRowsOf, StageStatus, RunStatus, LiveStatus
  <2>4. attempt' \in Nat
    BY <1>7 DEF TypeOK, InsertStages, ResetStages, QueueRowsOf
  <2>5. QED
    BY <1>7, <2>1, <2>2, <2>3, <2>4 DEF TypeOK, InsertStages, ResetStages
<1>8. CASE ClearOutputs(q)
  <2>1. request' \in [Requests -> [pc : RequestPc, count : Nat]]
    BY <1>8, RequestStepType DEF ClearOutputs
  <2>2. QED
    BY <1>8, <2>1 DEF TypeOK, ClearOutputs
<1>9. CASE RequestFails(q)
  <2>1. request' \in [Requests -> [pc : RequestPc, count : Nat]]
    BY <1>9 DEF TypeOK, RequestFails
  <2>2. faults' \in 0..MaxFaults
    BY <1>9, FaultType DEF RequestFails
  <2>3. outputs' \subseteq Ords \X Nat
    BY <1>9 DEF TypeOK, RequestFails
  <2>4. QED
    BY <1>9, <2>1, <2>2, <2>3 DEF TypeOK, RequestFails
<1>10. QED
  BY <1>1, <1>2, <1>3, <1>4, <1>5, <1>6, <1>7, <1>8, <1>9 DEF LaunchStep


\* A worker thread.  Every step of one goes from one place to another and
\* writes at most its own row, the run and the outputs.
LEMMA ThreadType ==
  ASSUME NEW t \in Threads, TypeOK,
         (\E row \in Rows : FetchQueued(t, row)) \/ Proceed(t) \/ Heartbeat(t) \/ ThreadFault(t)
  PROVE  TypeOK'
<1> USE DEF ThreadPc, InBody
<1>1. CASE \E row \in Rows : FetchQueued(t, row)
  BY <1>1 DEF TypeOK, FetchQueued
<1>2. CASE ClassifyReadiness(t)
  <2>1. thread' \in [Threads -> [pc : ThreadPc, row : Rows, attempt : Nat]]
    BY <1>2, GotoType DEF ClassifyReadiness
  <2>2. QED
    BY <1>2, <2>1 DEF TypeOK, ClassifyReadiness
<1>3. CASE MarkStageSkipped(t) \/ SucceedStage(t) \/ FailStage(t)
  <2>1. thread' \in [Threads -> [pc : ThreadPc, row : Rows, attempt : Nat]]
    BY <1>3, GotoType DEF MarkStageSkipped, SucceedStage, FailStage
  <2>2. stage' \in [Rows -> StageStatus \cup {"absent"}]
    BY <1>3, PatchStageType DEF MarkStageSkipped, SucceedStage, FailStage, StageStatus, RunStatus
  <2>3. snap' \in [Reapers -> {"none", "same", "moved", "reaping"}]
    BY <1>3, TouchType DEF MarkStageSkipped, SucceedStage, FailStage, PatchStage
  <2>4. QED
    BY <1>3, <2>1, <2>2, <2>3 DEF TypeOK, MarkStageSkipped, SucceedStage, FailStage
<1>4. CASE ClaimStage(t)
  <2>1. thread' \in [Threads -> [pc : ThreadPc, row : Rows, attempt : Nat]]
    BY <1>4 DEF TypeOK, ClaimStage
  <2>2. stage' \in [Rows -> StageStatus \cup {"absent"}]
    BY <1>4, PatchStageType DEF ClaimStage, StageStatus, RunStatus, LiveStatus
  <2>3. snap' \in [Reapers -> {"none", "same", "moved", "reaping"}]
    BY <1>4, TouchType DEF ClaimStage, PatchStage
  <2>4. QED
    BY <1>4, <2>1, <2>2, <2>3 DEF TypeOK, ClaimStage
<1>5. CASE LoseClaim(t) \/ CheckRunComplete(t)
  <2>1. thread' \in [Threads -> [pc : ThreadPc, row : Rows, attempt : Nat]]
    BY <1>5, GotoType DEF LoseClaim, CheckRunComplete
  <2>2. QED
    BY <1>5, <2>1 DEF TypeOK, LoseClaim, CheckRunComplete
<1>6. CASE MarkRunRunning(t) \/ FailRun(t) \/ CompleteRun(t)
  <2>1. thread' \in [Threads -> [pc : ThreadPc, row : Rows, attempt : Nat]]
    BY <1>6, GotoType DEF MarkRunRunning, FailRun, CompleteRun
  <2>2. snap' \in [Reapers -> {"none", "same", "moved", "reaping"}]
    BY <1>6, TouchType DEF MarkRunRunning, FailRun, CompleteRun, PatchRun
  <2>3. run' \in RunStatus
    BY <1>6 DEF MarkRunRunning, FailRun, CompleteRun, PatchRun, RunStatus, LiveStatus
  <2>4. QED
    BY <1>6, <2>1, <2>2, <2>3 DEF TypeOK, MarkRunRunning, FailRun, CompleteRun
<1>7. CASE Heartbeat(t)
  <2>1. snap' \in [Reapers -> {"none", "same", "moved", "reaping"}]
    BY <1>7, TouchType DEF Heartbeat
  <2>2. QED
    BY <1>7, <2>1 DEF TypeOK, Heartbeat
<1>8. CASE FinishBody(t) \/ RaiseInBody(t)
  <2>1. thread' \in [Threads -> [pc : ThreadPc, row : Rows, attempt : Nat]]
    BY <1>8, GotoType DEF FinishBody, RaiseInBody
  <2>2. Written(t) \subseteq Ords \X Nat
    <3>1. thread[t].attempt \in Nat
      BY DEF TypeOK
    <3>2. ASSUME Ord(thread[t].row) \in WritingOrds PROVE Ord(thread[t].row) \in Ords
      BY <3>2
    <3>3. QED
      BY <3>1, <3>2 DEF TypeOK, Written
  <2>3. outputs' \subseteq Ords \X Nat
    BY <1>8, <2>2 DEF TypeOK, FinishBody, RaiseInBody
  <2>4. QED
    BY <1>8, <2>1, <2>3 DEF TypeOK, FinishBody, RaiseInBody
<1>9. CASE WriteIgnored(t) \/ CallRaises(t)
  <2>1. PICK from \in ThreadPc, to \in ThreadPc : Goto(t, from, to)
    BY <1>9 DEF WriteIgnored, CallRaises, AfterIgnored
  <2>2. thread' \in [Threads -> [pc : ThreadPc, row : Rows, attempt : Nat]]
    BY <2>1, GotoType
  <2>3. faults' \in 0..MaxFaults
    BY <1>9, FaultType DEF WriteIgnored, CallRaises
  <2>4. QED
    BY <1>9, <2>2, <2>3 DEF TypeOK, WriteIgnored, CallRaises
<1>10. CASE ClaimAnswerLost(t)
  <2>1. thread' \in [Threads -> [pc : ThreadPc, row : Rows, attempt : Nat]]
    BY <1>10, GotoType DEF ClaimAnswerLost
  <2>2. stage' \in [Rows -> StageStatus \cup {"absent"}]
    BY <1>10, PatchStageType DEF ClaimAnswerLost, StageStatus, RunStatus, LiveStatus
  <2>3. snap' \in [Reapers -> {"none", "same", "moved", "reaping"}]
    BY <1>10, TouchType DEF ClaimAnswerLost, PatchStage
  <2>4. faults' \in 0..MaxFaults
    BY <1>10, FaultType DEF ClaimAnswerLost
  <2>5. QED
    BY <1>10, <2>1, <2>2, <2>3, <2>4 DEF TypeOK, ClaimAnswerLost
<1>11. CASE Crash(Host[t])
  <2>1. thread' \in [Threads -> [pc : ThreadPc, row : Rows, attempt : Nat]]
    BY <1>11, IdleType DEF TypeOK, Crash
  <2>2. faults' \in 0..MaxFaults
    BY <1>11, FaultType DEF Crash
  <2>3. QED
    BY <1>11, <2>1, <2>2 DEF TypeOK, Crash
<1>12. QED
  BY <1>1, <1>2, <1>3, <1>4, <1>5, <1>6, <1>7, <1>8, <1>9, <1>10, <1>11 DEF Proceed, ThreadFault

\* The reaper.
LEMMA ReaperType ==
  ASSUME NEW k \in Reapers, TypeOK, JudgeStale(k) \/ ReapRun(k) \/ ReapStages(k) \/ ReapSkipped(k)
  PROVE  TypeOK'
<1>1. CASE JudgeStale(k) \/ ReapRun(k) \/ ReapSkipped(k)
  BY <1>1 DEF TypeOK, JudgeStale, ReapRun, ReapSkipped
<1>2. CASE ReapStages(k)
  <2>1. stage' \in [Rows -> StageStatus \cup {"absent"}]
    BY <1>2 DEF TypeOK, ReapStages, StageStatus, RunStatus
  <2>2. snap' \in [Reapers -> {"none", "same", "moved", "reaping"}]
    BY <1>2 DEF TypeOK, ReapStages, AfterTouch
  <2>3. QED
    BY <1>2, <2>1, <2>2 DEF TypeOK, ReapStages, RunStatus
<1>3. QED
  BY <1>1, <1>2

LEMMA NextType == TypeOK /\ [Next]_vars => TypeOK'
<1> SUFFICES ASSUME TypeOK, [Next]_vars PROVE TypeOK'
  OBVIOUS
<1>1. CASE CreateStep \/ CreateStagesFails
  BY <1>1, CreateType
<1>2. ASSUME NEW q \in Requests, LaunchStep(q) \/ HistoryLost(q) \/ RequestFails(q)
      PROVE  TypeOK'
  BY <1>2, LaunchType
<1>3. ASSUME NEW t \in Threads,
             (\E row \in Rows : FetchQueued(t, row)) \/ Proceed(t) \/ Heartbeat(t) \/ ThreadFault(t)
      PROVE  TypeOK'
  BY <1>3, ThreadType
<1>4. ASSUME NEW k \in Reapers, JudgeStale(k) \/ ReapRun(k) \/ ReapStages(k) \/ ReapSkipped(k)
      PROVE  TypeOK'
  BY <1>4, ReaperType
<1>5. CASE UNCHANGED vars
  BY <1>5 DEF TypeOK, vars
<1>6. QED
  BY <1>1, <1>2, <1>3, <1>4, <1>5 DEF Next

\* Every variable keeps its type, whatever the routes, the workers and the
\* reaper do.
THEOREM TypeCorrect == Spec => []TypeOK
<1>1. Init => TypeOK
  BY InitType
<1>2. TypeOK /\ [Next]_vars => TypeOK'
  BY NextType
<1>3. QED
  BY <1>1, <1>2, PTL DEF Spec


-----------------------------------------------------------------------------
(***************************************************************************)
(* Who executes a stage.  Two kinds of steps matter: a claim, and a step   *)
(* that queues stages; no other step starts an execution or queues a row.  *)
(***************************************************************************)
NoneStarts ==
    \A t \in Threads : Executing(t)' => /\ Executing(t)
                                        /\ thread'[t].row = thread[t].row
                                        /\ thread'[t].attempt = thread[t].attempt

NoneQueued == attempt' = attempt /\ \A row \in Rows : stage'[row] = "queued" => stage[row] = "queued"

Queues == attempt' = attempt + 1

LEMMA GotoStarts ==
  ASSUME TypeOK, NEW t \in Threads, NEW from \in ThreadPc, NEW to \in ThreadPc, Goto(t, from, to),
         to \in InBody => from \in InBody
  PROVE  NoneStarts
BY DEF TypeOK, Goto, NoneStarts, Executing, Idle, InBody

LEMMA PatchQueues ==
  ASSUME TypeOK, NEW t \in Threads, NEW status, status # "queued", PatchStage(t, status),
         attempt' = attempt
  PROVE  NoneQueued
BY DEF TypeOK, PatchStage, NoneQueued

LEMMA ThreadKind ==
  ASSUME NEW t \in Threads, TypeOK,
         (\E row \in Rows : FetchQueued(t, row)) \/ Proceed(t) \/ Heartbeat(t) \/ ThreadFault(t)
  PROVE  NoneQueued /\ (NoneStarts \/ ClaimStage(t))
<1> USE DEF ThreadPc, InBody
<1>1. CASE \E row \in Rows : FetchQueued(t, row)
  BY <1>1 DEF TypeOK, FetchQueued, NoneStarts, NoneQueued, Executing
<1>2. CASE \/ ClassifyReadiness(t) \/ LoseClaim(t) \/ MarkRunRunning(t) \/ FinishBody(t)
           \/ RaiseInBody(t) \/ FailRun(t) \/ CheckRunComplete(t) \/ CompleteRun(t)
  <2>1. PICK from \in ThreadPc, to \in ThreadPc : Goto(t, from, to) /\ (to \in InBody => from \in InBody)
    BY <1>2 DEF ClassifyReadiness, LoseClaim, MarkRunRunning, FinishBody, RaiseInBody, FailRun,
                CheckRunComplete, CompleteRun
  <2>2. NoneStarts
    BY <2>1, GotoStarts
  <2>3. UNCHANGED <<stage, attempt>>
    BY <1>2 DEF ClassifyReadiness, LoseClaim, MarkRunRunning, FinishBody, RaiseInBody, FailRun,
                CheckRunComplete, CompleteRun
  <2>4. QED
    BY <2>2, <2>3 DEF NoneQueued
<1>3. CASE MarkStageSkipped(t) \/ SucceedStage(t) \/ FailStage(t)
  <2>1. PICK from \in ThreadPc, to \in ThreadPc : Goto(t, from, to) /\ (to \in InBody => from \in InBody)
    BY <1>3 DEF MarkStageSkipped, SucceedStage, FailStage
  <2>2. PICK status \in {"skipped", "succeeded", "failed"} : PatchStage(t, status)
    BY <1>3 DEF MarkStageSkipped, SucceedStage, FailStage
  <2>3. NoneStarts
    BY <2>1, GotoStarts
  <2>4. NoneQueued
    BY <1>3, <2>2, PatchQueues DEF MarkStageSkipped, SucceedStage, FailStage
  <2>5. QED
    BY <2>3, <2>4
<1>4. CASE ClaimStage(t)
  BY <1>4, PatchQueues DEF ClaimStage
<1>5. CASE Heartbeat(t)
  BY <1>5 DEF Heartbeat, NoneStarts, NoneQueued, Executing
<1>6. CASE WriteIgnored(t) \/ CallRaises(t)
  <2>1. PICK from \in ThreadPc, to \in ThreadPc : Goto(t, from, to) /\ (to \in InBody => from \in InBody)
    <3>1. CASE WriteIgnored(t)
      BY <3>1 DEF WriteIgnored, AfterIgnored
    <3>2. CASE CallRaises(t)
      <4>1. PICK from \in ThreadPc \ {"idle", "exec"} :
               Goto(t, from, IF InTry(t) THEN "failstage" ELSE "idle")
        BY <3>2 DEF CallRaises
      <4>2. thread[t].pc = from
        BY <4>1 DEF Goto
      <4>3. InTry(t) => from \in InBody
        BY <4>2 DEF InTry
      <4>4. QED
        BY <4>1, <4>3
    <3>3. QED
      BY <1>6, <3>1, <3>2
  <2>2. NoneStarts
    BY <2>1, GotoStarts
  <2>3. QED
    BY <1>6, <2>2 DEF WriteIgnored, CallRaises, NoneQueued
<1>7. CASE ClaimAnswerLost(t)
  <2>1. NoneStarts
    BY <1>7, GotoStarts DEF ClaimAnswerLost
  <2>2. NoneQueued
    BY <1>7, PatchQueues DEF ClaimAnswerLost
  <2>3. QED
    BY <2>1, <2>2
<1>8. CASE Crash(Host[t])
  BY <1>8 DEF TypeOK, Crash, NoneStarts, NoneQueued, Executing, Idle
<1>9. QED
  BY <1>1, <1>2, <1>3, <1>4, <1>5, <1>6, <1>7, <1>8 DEF Proceed, ThreadFault

LEMMA NextKind ==
  TypeOK /\ [Next]_vars => \/ NoneStarts /\ (NoneQueued \/ Queues)
                           \/ NoneQueued /\ \E t \in Threads : ClaimStage(t)
<1> SUFFICES ASSUME TypeOK, [Next]_vars
             PROVE  \/ NoneStarts /\ (NoneQueued \/ Queues)
                    \/ NoneQueued /\ \E t \in Threads : ClaimStage(t)
  OBVIOUS
<1>1. CASE CreateStep \/ CreateStagesFails
  BY <1>1 DEF CreateStep, CreateRun, CreateStages, CreateStagesFails, QueueRowsOf,
              NoneStarts, NoneQueued, Queues, Executing
<1>2. ASSUME NEW q \in Requests, LaunchStep(q) \/ HistoryLost(q) \/ RequestFails(q)
      PROVE  NoneStarts /\ (NoneQueued \/ Queues)
  BY <1>2 DEF LaunchStep, ReadRun, ReadFailureCount, WriteFailureHistory, Requeue, ReadStages,
              InsertStages, ResetStages, ClearOutputs, HistoryLost, RequestFails, QueueRowsOf,
              NoneStarts, NoneQueued, Queues, Executing
<1>3. ASSUME NEW t \in Threads,
             (\E row \in Rows : FetchQueued(t, row)) \/ Proceed(t) \/ Heartbeat(t) \/ ThreadFault(t)
      PROVE  NoneQueued /\ (NoneStarts \/ ClaimStage(t))
  BY <1>3, ThreadKind
<1>4. ASSUME NEW k \in Reapers, JudgeStale(k) \/ ReapRun(k) \/ ReapStages(k) \/ ReapSkipped(k)
      PROVE  NoneStarts /\ NoneQueued
  BY <1>4 DEF TypeOK, JudgeStale, ReapRun, ReapStages, ReapSkipped, NoneStarts, NoneQueued, Executing
<1>5. CASE UNCHANGED vars
  BY <1>5 DEF vars, NoneStarts, NoneQueued, Executing
<1>6. QED
  BY <1>1, <1>2, <1>3, <1>4, <1>5 DEF Next

-----------------------------------------------------------------------------
(***************************************************************************)
(* A thread that executes a row in the current attempt holds that row out  *)
(* of the queue, so that nobody else can claim it before it is queued      *)
(* again, which starts a new attempt.                                      *)
(***************************************************************************)
AttemptInv ==
    \A t \in Threads : Executing(t) =>
        /\ thread[t].attempt <= attempt
        /\ thread[t].attempt = attempt => stage[thread[t].row] # "queued"

LEMMA AttemptStep == TypeOK /\ AttemptInv /\ [Next]_vars => AttemptInv'
<1> SUFFICES ASSUME TypeOK, AttemptInv, [Next]_vars, NEW t \in Threads, Executing(t)'
             PROVE  /\ thread'[t].attempt <= attempt'
                    /\ thread'[t].attempt = attempt' => stage'[thread'[t].row] # "queued"
  BY DEF AttemptInv
<1>1. thread[t].attempt \in Nat /\ thread[t].row \in Rows /\ attempt \in Nat
  BY DEF TypeOK
<1>2. CASE NoneStarts /\ NoneQueued
  BY <1>1, <1>2 DEF AttemptInv, NoneStarts, NoneQueued
<1>3. CASE NoneStarts /\ Queues
  BY <1>1, <1>3 DEF AttemptInv, NoneStarts, Queues
<1>4. ASSUME NEW u \in Threads, ClaimStage(u), NoneQueued
      PROVE  /\ thread'[t].attempt <= attempt'
             /\ thread'[t].attempt = attempt' => stage'[thread'[t].row] # "queued"
  <2>1. CASE t = u
    BY <1>1, <1>4, <2>1 DEF TypeOK, ClaimStage, PatchStage
  <2>2. CASE t # u
    <3>1. thread'[t] = thread[t] /\ Executing(t)
      BY <1>4, <2>2 DEF TypeOK, ClaimStage, Executing
    <3>2. QED
      BY <1>1, <1>4, <3>1 DEF AttemptInv, NoneQueued
  <2>3. QED
    BY <2>1, <2>2
<1>5. QED
  BY <1>2, <1>3, <1>4, NextKind

LEMMA ExecutorStep ==
  TypeOK /\ AttemptInv /\ OneExecutorPerAttempt /\ [Next]_vars => OneExecutorPerAttempt'
<1> SUFFICES ASSUME TypeOK, AttemptInv, OneExecutorPerAttempt, [Next]_vars,
                    NEW t \in Threads, NEW u \in Threads, Executing(t)', Executing(u)',
                    thread'[t].row = thread'[u].row, thread'[t].attempt = thread'[u].attempt
             PROVE  t = u
  BY DEF OneExecutorPerAttempt, SameRow
<1>1. CASE NoneStarts
  BY <1>1 DEF NoneStarts, OneExecutorPerAttempt, SameRow
<1>2. ASSUME NEW v \in Threads, ClaimStage(v)
      PROVE  t = u
  <2>1. /\ thread'[v].row = thread[v].row
        /\ thread'[v].attempt = attempt
        /\ stage[thread[v].row] = "queued"
    BY <1>2 DEF TypeOK, ClaimStage
  <2>2. \A w \in Threads : w # v => /\ thread'[w] = thread[w]
                                    /\ Executing(w)' => Executing(w)
    BY <1>2 DEF TypeOK, ClaimStage, Executing
  <2>3. CASE t # v /\ u # v
    BY <2>2, <2>3 DEF OneExecutorPerAttempt, SameRow
  <2>4. CASE t = v /\ u # v
    BY <2>1, <2>2, <2>4 DEF AttemptInv
  <2>5. CASE t # v /\ u = v
    BY <2>1, <2>2, <2>5 DEF AttemptInv
  <2>6. QED
    BY <2>3, <2>4, <2>5
<1>3. QED
  BY <1>1, <1>2, NextKind

\* Between two queueings of a stage at most one thread executes it, for any
\* number of workers, requests, reapers and faults: the claim of sb_claim_stage
\* is exclusive until a relaunch.
THEOREM ExecutorIsUnique == Spec => []OneExecutorPerAttempt
<1>1. Init => AttemptInv /\ OneExecutorPerAttempt
  BY DEF Init, AttemptInv, OneExecutorPerAttempt, Executing, Idle, InBody
<1>2. QED
  BY <1>1, AttemptStep, ExecutorStep, TypeCorrect, PTL DEF Spec

LEMMA SerialStep == TypeOK /\ OneStagePerProcess /\ [Next]_vars => OneStagePerProcess'
<1> SUFFICES ASSUME TypeOK, OneStagePerProcess, [Next]_vars,
                    NEW t \in Threads, NEW u \in Threads, Executing(t)', Executing(u)',
                    Host[t] = Host[u]
             PROVE  t = u
  BY DEF OneStagePerProcess
<1>1. CASE NoneStarts
  BY <1>1 DEF NoneStarts, OneStagePerProcess
<1>2. ASSUME NEW v \in Threads, ClaimStage(v)
      PROVE  t = u
  <2>1. \A w \in Threads : w # v => (Executing(w)' => Executing(w))
    BY <1>2 DEF TypeOK, ClaimStage, Executing
  <2>2. \A w \in Threads \ {v} : Host[w] = Host[v] => ~Executing(w)
    BY <1>2 DEF ClaimStage, LockFree
  <2>3. QED
    BY <2>1, <2>2 DEF OneStagePerProcess
<1>3. QED
  BY <1>1, <1>2, NextKind

\* A process executes one stage at a time, for any number of threads in it:
\* what _STAGE_EXECUTION_LOCK is for.
THEOREM ProcessIsSerial == Spec => []OneStagePerProcess
<1>1. Init => OneStagePerProcess
  BY DEF Init, OneStagePerProcess, Executing, Idle, InBody
<1>2. QED
  BY <1>1, SerialStep, TypeCorrect, PTL DEF Spec

=============================================================================
