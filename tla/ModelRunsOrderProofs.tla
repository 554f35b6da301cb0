------------------------ MODULE ModelRunsOrderProofs ------------------------
(***************************************************************************)
(* The order of the stages in the first attempt of a run, what its status  *)
(* then says about them, and that a relaunch leaves work to do: the three  *)
(* invariants of ModelRuns that relate the run row, the stage rows and the *)
(* output rows, for every number of stages, threads and processes.         *)
(***************************************************************************)
EXTENDS ModelRunsProofs

USE StagesAssumption, WorkerAssumption, CreatorAssumption, FaultAssumption

-----------------------------------------------------------------------------
(***************************************************************************)
(* Who may still decide a row: a thread that claimed it and has not yet    *)
(* written how it ended.  A row that failed or was skipped, and that       *)
(* nobody decides any more, keeps that status for the rest of the attempt. *)
(***************************************************************************)
Deciding == {"mark", "exec", "succeed", "failstage"}
Decides(t, row) == thread[t].pc \in Deciding /\ thread[t].row = row
Undecided(row) == \A t \in Threads : ~Decides(t, row)
Doomed(row) == stage[row] \in {"failed", "skipped"} /\ Undecided(row)

\* No relaunch has queued stages: there are the rows of the create request
\* alone, and they were queued once.
OnlyFirst == /\ attempt <= 1
             /\ \A row \in Rows : row[1] # Creator => stage[row] = "absent"

\* A completion check inside the try block (the ActivitySim worker) turns a
\* call that is lost after the stage succeeded into a failure of that stage.
FirstAttempt == OnlyFirst /\ (ChecksInTry = {} \/ faults = 0)

\* Rows come with the first queueing, and a thread or a relaunch that is under
\* way has seen some.
RowsAndAttempts ==
    /\ attempt = 0 => /\ \A row \in Rows : stage[row] = "absent"
                      /\ \A t \in Threads : thread[t].pc = "idle"
    /\ \A t \in Threads : thread[t].pc # "idle" => stage[thread[t].row] # "absent"
    /\ \A q \in Requests : /\ request[q].pc = "reset" => attempt >= 1
                           /\ request[q].pc = "clear" => ~OnlyFirst
    /\ attempt = 1 /\ OnlyFirst => /\ creator = "done"
                                   /\ \A ord \in Ords : stage[<<Creator, ord>>] # "absent"

FirstClaims == \A t \in Threads : Executing(t) => thread[t].attempt = 1

\* A row that is being decided is running, unless a reaper failed it, and with
\* it every row that was still queued.
DecidersWork ==
    \A t \in Threads : thread[t].pc \in Deciding =>
        \/ stage[thread[t].row] = "running"
        \/ /\ Reapers # {}
           /\ stage[thread[t].row] = "failed"
           /\ \A row \in Rows : stage[row] # "queued"

ClaimersReady == \A t \in Threads : thread[t].pc = "claim" => Ready(thread[t].row)

\* A row that is about to be skipped will never be claimed.
SkippersBlocked ==
    \A t \in Threads : thread[t].pc = "skip" =>
        /\ Undecided(thread[t].row)
        /\ stage[thread[t].row] # "succeeded"
        /\ \/ \E row \in Earlier(thread[t].row) : Doomed(row)
           \/ Reapers # {} /\ stage[thread[t].row] # "queued"

CompletersRight ==
    (run = "succeeded" \/ \E t \in Threads : thread[t].pc = "complete")
        => AllStagesSucceeded /\ attempt = 1

Registered(row) == Ord(row) \in WritingOrds => <<Ord(row), 1>> \in outputs

OutputsThere ==
    /\ \A row \in Inserted : stage[row] = "succeeded" => Registered(row)
    /\ \A t \in Threads : thread[t].pc = "succeed" => Registered(thread[t].row)

FirstInv ==
    FirstAttempt => /\ FirstClaims
                    /\ DecidersWork
                    /\ ClaimersReady
                    /\ SkippersBlocked
                    /\ StagesInOrder
                    /\ CompletersRight
                    /\ OutputsThere

-----------------------------------------------------------------------------
(***************************************************************************)
(* Rows and attempts.                                                      *)
(***************************************************************************)
\* What a step of a thread leaves alone, and which rows it works on.
ThreadWork ==
    /\ UNCHANGED <<attempt, creator, request>>
    /\ \A row \in Rows : stage'[row] = "absent" <=> stage[row] = "absent"
    /\ \A t \in Threads : thread'[t].pc # "idle" => stage[thread'[t].row] # "absent"

LEMMA GotoWork ==
  ASSUME TypeOK, RowsAndAttempts, NEW t \in Threads, NEW from, NEW to,
         from # "idle", Goto(t, from, to)
  PROVE  /\ stage[thread[t].row] # "absent"
         /\ \A u \in Threads : thread'[u].pc # "idle" => stage[thread'[u].row] # "absent"
BY DEF TypeOK, RowsAndAttempts, Goto, Idle

LEMMA ThreadWorks ==
  ASSUME NEW t \in Threads, TypeOK, RowsAndAttempts,
         (\E row \in Rows : FetchQueued(t, row)) \/ Proceed(t) \/ Heartbeat(t) \/ ThreadFault(t)
  PROVE  ThreadWork
<1>1. CASE \E row \in Rows : FetchQueued(t, row)
  BY <1>1 DEF TypeOK, RowsAndAttempts, FetchQueued, ThreadWork
<1>2. CASE \/ ClassifyReadiness(t) \/ LoseClaim(t) \/ MarkRunRunning(t) \/ FinishBody(t)
           \/ RaiseInBody(t) \/ FailRun(t) \/ CheckRunComplete(t) \/ CompleteRun(t)
  <2>1. PICK from \in ThreadPc \ {"idle"}, to \in ThreadPc : Goto(t, from, to)
    BY <1>2 DEF ClassifyReadiness, LoseClaim, MarkRunRunning, FinishBody, RaiseInBody, FailRun,
                CheckRunComplete, CompleteRun, ThreadPc, InBody
  <2>2. UNCHANGED <<stage, attempt, creator, request>>
    BY <1>2 DEF ClassifyReadiness, LoseClaim, MarkRunRunning, FinishBody, RaiseInBody, FailRun,
                CheckRunComplete, CompleteRun
  <2>3. QED
    BY <2>1, <2>2, GotoWork DEF ThreadWork
<1>3. CASE MarkStageSkipped(t) \/ SucceedStage(t) \/ FailStage(t) \/ ClaimAnswerLost(t)
  <2>1. PICK from \in ThreadPc \ {"idle"}, to \in ThreadPc : Goto(t, from, to)
    BY <1>3 DEF MarkStageSkipped, SucceedStage, FailStage, ClaimAnswerLost, ThreadPc, InBody
  <2>2. PICK status \in {"skipped", "succeeded", "failed", "running"} : PatchStage(t, status)
    BY <1>3 DEF MarkStageSkipped, SucceedStage, FailStage, ClaimAnswerLost
  <2>3. UNCHANGED <<attempt, creator, request>>
    BY <1>3 DEF MarkStageSkipped, SucceedStage, FailStage, ClaimAnswerLost
  <2>4. QED
    BY <2>1, <2>2, <2>3, GotoWork DEF ThreadWork, PatchStage, TypeOK
<1>4. CASE ClaimStage(t)
  BY <1>4 DEF TypeOK, RowsAndAttempts, ClaimStage, PatchStage, ThreadWork
<1>5. CASE Heartbeat(t)
  BY <1>5 DEF Heartbeat, ThreadWork, RowsAndAttempts
<1>6. CASE WriteIgnored(t) \/ CallRaises(t)
  <2>1. PICK from \in ThreadPc \ {"idle"}, to \in ThreadPc : Goto(t, from, to)
    BY <1>6 DEF WriteIgnored, CallRaises, AfterIgnored, ThreadPc, InBody
  <2>2. UNCHANGED <<stage, attempt, creator, request>>
    BY <1>6 DEF WriteIgnored, CallRaises
  <2>3. QED
    BY <2>1, <2>2, GotoWork DEF ThreadWork
<1>7. CASE Crash(Host[t])
  BY <1>7 DEF TypeOK, RowsAndAttempts, Crash, Idle, ThreadWork
<1>8. QED
  BY <1>1, <1>2, <1>3, <1>4, <1>5, <1>6, <1>7 DEF Proceed, ThreadFault

LEMMA WorkKeepsRows ==
  ASSUME TypeOK, TypeOK', RowsAndAttempts, ThreadWork
  PROVE  RowsAndAttempts'
<1>1. OnlyFirst' <=> OnlyFirst
  BY DEF ThreadWork, OnlyFirst
<1>2. \A ord \in Ords : <<Creator, ord>> \in Rows
  BY DEF Rows, Inserters
<1>3. \A t \in Threads : thread'[t].row \in Rows
  BY DEF TypeOK
<1>4. QED
  BY <1>1, <1>2, <1>3 DEF ThreadWork, RowsAndAttempts

LEMMA RowsInit == Init => RowsAndAttempts
BY DEF Init, RowsAndAttempts, Idle

LEMMA RowsStep == TypeOK /\ TypeOK' /\ RowsAndAttempts /\ [Next]_vars => RowsAndAttempts'
<1> SUFFICES ASSUME TypeOK, TypeOK', RowsAndAttempts, [Next]_vars PROVE RowsAndAttempts'
  OBVIOUS
<1>1. CASE CreateRun \/ CreateStagesFails
  BY <1>1 DEF TypeOK, CreateRun, CreateStagesFails, RowsAndAttempts, OnlyFirst
<1>2. CASE CreateStages
  <2>1. /\ attempt' = attempt + 1
        /\ creator' = "done"
        /\ UNCHANGED <<thread, request>>
        /\ \A row \in Rows : stage'[row] = IF row[1] = Creator THEN "queued" ELSE stage[row]
    BY <1>2 DEF CreateStages, QueueRowsOf
  <2>2. \A ord \in Ords : <<Creator, ord>> \in Rows
    BY DEF Rows, Inserters
  <2>3. attempt \in Nat /\ \A t \in Threads : thread[t].row \in Rows
    BY DEF TypeOK
  <2>4. ~OnlyFirst => ~OnlyFirst'
    BY <2>1, <2>3 DEF OnlyFirst
  <2>5. QED
    BY <2>1, <2>2, <2>3, <2>4 DEF RowsAndAttempts
<1>3. ASSUME NEW q \in Requests, LaunchStep(q) \/ HistoryLost(q) \/ RequestFails(q)
      PROVE  RowsAndAttempts'
  <2>1. attempt \in Nat /\ \A t \in Threads : thread[t].row \in Rows
    BY DEF TypeOK
  <2>2. CASE InsertStages(q)
    <3>1. /\ attempt' = attempt + 1
          /\ UNCHANGED <<thread, creator>>
          /\ \A row \in Rows : stage'[row] = IF row[1] = q THEN "queued" ELSE stage[row]
          /\ \A p \in Requests : request'[p].pc = IF p = q THEN "clear" ELSE request[p].pc
      BY <2>2 DEF InsertStages, QueueRowsOf, RequestStep, TypeOK
    <3>2. <<q, 1>> \in Rows /\ q # Creator
      BY DEF Rows, Inserters, Ords
    <3>3. ~OnlyFirst'
      BY <3>1, <3>2 DEF OnlyFirst
    <3>4. QED
      BY <2>1, <3>1, <3>3 DEF RowsAndAttempts
  <2>3. CASE ResetStages(q)
    <3>1. /\ attempt' = attempt + 1
          /\ UNCHANGED <<thread, creator>>
          /\ \A row \in Rows : stage'[row] = IF stage[row] = "absent" THEN "absent" ELSE "queued"
          /\ \A p \in Requests : request'[p].pc = IF p = q THEN "clear" ELSE request[p].pc
      BY <2>3 DEF ResetStages, RequestStep, TypeOK
    <3>2. attempt >= 1
      BY <2>3 DEF ResetStages, RequestStep, RowsAndAttempts
    <3>3. ~OnlyFirst'
      BY <2>1, <3>1, <3>2 DEF OnlyFirst
    <3>4. QED
      BY <2>1, <3>1, <3>2, <3>3 DEF RowsAndAttempts
  <2>4. CASE ~(InsertStages(q) \/ ResetStages(q))
    <3>1. UNCHANGED <<thread, creator, stage, attempt>>
      BY <1>3, <2>4 DEF LaunchStep, HistoryLost, RequestFails, ReadRun, ReadFailureCount,
                        WriteFailureHistory, Requeue, ReadStages, ClearOutputs
    <3>2. \A p \in Requests : /\ request'[p].pc = "clear" => request[p].pc = "clear"
                              /\ request'[p].pc = "reset" => request[p].pc = "reset" \/ Inserted # {}
      BY <1>3, <2>4 DEF LaunchStep, HistoryLost, RequestFails, ReadRun, ReadFailureCount, TypeOK,
                        WriteFailureHistory, Requeue, ReadStages, ClearOutputs, RequestStep
    <3>3. Inserted # {} => attempt >= 1
      BY <2>1 DEF RowsAndAttempts, Inserted
    <3>4. OnlyFirst' <=> OnlyFirst
      BY <3>1 DEF OnlyFirst
    <3>5. QED
      BY <3>1, <3>2, <3>3, <3>4 DEF RowsAndAttempts
  <2>5. QED
    BY <2>2, <2>3, <2>4
<1>4. ASSUME NEW t \in Threads,
             (\E row \in Rows : FetchQueued(t, row)) \/ Proceed(t) \/ Heartbeat(t) \/ ThreadFault(t)
      PROVE  RowsAndAttempts'
  BY <1>4, ThreadWorks, WorkKeepsRows
<1>5. ASSUME NEW k \in Reapers, JudgeStale(k) \/ ReapRun(k) \/ ReapStages(k) \/ ReapSkipped(k)
      PROVE  RowsAndAttempts'
  <2>1. UNCHANGED <<thread, attempt, creator, request>>
    BY <1>5 DEF JudgeStale, ReapRun, ReapStages, ReapSkipped
  <2>2. \A row \in Rows : stage'[row] = "absent" <=> stage[row] = "absent"
    BY <1>5 DEF JudgeStale, ReapRun, ReapStages, ReapSkipped, LiveStatus
  <2>3. QED
    BY <2>1, <2>2, WorkKeepsRows DEF ThreadWork, RowsAndAttempts
<1>6. CASE UNCHANGED vars
  BY <1>6 DEF vars, RowsAndAttempts, OnlyFirst
<1>7. QED
  BY <1>1, <1>2, <1>3, <1>4, <1>5, <1>6 DEF Next, CreateStep

-----------------------------------------------------------------------------
(***************************************************************************)
(* The steps of a first attempt, by what they do to the stages.            *)
(***************************************************************************)
Alone(t) ==
    /\ \A u \in Threads \ {t} : thread'[u] = thread[u]
    /\ \A row \in Rows \ {thread[t].row} : stage'[row] = stage[row]
    /\ UNCHANGED <<run, outputs, attempt>>

SameWork(t) == thread'[t].row = thread[t].row /\ thread'[t].attempt = thread[t].attempt

\* The row is taken from the queue, the answer seen or lost.
Takes(t) ==
    /\ Alone(t)
    /\ thread[t].pc = "claim"
    /\ stage[thread[t].row] = "queued"
    /\ stage'[thread[t].row] = "running"
    /\ \/ thread'[t].pc = "idle"
       \/ /\ thread'[t].pc = "mark"
          /\ thread'[t].row = thread[t].row
          /\ thread'[t].attempt = attempt

Settles(t) ==
    /\ Alone(t)
    /\ SameWork(t)
    /\ \/ thread[t].pc = "succeed" /\ thread'[t].pc = "check" /\ stage'[thread[t].row] = "succeeded"
       \/ thread[t].pc = "failstage" /\ thread'[t].pc = "failrun" /\ stage'[thread[t].row] = "failed"

Skips(t) ==
    /\ Alone(t)
    /\ thread[t].pc = "skip"
    /\ thread'[t].pc = "idle"
    /\ stage'[thread[t].row] = "skipped"

Reaps ==
    /\ Reapers # {}
    /\ UNCHANGED <<thread, outputs, attempt>>
    /\ run' = "failed"
    /\ stage' = [row \in Rows |-> IF stage[row] \in LiveStatus THEN "failed" ELSE stage[row]]

\* A thread stays where it is, gives up or begins anew, or goes on with the
\* same row in the order of the code.
GoesOn(t) ==
    \/ thread'[t] = thread[t]
    \/ thread'[t].pc \in {"idle", "classify"}
    \/ /\ SameWork(t)
       /\ thread'[t].pc \in Deciding => thread[t].pc \in Deciding
       /\ thread'[t].pc \in InBody => thread[t].pc \in InBody
       /\ thread'[t].pc = "claim" => Ready(thread[t].row)
       /\ thread'[t].pc = "skip" => BlockedTerminal(thread[t].row)
       /\ thread'[t].pc = "complete" => thread[t].pc = "check" /\ AllStagesSucceeded
       /\ thread'[t].pc = "succeed" => Registered(thread[t].row)'

NoStageWritten ==
    /\ UNCHANGED <<stage, attempt>>
    /\ outputs \subseteq outputs'
    /\ run' = "succeeded" => run = "succeeded" \/ \E t \in Threads : thread[t].pc = "complete"
    /\ \A t \in Threads : GoesOn(t)

LEMMA GotoAlone ==
  ASSUME TypeOK, NEW t \in Threads, NEW from, NEW to, Goto(t, from, to)
  PROVE  /\ thread[t].pc = from
         /\ \A u \in Threads \ {t} : thread'[u] = thread[u]
         /\ thread'[t].pc = to
         /\ to # "idle" => SameWork(t)
BY DEF TypeOK, Goto, Idle, SameWork, ThreadPc

LEMMA ThreadFirst ==
  ASSUME NEW t \in Threads, TypeOK, FirstClaims, ChecksInTry = {} \/ faults' = 0, TypeOK',
         (\E row \in Rows : FetchQueued(t, row)) \/ Proceed(t) \/ Heartbeat(t) \/ ThreadFault(t)
  PROVE  NoStageWritten \/ Takes(t) \/ Settles(t) \/ Skips(t)
<1> USE DEF ThreadPc, InBody, Deciding
<1>1. CASE \E row \in Rows : FetchQueued(t, row)
  BY <1>1 DEF TypeOK, FetchQueued, NoStageWritten, GoesOn
<1>2. CASE Heartbeat(t)
  BY <1>2 DEF Heartbeat, NoStageWritten, GoesOn
<1>3. CASE ClassifyReadiness(t)
  <2>1. PICK to \in {"skip", "claim", "idle"} :
           /\ Goto(t, "classify", to)
           /\ to = "skip" => BlockedTerminal(thread[t].row)
           /\ to = "claim" => Ready(thread[t].row)
    BY <1>3 DEF ClassifyReadiness
  <2>2. QED
    BY <1>3, <2>1, GotoAlone DEF ClassifyReadiness, NoStageWritten, GoesOn
<1>4. CASE LoseClaim(t) \/ MarkRunRunning(t) \/ RaiseInBody(t) \/ FailRun(t) \/ CompleteRun(t)
  <2>1. PICK from \in ThreadPc, to \in {"idle", "exec", "failstage"} :
           /\ Goto(t, from, to)
           /\ to # "idle" => from \in Deciding
           /\ run' = "succeeded" => run = "succeeded" \/ from = "complete"
    BY <1>4 DEF LoseClaim, MarkRunRunning, RaiseInBody, FailRun, CompleteRun, PatchRun
  <2>2. UNCHANGED <<stage, attempt>> /\ outputs \subseteq outputs'
    BY <1>4 DEF LoseClaim, MarkRunRunning, RaiseInBody, FailRun, CompleteRun, Written
  <2>3. QED
    BY <2>1, <2>2, GotoAlone DEF NoStageWritten, GoesOn
<1>5. CASE FinishBody(t)
  <2>1. Goto(t, "exec", "succeed") /\ UNCHANGED <<stage, attempt, run>> /\ outputs' = Written(t)
    BY <1>5 DEF FinishBody
  <2>2. thread[t].pc = "exec" /\ SameWork(t) /\ thread'[t].pc = "succeed"
        /\ \A u \in Threads \ {t} : thread'[u] = thread[u]
    BY <2>1, GotoAlone
  <2>3. Ord(thread[t].row) \in WritingOrds => <<Ord(thread[t].row), 1>> \in outputs'
    BY <2>1, <2>2 DEF FirstClaims, Executing, Written
  <2>4. Registered(thread[t].row)'
    BY <2>2, <2>3 DEF SameWork, Registered
  <2>5. outputs \subseteq outputs'
    BY <2>1 DEF Written
  <2>6. QED
    BY <2>1, <2>2, <2>4, <2>5 DEF NoStageWritten, GoesOn
<1>6. CASE CheckRunComplete(t)
  <2>1. PICK to \in {"complete", "idle"} : Goto(t, "check", to) /\ (to = "complete" => AllStagesSucceeded)
    BY <1>6 DEF CheckRunComplete
  <2>2. QED
    BY <1>6, <2>1, GotoAlone DEF CheckRunComplete, NoStageWritten, GoesOn
<1>7. CASE MarkStageSkipped(t)
  BY <1>7, GotoAlone DEF MarkStageSkipped, PatchStage, Skips, Alone, TypeOK
<1>8. CASE SucceedStage(t) \/ FailStage(t)
  BY <1>8, GotoAlone DEF SucceedStage, FailStage, PatchStage, Settles, Alone, TypeOK
<1>9. CASE ClaimStage(t)
  BY <1>9 DEF ClaimStage, PatchStage, Takes, Alone, TypeOK
<1>10. CASE ClaimAnswerLost(t)
  BY <1>10, GotoAlone DEF ClaimAnswerLost, PatchStage, Takes, Alone, TypeOK
<1>11. CASE WriteIgnored(t)
  <2>1. PICK from \in ThreadPc, to \in ThreadPc \ {"claim", "skip", "complete", "succeed"} :
           /\ Goto(t, from, to)
           /\ to \in Deciding => from \in Deciding
           /\ to \in InBody => from \in InBody
    BY <1>11 DEF WriteIgnored, AfterIgnored
  <2>2. QED
    BY <1>11, <2>1, GotoAlone DEF WriteIgnored, NoStageWritten, GoesOn
<1>12. CASE CallRaises(t)
  <2>1. ChecksInTry = {}
    BY <1>12 DEF CallRaises, Fault, TypeOK
  <2>2. PICK from \in ThreadPc, to \in {"failstage", "idle"} :
           Goto(t, from, to) /\ (to = "failstage" => thread[t].pc = "succeed")
    BY <1>12, <2>1 DEF CallRaises, InTry
  <2>3. QED
    BY <1>12, <2>2, GotoAlone DEF CallRaises, NoStageWritten, GoesOn
<1>13. CASE Crash(Host[t])
  BY <1>13 DEF TypeOK, Crash, Idle, NoStageWritten, GoesOn
<1>14. QED
  BY <1>1, <1>2, <1>3, <1>4, <1>5, <1>6, <1>7, <1>8, <1>9, <1>10, <1>11, <1>12, <1>13
     DEF Proceed, ThreadFault

\* A first attempt was one before the step, and no relaunch made the step
\* that queues stages or deletes outputs.
LEMMA FirstKind ==
  ASSUME TypeOK, TypeOK', RowsAndAttempts, RowsAndAttempts', FirstAttempt', [Next]_vars,
         FirstAttempt => FirstClaims
  PROVE  /\ FirstAttempt
         /\ \/ CreateStages
            \/ NoStageWritten
            \/ Reaps
            \/ \E t \in Threads : Takes(t) \/ Settles(t) \/ Skips(t)
<1>1. CASE CreateRun \/ CreateStagesFails
  <2>1. UNCHANGED <<stage, attempt, outputs, thread>> /\ (run' # "succeeded" \/ run' = run)
    BY <1>1 DEF CreateRun, CreateStagesFails, PatchRun
  <2>2. ChecksInTry = {} \/ faults = 0
    BY <1>1 DEF TypeOK, FirstAttempt, CreateRun, CreateStagesFails, Fault
  <2>3. QED
    BY <2>1, <2>2 DEF FirstAttempt, OnlyFirst, NoStageWritten, GoesOn
<1>2. CASE CreateStages
  <2>1. attempt \in Nat /\ attempt' = attempt + 1 /\ faults' = faults
    BY <1>2 DEF CreateStages, QueueRowsOf, TypeOK
  <2>2. \A row \in Rows : row[1] # Creator => stage'[row] = stage[row]
    BY <1>2 DEF CreateStages, QueueRowsOf
  <2>3. QED
    BY <1>2, <2>1, <2>2 DEF FirstAttempt, OnlyFirst
<1>3. ASSUME NEW q \in Requests, LaunchStep(q) \/ HistoryLost(q) \/ RequestFails(q)
      PROVE  FirstAttempt /\ NoStageWritten
  <2>1. attempt \in Nat /\ faults \in Nat /\ faults' \in Nat
    BY DEF TypeOK
  <2>2. request[q].pc = "clear" => ~OnlyFirst
    BY DEF RowsAndAttempts
  <2>3. ~OnlyFirst => ~OnlyFirst'
    BY <1>3, <2>1 DEF OnlyFirst, LaunchStep, ReadRun, ReadFailureCount, WriteFailureHistory, Requeue,
          ReadStages, InsertStages, ResetStages, ClearOutputs, HistoryLost, RequestFails, QueueRowsOf
  <2>4. request'[q].pc = "clear" => ~OnlyFirst'
    BY DEF RowsAndAttempts
  <2>5. ~InsertStages(q) /\ ~ResetStages(q) /\ ~ClearOutputs(q) /\ request[q].pc # "clear"
    BY <2>2, <2>3, <2>4 DEF FirstAttempt, InsertStages, ResetStages, ClearOutputs, RequestStep, TypeOK
  <2>6. UNCHANGED <<stage, attempt, outputs, thread>> /\ (run' = run \/ run' = "queued")
    BY <1>3, <2>5 DEF LaunchStep, ReadRun, ReadFailureCount, WriteFailureHistory, Requeue, ReadStages,
                      HistoryLost, RequestFails, PatchRun
  <2>7. faults' = 0 => faults = 0
    BY <1>3, <2>1, <2>5 DEF LaunchStep, ReadRun, ReadFailureCount, WriteFailureHistory, Requeue, ReadStages,
                      HistoryLost, RequestFails, Fault
  <2>8. QED
    BY <2>3, <2>6, <2>7 DEF FirstAttempt, NoStageWritten, GoesOn
<1>4. ASSUME NEW t \in Threads,
             (\E row \in Rows : FetchQueued(t, row)) \/ Proceed(t) \/ Heartbeat(t) \/ ThreadFault(t)
      PROVE  FirstAttempt /\ (NoStageWritten \/ Takes(t) \/ Settles(t) \/ Skips(t))
  <2>1. ThreadWork
    BY <1>4, ThreadWorks
  <2>2. faults' = 0 => faults = 0
    BY <1>4 DEF Proceed, ThreadFault, FetchQueued, Heartbeat, ClassifyReadiness, MarkStageSkipped,
        ClaimStage, LoseClaim, MarkRunRunning, FinishBody, RaiseInBody, SucceedStage, FailStage, FailRun,
        CheckRunComplete, CompleteRun, WriteIgnored, CallRaises, ClaimAnswerLost, Crash, Fault, TypeOK
  <2>3. FirstAttempt
    BY <2>1, <2>2 DEF FirstAttempt, OnlyFirst, ThreadWork
  <2>4. QED
    BY <1>4, <2>3, ThreadFirst DEF FirstAttempt
<1>5. ASSUME NEW k \in Reapers, JudgeStale(k) \/ ReapRun(k) \/ ReapStages(k) \/ ReapSkipped(k)
      PROVE  FirstAttempt /\ (NoStageWritten \/ Reaps)
  <2>1. UNCHANGED <<thread, attempt, outputs, faults>>
    BY <1>5 DEF JudgeStale, ReapRun, ReapStages, ReapSkipped
  <2>2. \A row \in Rows : stage'[row] = "absent" <=> stage[row] = "absent"
    BY <1>5 DEF JudgeStale, ReapRun, ReapStages, ReapSkipped, LiveStatus
  <2>3. Reaps \/ UNCHANGED <<stage, run>>
    BY <1>5, <2>1 DEF JudgeStale, ReapRun, ReapStages, ReapSkipped, Reaps
  <2>4. QED
    BY <2>1, <2>2, <2>3 DEF FirstAttempt, OnlyFirst, NoStageWritten, GoesOn
<1>6. CASE UNCHANGED vars
  BY <1>6 DEF vars, FirstAttempt, OnlyFirst, NoStageWritten, GoesOn
<1>7. QED
  BY <1>1, <1>2, <1>3, <1>4, <1>5, <1>6 DEF Next, CreateStep

-----------------------------------------------------------------------------
(***************************************************************************)
(* What every step that writes stages keeps: nothing that succeeded or is  *)
(* doomed changes, nothing is queued again, and a row is only taken when   *)
(* all before it have succeeded.                                           *)
(***************************************************************************)
Taken(row) == stage[row] = "queued" /\ Ready(row) /\ stage'[row] = "running"

Advances ==
    /\ UNCHANGED <<attempt, outputs>>
    /\ run' = "succeeded" => run = "succeeded"
    /\ \A row \in Rows :
          /\ stage'[row] = "absent" <=> stage[row] = "absent"
          /\ stage[row] = "succeeded" => stage'[row] = "succeeded"
          /\ stage'[row] = "queued" => stage[row] = "queued"
          /\ stage'[row] = "succeeded" =>
                \/ stage[row] = "succeeded"
                \/ \E t \in Threads : Decides(t, row) /\ thread[t].pc = "succeed"
          /\ stage[row] \in {"failed", "skipped"} /\ Undecided(row) => stage'[row] \in {"failed", "skipped"}
    /\ \A t \in Threads :
          /\ thread'[t].pc \in {"claim", "skip", "complete", "succeed"} => thread'[t] = thread[t]
          /\ Executing(t)' => \/ Executing(t) /\ SameWork(t)
                              \/ /\ Taken(thread[t].row)
                                 /\ thread'[t].row = thread[t].row
                                 /\ thread'[t].attempt = attempt
          /\ thread'[t].pc \in Deciding =>
                /\ thread'[t].row = thread[t].row
                /\ \/ thread[t].pc \in Deciding /\ stage'[thread[t].row] = stage[thread[t].row]
                   \/ Taken(thread[t].row)
                   \/ /\ thread[t].pc \in Deciding
                      /\ Reapers # {}
                      /\ stage'[thread[t].row] = "failed"
                      /\ \A row \in Rows : stage'[row] # "queued"

\* Two threads that decide a row in one attempt would both execute it.
LEMMA OneDecides ==
  ASSUME TypeOK, OneExecutorPerAttempt, FirstClaims,
         NEW t \in Threads, NEW u \in Threads, thread[t].pc \in Deciding, thread[u].pc \in Deciding,
         SameRow(t, u)
  PROVE  t = u
BY DEF OneExecutorPerAttempt, FirstClaims, Executing, InBody, Deciding

LEMMA TakesAdvances ==
  ASSUME TypeOK, TypeOK', DecidersWork, ClaimersReady, SkippersBlocked, NEW t \in Threads, Takes(t)
  PROVE  Advances
<1> DEFINE row0 == thread[t].row
<1>1. row0 \in Rows
  BY DEF TypeOK
<1>2. \A row \in Rows : stage'[row] = IF row = row0 THEN "running" ELSE stage[row]
  BY DEF Takes, Alone
<1>3. \A u \in Threads \ {t} : thread'[u] = thread[u]
  BY DEF Takes, Alone
<1>4. Taken(row0)
  BY DEF Takes, Taken, ClaimersReady
<1>5. \A u \in Threads : thread[u].pc \in Deciding => thread[u].row # row0
  BY DEF Takes, DecidersWork
<1>6. \A u \in Threads : thread[u].row \in Rows
  BY DEF TypeOK
<1>7. thread'[t].pc \in {"idle", "mark"}
      /\ (thread'[t].pc = "mark" => thread'[t].row = row0 /\ thread'[t].attempt = attempt)
  BY DEF Takes
<1>8. stage[row0] = "queued"
  BY DEF Takes
<1>9. \A u \in Threads :
          /\ thread'[u].pc \in {"claim", "skip", "complete", "succeed"} => thread'[u] = thread[u]
          /\ Executing(u)' => \/ Executing(u) /\ SameWork(u)
                              \/ /\ Taken(thread[u].row)
                                 /\ thread'[u].row = thread[u].row
                                 /\ thread'[u].attempt = attempt
  BY <1>3, <1>4, <1>7 DEF Executing, SameWork, InBody
<1>10. \A u \in Threads :
          thread'[u].pc \in Deciding =>
                /\ thread'[u].row = thread[u].row
                /\ \/ thread[u].pc \in Deciding /\ stage'[thread[u].row] = stage[thread[u].row]
                   \/ Taken(thread[u].row)
  BY <1>2, <1>3, <1>4, <1>5, <1>6, <1>7 DEF Deciding
<1>11. UNCHANGED <<attempt, outputs, run>>
  BY DEF Takes, Alone
<1>12. QED
  BY <1>2, <1>8, <1>9, <1>10, <1>11 DEF Advances

LEMMA SettlesAdvances ==
  ASSUME TypeOK, TypeOK', OneExecutorPerAttempt, FirstClaims, DecidersWork,
         NEW t \in Threads, Settles(t)
  PROVE  Advances
<1> DEFINE row0 == thread[t].row
<1>1. thread[t].pc \in Deciding /\ row0 \in Rows
  BY DEF Settles, Deciding, TypeOK
<1>2. stage[row0] \in {"running", "failed"}
  BY <1>1 DEF DecidersWork
<1>3. \A row \in Rows \ {row0} : stage'[row] = stage[row]
  BY DEF Settles, Alone
<1>4. stage'[row0] \in {"succeeded", "failed"} /\ (stage'[row0] = "succeeded" => thread[t].pc = "succeed")
  BY DEF Settles
<1>5. \A u \in Threads \ {t} : thread'[u] = thread[u]
  BY DEF Settles, Alone
<1>6. \A u \in Threads \ {t} : thread[u].pc \in Deciding => thread[u].row # row0
  BY <1>1, OneDecides DEF SameRow
<1>7. thread'[t].pc \in {"check", "failrun"} /\ SameWork(t) /\ Executing(t)
  BY <1>1 DEF Settles, Executing, InBody, Deciding
<1>8. Decides(t, row0)
  BY <1>1 DEF Decides
<1>9. UNCHANGED <<attempt, outputs, run>>
  BY DEF Settles, Alone
<1>10. \A u \in Threads : thread[u].row \in Rows
  BY DEF TypeOK
<1>11. \A row \in Rows :
          /\ stage'[row] = "absent" <=> stage[row] = "absent"
          /\ stage[row] = "succeeded" => stage'[row] = "succeeded"
          /\ stage'[row] = "queued" => stage[row] = "queued"
          /\ stage'[row] = "succeeded" =>
                \/ stage[row] = "succeeded"
                \/ \E u \in Threads : Decides(u, row) /\ thread[u].pc = "succeed"
          /\ stage[row] \in {"failed", "skipped"} /\ Undecided(row) => stage'[row] \in {"failed", "skipped"}
  BY <1>2, <1>3, <1>4, <1>8 DEF Undecided
<1>12. \A u \in Threads :
          /\ thread'[u].pc \in {"claim", "skip", "complete", "succeed"} => thread'[u] = thread[u]
          /\ Executing(u)' => Executing(u) /\ SameWork(u)
          /\ thread'[u].pc \in Deciding =>
                /\ thread'[u].row = thread[u].row
                /\ thread[u].pc \in Deciding /\ stage'[thread[u].row] = stage[thread[u].row]
  BY <1>3, <1>5, <1>6, <1>7, <1>10 DEF Executing, SameWork, Deciding
<1>13. QED
  BY <1>9, <1>11, <1>12 DEF Advances

LEMMA SkipsAdvances ==
  ASSUME TypeOK, TypeOK', RowsAndAttempts, SkippersBlocked, NEW t \in Threads, Skips(t)
  PROVE  Advances
<1> DEFINE row0 == thread[t].row
<1>1. /\ row0 \in Rows
      /\ Undecided(row0)
      /\ stage[row0] \notin {"absent", "succeeded"}
  BY DEF Skips, SkippersBlocked, RowsAndAttempts, TypeOK
<1>2. \A row \in Rows : stage'[row] = IF row = row0 THEN "skipped" ELSE stage[row]
  BY DEF Skips, Alone
<1>3. \A u \in Threads \ {t} : thread'[u] = thread[u]
  BY DEF Skips, Alone
<1>4. thread'[t].pc = "idle"
  BY DEF Skips
<1>5. UNCHANGED <<attempt, outputs, run>>
  BY DEF Skips, Alone
<1>6. \A u \in Threads : thread[u].row \in Rows
  BY DEF TypeOK
<1>7. \A u \in Threads :
          /\ thread'[u].pc \in {"claim", "skip", "complete", "succeed"} => thread'[u] = thread[u]
          /\ Executing(u)' => Executing(u) /\ SameWork(u)
          /\ thread'[u].pc \in Deciding =>
                /\ thread'[u].row = thread[u].row
                /\ thread[u].pc \in Deciding /\ stage'[thread[u].row] = stage[thread[u].row]
  BY <1>1, <1>2, <1>3, <1>4, <1>6 DEF Executing, SameWork, Deciding, InBody, Undecided, Decides
<1>8. QED
  BY <1>1, <1>2, <1>5, <1>7 DEF Advances

LEMMA ReapsAdvances ==
  ASSUME TypeOK, TypeOK', DecidersWork, Reaps
  PROVE  Advances
<1>1. \A row \in Rows : stage'[row] = IF stage[row] \in {"queued", "running"} THEN "failed" ELSE stage[row]
  BY DEF Reaps, LiveStatus
<1>2. \A row \in Rows : stage'[row] # "queued"
  BY <1>1
<1>3. \A u \in Threads : thread[u].row \in Rows
  BY DEF TypeOK
<1>4. \A u \in Threads :
          thread[u].pc \in Deciding => stage'[thread[u].row] = "failed"
  BY <1>1, <1>3 DEF DecidersWork
<1>5. UNCHANGED <<attempt, outputs, thread>> /\ run' = "failed" /\ Reapers # {}
  BY DEF Reaps
<1>6. QED
  BY <1>1, <1>2, <1>4, <1>5 DEF Advances, Executing, SameWork

-----------------------------------------------------------------------------
(***************************************************************************)
(* What a first attempt is known to be, conjunct by conjunct.              *)
(***************************************************************************)
FirstFacts == /\ FirstClaims
              /\ DecidersWork
              /\ ClaimersReady
              /\ SkippersBlocked
              /\ StagesInOrder
              /\ CompletersRight
              /\ OutputsThere

\* A row that is decided is being executed, so all before it have succeeded.
LEMMA DecidedInOrder ==
  ASSUME TypeOK, RowsAndAttempts, StagesInOrder, NEW t \in Threads, thread[t].pc \in Deciding
  PROVE  Ready(thread[t].row)
BY DEF TypeOK, RowsAndAttempts, StagesInOrder, Executing, InBody, Deciding, Inserted, Ready

LEMMA AdvancesKeepsDoomed ==
  ASSUME TypeOK, TypeOK', Advances, NEW row \in Rows, Doomed(row)
  PROVE  Doomed(row)'
<1>1. stage'[row] \in {"failed", "skipped"}
  BY DEF Advances, Doomed
<1>2. ASSUME NEW t \in Threads, Decides(t, row)' PROVE FALSE
  <2>1. thread[t].row = row /\ (thread[t].pc \in Deciding \/ stage[row] = "queued")
    BY <1>2 DEF Decides, Advances, Taken
  <2>2. QED
    BY <2>1 DEF Doomed, Undecided, Decides
<1>3. QED
  BY <1>1, <1>2 DEF Doomed, Undecided

LEMMA AdvancesKeepsReady ==
  ASSUME TypeOK, TypeOK', Advances, NEW row \in Rows, Ready(row)
  PROVE  Ready(row)'
BY DEF Advances, Ready, Earlier, Inserted

LEMMA AdvancesStep ==
  ASSUME TypeOK, TypeOK', RowsAndAttempts, RowsAndAttempts', attempt <= 1, FirstFacts, Advances
  PROVE  FirstFacts'
<1> USE DEF FirstFacts
<1>1. Inserted' = Inserted
  BY DEF Advances, Inserted
<1>2. \A t \in Threads : thread[t].row \in Rows /\ thread'[t].row \in Rows
  BY DEF TypeOK
<1>3. FirstClaims'
  <2> SUFFICES ASSUME NEW t \in Threads, Executing(t)' PROVE thread'[t].attempt = 1
    BY DEF FirstClaims
  <2>1. attempt = 1
    BY DEF RowsAndAttempts, Advances, Executing, InBody, TypeOK
  <2>2. QED
    BY <2>1 DEF Advances, FirstClaims, SameWork
<1>4. DecidersWork'
  <2> SUFFICES ASSUME NEW t \in Threads, thread'[t].pc \in Deciding
               PROVE  \/ stage'[thread'[t].row] = "running"
                      \/ /\ Reapers # {}
                         /\ stage'[thread'[t].row] = "failed"
                         /\ \A row \in Rows : stage'[row] # "queued"
    BY DEF DecidersWork
  <2>1. QED
    BY <1>2 DEF Advances, Taken, DecidersWork
<1>5. \A t \in Threads : thread'[t].pc \in {"claim", "skip", "complete", "succeed"} => thread'[t] = thread[t]
  BY DEF Advances
<1>6. ClaimersReady'
  <2> SUFFICES ASSUME NEW t \in Threads, thread'[t].pc = "claim", NEW row \in Rows, row = thread[t].row
               PROVE  Ready(row)'
    BY <1>2, <1>5 DEF ClaimersReady, Ready, Earlier, Inserted
  <2>1. Ready(row)
    BY <1>5 DEF ClaimersReady, Ready, Earlier
  <2>2. QED
    BY <2>1, AdvancesKeepsReady
<1>7. SkippersBlocked'
  <2> SUFFICES ASSUME NEW t \in Threads, thread'[t].pc = "skip", NEW row \in Rows, row = thread[t].row
               PROVE  /\ Undecided(row)'
                      /\ stage'[row] # "succeeded"
                      /\ \/ \E r \in Earlier(row) : Doomed(r)'
                         \/ Reapers # {} /\ stage'[row] # "queued"
    BY <1>1, <1>2, <1>5 DEF SkippersBlocked, Undecided, Decides, Earlier, Doomed
  <2>1. /\ Undecided(row)
        /\ stage[row] # "succeeded"
        /\ \/ \E r \in Earlier(row) : Doomed(r)
           \/ Reapers # {} /\ stage[row] # "queued"
    BY <1>5 DEF SkippersBlocked
  <2>2. ~Taken(row)
    BY <2>1 DEF Taken, Ready, Doomed
  <2>3. Undecided(row)'
    <3> SUFFICES ASSUME NEW u \in Threads, thread'[u].pc \in Deciding, thread'[u].row = row PROVE FALSE
      BY DEF Undecided, Decides
    <3>1. thread[u].row = row /\ thread[u].pc \in Deciding
      BY <2>2 DEF Advances
    <3>2. QED
      BY <2>1, <3>1 DEF Undecided, Decides
  <2>4. stage'[row] # "succeeded"
    BY <2>1 DEF Advances, Undecided
  <2>5. \A r \in Earlier(row) : Doomed(r) => Doomed(r)'
    BY AdvancesKeepsDoomed DEF Earlier, Inserted
  <2>6. stage[row] # "queued" => stage'[row] # "queued"
    BY DEF Advances
  <2>7. QED
    BY <2>1, <2>3, <2>4, <2>5, <2>6
<1>8. \A row \in Inserted : stage[row] = "succeeded" => stage'[row] = "succeeded"
  BY DEF Advances, Inserted
<1>9. StagesInOrder'
  <2> SUFFICES ASSUME NEW row \in Rows, stage'[row] # "absent",
                      stage'[row] = "succeeded" \/ \E t \in Threads : Executing(t)' /\ thread'[t].row = row
               PROVE  Ready(row)'
    BY DEF StagesInOrder, Inserted, Ready
  <2>1. row \in Inserted
    BY <1>1 DEF Inserted
  <2>2. CASE stage'[row] = "succeeded"
    <3>1. stage[row] = "succeeded" \/ \E t \in Threads : Executing(t) /\ thread[t].row = row
      BY <2>2 DEF Advances, Decides, Executing, InBody
    <3>2. Ready(row)
      BY <2>1, <3>1 DEF StagesInOrder, Ready
    <3>3. QED
      BY <3>2, AdvancesKeepsReady
  <2>3. ASSUME NEW t \in Threads, Executing(t)', thread'[t].row = row
        PROVE  Ready(row)'
    <3>1. thread[t].row = row /\ (Executing(t) \/ Ready(row))
      BY <2>3 DEF Advances, SameWork, Taken
    <3>2. Ready(row)
      BY <2>1, <3>1 DEF StagesInOrder, Ready
    <3>3. QED
      BY <3>2, AdvancesKeepsReady
  <2>4. QED
    BY <2>2, <2>3
<1>10. CompletersRight'
  <2>1. run' = "succeeded" => run = "succeeded"
    BY DEF Advances
  <2>2. \A t \in Threads : thread'[t].pc = "complete" => thread[t].pc = "complete"
    BY <1>5
  <2>3. AllStagesSucceeded => AllStagesSucceeded'
    BY <1>1, <1>8 DEF AllStagesSucceeded
  <2>4. attempt' = attempt
    BY DEF Advances
  <2>5. QED
    BY <2>1, <2>2, <2>3, <2>4 DEF CompletersRight
<1>11. OutputsThere'
  <2>1. \A row \in Rows : Registered(row) => Registered(row)'
    BY DEF Advances, Registered
  <2>2. ASSUME NEW row \in Inserted, stage'[row] = "succeeded" PROVE Registered(row)'
    <3>1. stage[row] = "succeeded" \/ \E t \in Threads : thread[t].row = row /\ thread[t].pc = "succeed"
      BY <2>2 DEF Advances, Decides, Inserted
    <3>2. Registered(row)
      BY <3>1 DEF OutputsThere
    <3>3. QED
      BY <2>1, <3>2 DEF Inserted
  <2>3. ASSUME NEW t \in Threads, thread'[t].pc = "succeed" PROVE Registered(thread[t].row)'
    <3>1. thread'[t] = thread[t] /\ Registered(thread[t].row)
      BY <1>5, <2>3 DEF OutputsThere
    <3>2. QED
      BY <3>1 DEF Registered, Advances
  <2>4. QED
    BY <1>1, <2>2, <2>3 DEF OutputsThere
<1>12. QED
  BY <1>3, <1>4, <1>6, <1>7, <1>9, <1>10, <1>11

\* A row seen behind one that failed or was skipped will never be claimed:
\* either nobody decides that one any more, or a reaper emptied the queue.
LEMMA BlockedStaysSo ==
  ASSUME TypeOK, RowsAndAttempts, FirstFacts, NEW row \in Inserted, BlockedTerminal(row)
  PROVE  /\ Undecided(row)
         /\ stage[row] # "succeeded"
         /\ \/ \E r \in Earlier(row) : Doomed(r)
            \/ Reapers # {} /\ stage[row] # "queued"
<1> USE DEF FirstFacts
<1>1. PICK r \in Earlier(row) : stage[r] \in {"failed", "skipped"}
  BY DEF BlockedTerminal
<1>2. ~Ready(row)
  BY <1>1 DEF Ready
<1>3. Undecided(row)
  BY <1>2, DecidedInOrder DEF Undecided, Decides
<1>4. stage[row] # "succeeded"
  BY <1>2 DEF StagesInOrder, Ready
<1>5. CASE Undecided(r)
  BY <1>1, <1>3, <1>4, <1>5 DEF Doomed
<1>6. ASSUME NEW t \in Threads, Decides(t, r)
      PROVE  Reapers # {} /\ stage[row] # "queued"
  BY <1>1, <1>6 DEF DecidersWork, Decides, Inserted
<1>7. QED
  BY <1>3, <1>4, <1>5, <1>6 DEF Undecided

LEMMA QuietStep ==
  ASSUME TypeOK, TypeOK', RowsAndAttempts, RowsAndAttempts', attempt <= 1, FirstFacts, NoStageWritten
  PROVE  FirstFacts'
<1> USE DEF FirstFacts
<1>1. Inserted' = Inserted /\ stage' = stage /\ attempt' = attempt
  BY DEF NoStageWritten, Inserted
<1>2. \A t \in Threads : thread[t].row \in Rows /\ thread'[t].row \in Rows
  BY DEF TypeOK
<1>3. \A t \in Threads : Executing(t)' => Executing(t) /\ SameWork(t)
  BY DEF NoStageWritten, GoesOn, Executing, SameWork, InBody
<1>4. \A t \in Threads : thread'[t].pc \in Deciding => thread[t].pc \in Deciding /\ SameWork(t)
  BY DEF NoStageWritten, GoesOn, SameWork, Deciding
<1>5. FirstClaims'
  BY <1>3 DEF FirstClaims, SameWork
<1>6. DecidersWork'
  BY <1>1, <1>4 DEF DecidersWork, SameWork
<1>7. \A row : Ready(row)' <=> Ready(row)
  BY <1>1 DEF Ready, Earlier
<1>8. ClaimersReady'
  <2> SUFFICES ASSUME NEW t \in Threads, thread'[t].pc = "claim" PROVE Ready(thread'[t].row)
    BY <1>1 DEF ClaimersReady, Ready, Earlier
  <2>1. QED
    BY DEF NoStageWritten, GoesOn, SameWork, ClaimersReady
<1>9. \A row \in Rows : Undecided(row) => Undecided(row)'
  BY <1>4 DEF Undecided, Decides, SameWork
<1>10. SkippersBlocked'
  <2> SUFFICES ASSUME NEW t \in Threads, thread'[t].pc = "skip", NEW row \in Rows, row = thread'[t].row
               PROVE  /\ Undecided(row)'
                      /\ stage[row] # "succeeded"
                      /\ \/ \E r \in Earlier(row) : Doomed(r)'
                         \/ Reapers # {} /\ stage[row] # "queued"
    BY <1>1, <1>2 DEF SkippersBlocked, Undecided, Decides, Earlier, Doomed
  <2>1. \/ thread[t].pc = "skip" /\ row = thread[t].row
        \/ BlockedTerminal(row)
    BY DEF NoStageWritten, GoesOn, SameWork
  <2>2. row \in Inserted
    BY <1>1 DEF RowsAndAttempts, Inserted
  <2>3. /\ Undecided(row)
        /\ stage[row] # "succeeded"
        /\ \/ \E r \in Earlier(row) : Doomed(r)
           \/ Reapers # {} /\ stage[row] # "queued"
    BY <2>1, <2>2, BlockedStaysSo DEF SkippersBlocked
  <2>4. \A r \in Earlier(row) : Doomed(r) => Doomed(r)'
    BY <1>1, <1>9 DEF Doomed, Earlier, Inserted
  <2>5. QED
    BY <1>9, <2>3, <2>4
<1>11. StagesInOrder'
  BY <1>1, <1>3 DEF StagesInOrder, Earlier, SameWork
<1>12. CompletersRight'
  <2>1. \A t \in Threads : Executing(t) => attempt = 1
    BY DEF RowsAndAttempts, Executing, InBody, TypeOK
  <2>2. AllStagesSucceeded' <=> AllStagesSucceeded
    BY <1>1 DEF AllStagesSucceeded
  <2>3. ASSUME NEW t \in Threads, thread'[t].pc = "complete" PROVE AllStagesSucceeded /\ attempt = 1
    BY <2>1, <2>3 DEF NoStageWritten, GoesOn, CompletersRight, Executing, InBody
  <2>4. run' = "succeeded" => AllStagesSucceeded /\ attempt = 1
    BY DEF NoStageWritten, CompletersRight
  <2>5. QED
    BY <1>1, <2>2, <2>3, <2>4 DEF CompletersRight
<1>13. OutputsThere'
  <2>1. \A row : Registered(row) => Registered(row)'
    BY DEF NoStageWritten, Registered
  <2>2. ASSUME NEW t \in Threads, thread'[t].pc = "succeed" PROVE Registered(thread[t].row)'
    <3>1. CASE thread'[t] = thread[t]
      <4>1. Registered(thread[t].row)
        BY <2>2, <3>1 DEF OutputsThere
      <4>2. QED
        BY <3>1, <4>1 DEF Registered, NoStageWritten
    <3>2. QED
      BY <2>2, <3>1 DEF NoStageWritten, GoesOn
  <2>3. QED
    BY <1>1, <2>1, <2>2 DEF OutputsThere
<1>14. QED
  BY <1>5, <1>6, <1>8, <1>10, <1>11, <1>12, <1>13

LEMMA CreateFirst ==
  ASSUME TypeOK, TypeOK', RowsAndAttempts, RowsAndAttempts', OnlyFirst, FirstFacts, CreateStages
  PROVE  FirstFacts'
<1>1. attempt = 0
  BY DEF RowsAndAttempts, CreateStages, OnlyFirst, TypeOK
<1>2. \A t \in Threads : thread'[t].pc = "idle"
  BY <1>1 DEF RowsAndAttempts, CreateStages
<1>3. run' = run /\ run # "succeeded"
  BY <1>1 DEF CreateStages, FirstFacts, CompletersRight
<1>4. \A row \in Rows : stage'[row] \in {"queued", "absent"}
  BY <1>1 DEF RowsAndAttempts, CreateStages, QueueRowsOf
<1>5. \A t \in Threads : ~Executing(t)'
  BY <1>2 DEF Executing, InBody
<1>6. QED
  BY <1>2, <1>3, <1>4, <1>5 DEF FirstFacts, FirstClaims, DecidersWork, ClaimersReady, SkippersBlocked,
        StagesInOrder, CompletersRight, OutputsThere, Inserted, Deciding

LEMMA FirstStep ==
  /\ TypeOK /\ TypeOK' /\ RowsAndAttempts /\ RowsAndAttempts' /\ OneExecutorPerAttempt
  /\ FirstInv /\ [Next]_vars
  => FirstInv'
<1> SUFFICES ASSUME TypeOK, TypeOK', RowsAndAttempts, RowsAndAttempts', OneExecutorPerAttempt,
                    FirstInv, [Next]_vars, FirstAttempt'
             PROVE  FirstFacts'
  BY DEF FirstInv, FirstFacts
<1>1. FirstAttempt => FirstFacts
  BY DEF FirstInv, FirstFacts
<1>2. /\ FirstAttempt
      /\ \/ CreateStages
         \/ NoStageWritten
         \/ Reaps
         \/ \E t \in Threads : Takes(t) \/ Settles(t) \/ Skips(t)
  BY <1>1, FirstKind DEF FirstFacts
<1>3. FirstFacts /\ OnlyFirst /\ attempt <= 1
  BY <1>1, <1>2 DEF FirstAttempt, OnlyFirst
<1>4. CASE CreateStages
  BY <1>3, <1>4, CreateFirst
<1>5. CASE NoStageWritten
  BY <1>3, <1>5, QuietStep
<1>6. CASE Reaps
  <2>1. Advances
    BY <1>3, <1>6, ReapsAdvances DEF FirstFacts
  <2>2. QED
    BY <1>3, <2>1, AdvancesStep
<1>7. ASSUME NEW t \in Threads, Takes(t) \/ Settles(t) \/ Skips(t) PROVE FirstFacts'
  <2>1. Advances
    BY <1>3, <1>7, TakesAdvances, SettlesAdvances, SkipsAdvances DEF FirstFacts
  <2>2. QED
    BY <1>3, <2>1, AdvancesStep
<1>8. QED
  BY <1>2, <1>4, <1>5, <1>6, <1>7

LEMMA FirstInit == Init => FirstInv
<1> SUFFICES ASSUME Init PROVE FirstFacts
  BY DEF FirstInv, FirstFacts
<1>1. \A t \in Threads : thread[t].pc = "idle" /\ ~Executing(t)
  BY DEF Init, Idle, Executing, InBody
<1>2. Inserted = {}
  BY DEF Init, Inserted
<1>3. run = "absent"
  BY DEF Init
<1>4. QED
  BY <1>1, <1>2, <1>3 DEF FirstFacts, FirstClaims, DecidersWork, ClaimersReady, SkippersBlocked,
        StagesInOrder, CompletersRight, OutputsThere, Deciding

THEOREM FirstInvariant == Spec => [](RowsAndAttempts /\ FirstInv)
<1>1. Init => RowsAndAttempts /\ FirstInv
  BY RowsInit, FirstInit
<1>2. QED
  BY <1>1, RowsStep, FirstStep, TypeCorrect, ExecutorIsUnique, PTL DEF Spec

\* Without a relaunch the create request alone queues stages, and once.
LEMMA OneQueueing ==
  ASSUME Requests = {}
  PROVE  Spec => [](attempt <= 1)
<1> DEFINE Once == attempt <= 1 /\ (creator # "done" => attempt = 0)
<1>1. Init => Once
  BY DEF Init
<1>2. TypeOK /\ RowsAndAttempts /\ Once /\ [Next]_vars => Once'
  <2> SUFFICES ASSUME TypeOK, RowsAndAttempts, Once, [Next]_vars PROVE Once'
    OBVIOUS
  <2>1. CASE CreateStep \/ CreateStagesFails
    BY <2>1 DEF TypeOK, CreateStep, CreateRun, CreateStages, QueueRowsOf, CreateStagesFails
  <2>2. ASSUME NEW t \in Threads,
               (\E row \in Rows : FetchQueued(t, row)) \/ Proceed(t) \/ Heartbeat(t) \/ ThreadFault(t)
        PROVE  Once'
    BY <2>2, ThreadWorks DEF ThreadWork
  <2>3. ASSUME NEW k \in Reapers, JudgeStale(k) \/ ReapRun(k) \/ ReapStages(k) \/ ReapSkipped(k)
        PROVE  Once'
    BY <2>3 DEF JudgeStale, ReapRun, ReapStages, ReapSkipped
  <2>4. CASE UNCHANGED vars
    BY <2>4 DEF vars
  <2>5. QED
    BY <2>1, <2>2, <2>3, <2>4 DEF Next
<1>3. Once => attempt <= 1
  OBVIOUS
<1> HIDE DEF Once
<1>4. QED
  BY <1>1, <1>2, <1>3, TypeCorrect, FirstInvariant, PTL DEF Spec

\* Without relaunches, a stage is executed or recorded as succeeded only when
\* every earlier one is recorded as succeeded, for any number of stages,
\* threads, reapers, lost calls and crashes: classify_stage_readiness need not
\* be repeated at the claim.  The completion check of the ActivitySim worker
\* sits in the stage's try block: with one of them a single lost call breaks
\* this, so where there is one no call may be lost.
THEOREM OrderIsKept ==
  ASSUME Requests = {}, ChecksInTry = {} \/ MaxFaults = 0
  PROVE  Spec => []StagesInOrder
<1>1. TypeOK /\ attempt <= 1 => FirstAttempt
  BY DEF FirstAttempt, OnlyFirst, Rows, Inserters, TypeOK
<1>2. TypeOK /\ FirstInv /\ attempt <= 1 => StagesInOrder
  BY <1>1 DEF FirstInv
<1>3. QED
  BY <1>2, FirstInvariant, OneQueueing, TypeCorrect, PTL

\* Without relaunches, a run that is shown as succeeded has succeeded stages
\* only, and the output rows of every stage that registers some: what
\* maybe_complete_run promises to the pages that read the run.
THEOREM SuccessIsComplete ==
  ASSUME Requests = {}, ChecksInTry = {} \/ MaxFaults = 0
  PROVE  Spec => []SucceededRunIsComplete
<1>1. TypeOK /\ attempt <= 1 => FirstAttempt
  BY DEF FirstAttempt, OnlyFirst, Rows, Inserters, TypeOK
<1>2. TypeOK /\ RowsAndAttempts /\ FirstInv /\ attempt <= 1 => SucceededRunIsComplete
  <2> SUFFICES ASSUME TypeOK, RowsAndAttempts, FirstInv, attempt <= 1, run = "succeeded"
               PROVE  /\ AllStagesSucceeded
                      /\ \A ord \in WritingOrds : <<ord, 1>> \in outputs /\ 1 \in 1..attempt
    BY DEF SucceededRunIsComplete
  <2>1. CompletersRight /\ OutputsThere /\ OnlyFirst
    BY <1>1 DEF FirstInv, FirstAttempt
  <2>2. AllStagesSucceeded /\ attempt = 1
    BY <2>1 DEF CompletersRight
  <2>3. ASSUME NEW ord \in WritingOrds PROVE <<ord, 1>> \in outputs
    <3>1. ord \in Ords /\ <<Creator, ord>> \in Rows
      BY DEF Rows, Inserters
    <3>2. <<Creator, ord>> \in Inserted
      BY <2>1, <2>2, <3>1 DEF RowsAndAttempts, Inserted
    <3>3. Registered(<<Creator, ord>>)
      BY <2>1, <2>2, <3>2 DEF OutputsThere, AllStagesSucceeded
    <3>4. QED
      BY <3>3 DEF Registered, Ord
  <2>4. QED
    BY <2>2, <2>3
<1>3. QED
  BY <1>2, FirstInvariant, OneQueueing, TypeCorrect, PTL

-----------------------------------------------------------------------------
(***************************************************************************)
(* A relaunch leaves work to do.  Until the first row is there nothing is  *)
(* executed; while the run has said queued ever since, an executing thread *)
(* is about to say running.  A relaunch that resets the rows of an attempt *)
(* under way may leave threads behind that write into the new one: then    *)
(* the first two rows decide.  Of these either the first is untouched by   *)
(* those threads, or one of them decides it and the second is untouched,   *)
(* for it is neither claimed nor skipped before the first is decided.      *)
(***************************************************************************)
OneRelaunch == Reapers = {} /\ \A p, q \in Requests : p = q

First == <<Creator, 1>>
Second == <<Creator, 2>>
RowsOf(q) == {row \in Inserted : row[1] = q}

\* The request has queued the run before there were rows, or not at all.
Fresh(q) ==
    \/ request[q].pc \in {"ready", "count", "history", "requeue", "insert"}
    \/ request[q].pc = "stages" /\ Inserted = {}
    \/ request[q].pc \in {"clear", "done"} /\ (OnlyFirst \/ RowsOf(q) # {})

\* The request has reset the rows of the first attempt.
HasReset(q) == request[q].pc \in {"clear", "done"} /\ ~OnlyFirst /\ RowsOf(q) = {}

Marking == \E t \in Threads : thread[t].pc = "mark"

\* What has happened before what.
InTurn ==
    /\ creator = "run" <=> run = "absent"
    /\ run = "absent" => Inserted = {} /\ \A q \in Requests : request[q].pc = "ready"
    /\ creator = "done" /\ faults = 0 => \A ord \in Ords : stage[<<Creator, ord>>] # "absent"
    /\ \A t \in Threads : thread[t].pc = "skip" => Ord(thread[t].row) > 1
    /\ \A q \in Requests : /\ request[q].pc \notin {"clear", "done"} => OnlyFirst
                           /\ HasReset(q) => creator = "done"

FreshHasWork ==
    (run = "queued" /\ \A q \in Requests : Fresh(q)) =>
        /\ \A t \in Threads : Executing(t) => thread[t].pc = "mark"
        /\ \A row \in Inserted : Ord(row) = 1 => stage[row] = "queued" \/ Marking

Untouched(row) ==
    /\ stage[row] = "queued"
    /\ Undecided(row)
    /\ \A t \in Threads : thread[t].pc = "skip" => thread[t].row # row

OneDecider(row) == \A t, u \in Threads : Decides(t, row) /\ Decides(u, row) => t = u

RunAboutToMove == \E t \in Threads : thread[t].pc \in {"mark", "failrun", "complete"}
FirstWaits == /\ stage[First] = "queued"
              /\ \/ Undecided(First)
                 \/ OneDecider(First) /\ (NStages = 1 \/ Untouched(Second))
SecondWaits == stage[First] = "succeeded" /\ Undecided(First) /\ NStages # 1 /\ Untouched(Second)
LastIsChecked == /\ NStages = 1
                 /\ stage[First] = "succeeded"
                 /\ \E t \in Threads : thread[t].pc = "check"
Work == RunAboutToMove \/ FirstWaits \/ SecondWaits \/ LastIsChecked

ResetHasWork == (run = "queued" /\ \E q \in Requests : HasReset(q)) => Work

CalmInv == faults = 0 => FreshHasWork /\ ResetHasWork

-----------------------------------------------------------------------------
\* What a thread does while the run goes on to say queued.
Looks(t) ==
    \/ thread'[t] = thread[t]
    \/ thread[t].pc \in {"idle", "classify", "claim"} /\ thread'[t].pc \in {"idle", "classify", "claim"}
    \/ /\ thread[t].pc = "classify"
       /\ thread'[t].pc = "skip"
       /\ SameWork(t)
       /\ BlockedTerminal(thread[t].row)
    \/ thread[t].pc = "exec" /\ thread'[t].pc \in {"succeed", "failstage"} /\ SameWork(t)
    \/ thread[t].pc = "check" /\ thread'[t].pc = "complete"
    \/ thread[t].pc = "check" /\ thread'[t].pc = "idle" /\ ~AllStagesSucceeded

CalmStep(t) ==
    /\ \A u \in Threads \ {t} : thread'[u] = thread[u]
    /\ \/ stage' = stage /\ Looks(t)
       \/ Skips(t)
       \/ Takes(t) /\ thread'[t].pc = "mark"
       \/ Settles(t)

LEMMA CalmThread ==
  ASSUME TypeOK, NEW t \in Threads, run' = "queued",
         (\E row \in Rows : FetchQueued(t, row)) \/ Proceed(t) \/ Heartbeat(t)
  PROVE  run = "queued" /\ CalmStep(t)
<1>1. CASE \E row \in Rows : FetchQueued(t, row)
  BY <1>1 DEF TypeOK, FetchQueued, CalmStep, Looks
<1>2. CASE Heartbeat(t)
  BY <1>2 DEF Heartbeat, CalmStep, Looks
<1>3. CASE ClassifyReadiness(t)
  <2>1. PICK to \in {"skip", "claim", "idle"} :
           Goto(t, "classify", to) /\ (to = "skip" => BlockedTerminal(thread[t].row))
    BY <1>3 DEF ClassifyReadiness
  <2>2. QED
    BY <1>3, <2>1, GotoAlone DEF ClassifyReadiness, CalmStep, Looks
<1>4. CASE LoseClaim(t)
  BY <1>4, GotoAlone DEF LoseClaim, CalmStep, Looks
<1>5. CASE FinishBody(t) \/ RaiseInBody(t)
  BY <1>5, GotoAlone DEF FinishBody, RaiseInBody, CalmStep, Looks
<1>6. CASE CheckRunComplete(t)
  <2>1. PICK to \in {"complete", "idle"} : Goto(t, "check", to) /\ (to = "idle" => ~AllStagesSucceeded)
    BY <1>6 DEF CheckRunComplete
  <2>2. QED
    BY <1>6, <2>1, GotoAlone DEF CheckRunComplete, CalmStep, Looks
<1>7. CASE MarkStageSkipped(t)
  BY <1>7, GotoAlone DEF MarkStageSkipped, PatchStage, Skips, Alone, TypeOK, CalmStep
<1>8. CASE SucceedStage(t) \/ FailStage(t)
  BY <1>8, GotoAlone DEF SucceedStage, FailStage, PatchStage, Settles, Alone, TypeOK, CalmStep
<1>9. CASE ClaimStage(t)
  BY <1>9 DEF ClaimStage, PatchStage, Takes, Alone, TypeOK, CalmStep
<1>10. CASE MarkRunRunning(t) \/ FailRun(t) \/ CompleteRun(t)
  BY <1>10 DEF MarkRunRunning, FailRun, CompleteRun, PatchRun
<1>11. QED
  BY <1>1, <1>2, <1>3, <1>4, <1>5, <1>6, <1>7, <1>8, <1>9, <1>10 DEF Proceed

LEMMA FreshThread ==
  ASSUME TypeOK, InTurn, NEW t \in Threads, CalmStep(t), Inserted' = Inserted,
         \A u \in Threads : Executing(u) => thread[u].pc = "mark",
         \A row \in Inserted : Ord(row) = 1 => stage[row] = "queued" \/ Marking
  PROVE  /\ \A u \in Threads : Executing(u)' => thread'[u].pc = "mark"
         /\ \A row \in Inserted : Ord(row) = 1 => stage'[row] = "queued" \/ Marking'
<1>1. CASE stage' = stage /\ Looks(t)
  <2>1. /\ Executing(t)' => thread'[t] = thread[t]
        /\ thread[t].pc = "mark" => thread'[t] = thread[t]
    BY <1>1 DEF Looks, Executing, InBody
  <2>2. \A u \in Threads \ {t} : thread'[u] = thread[u]
    BY DEF CalmStep
  <2>3. Marking => Marking'
    BY <2>1, <2>2 DEF Marking
  <2>4. QED
    BY <1>1, <2>1, <2>2, <2>3 DEF Executing
<1>2. CASE Skips(t)
  <2>1. Ord(thread[t].row) > 1 /\ thread[t].row \in Rows
    BY <1>2 DEF Skips, InTurn, TypeOK
  <2>2. \A row \in Inserted : Ord(row) = 1 => stage'[row] = stage[row]
    BY <1>2, <2>1 DEF Skips, Alone, Inserted
  <2>3. /\ thread[t].pc = "skip"
        /\ thread'[t].pc = "idle"
        /\ \A u \in Threads \ {t} : thread'[u] = thread[u]
    BY <1>2 DEF Skips, Alone
  <2>4. Marking => Marking'
    BY <2>3 DEF Marking
  <2>5. QED
    BY <2>2, <2>3, <2>4 DEF Executing, InBody
<1>3. CASE Takes(t) /\ thread'[t].pc = "mark"
  <2>1. Marking'
    BY <1>3 DEF Marking
  <2>2. QED
    BY <1>3, <2>1 DEF Takes, Alone, Executing
<1>4. CASE Settles(t)
  BY <1>4 DEF Settles, Executing, InBody
<1>5. QED
  BY <1>1, <1>2, <1>3, <1>4 DEF CalmStep

\* Where only the rows of the create request are there, nothing comes before
\* its first row, and only that one before the second.
LEMMA BeforeSecond ==
  ASSUME TypeOK, \A row \in Inserted : row[1] = Creator
  PROVE  /\ \A row \in Inserted : Ord(row) = 1 => row = First
         /\ Earlier(Second) \subseteq {First}
         /\ Ord(First) = 1 /\ Ord(Second) = 2 /\ First # Second
         /\ NStages = 1 => Inserted \subseteq {First}
<1>1. \A row \in Rows : row = <<row[1], Ord(row)>> /\ Ord(row) \in Ords
  BY DEF Rows, Ord
<1>2. \A row \in Inserted : Ord(row) = 1 => row = First
  BY <1>1 DEF Inserted, First
<1>3. Ord(First) = 1 /\ Ord(Second) = 2 /\ First # Second
  BY DEF Ord, First, Second
<1>4. \A n \in Ords : n < 2 => n = 1
  BY DEF Ords
<1>5. Earlier(Second) \subseteq {First}
  BY <1>1, <1>2, <1>3, <1>4 DEF Earlier, Inserted
<1>6. NStages = 1 => \A n \in Ords : n = 1
  BY DEF Ords
<1>7. QED
  BY <1>1, <1>2, <1>3, <1>5, <1>6 DEF Inserted

LEMMA ResetThread ==
  ASSUME TypeOK, TypeOK', InTurn, NEW t \in Threads, CalmStep(t), Work,
         \A row \in Inserted : row[1] = Creator
  PROVE  Work'
<1> DEFINE row0 == thread[t].row
<1>1. /\ \A u \in Threads \ {t} : thread'[u] = thread[u]
      /\ row0 \in Rows
      /\ First \in Rows
      /\ NStages # 1 => Second \in Rows
  <2>1. 1 \in Ords /\ (NStages # 1 => 2 \in Ords)
    BY DEF Ords
  <2>2. QED
    BY <2>1 DEF CalmStep, TypeOK, First, Second, Rows, Inserters
<1>2. CASE RunAboutToMove
  <2>1. thread[t].pc \in {"mark", "failrun", "complete"} => thread'[t] = thread[t]
    BY DEF CalmStep, Looks, Skips, Takes, Settles
  <2>2. RunAboutToMove'
    BY <1>1, <1>2, <2>1 DEF RunAboutToMove
  <2>3. QED
    BY <2>2 DEF Work
<1>3. CASE thread'[t].pc \in {"mark", "failrun", "complete"}
  BY <1>3 DEF RunAboutToMove, Work
<1>4. CASE thread'[t].pc \notin {"mark", "failrun", "complete"} /\ ~RunAboutToMove
  <2>1. \/ stage' = stage /\ Looks(t)
        \/ Skips(t)
        \/ Settles(t) /\ thread[t].pc = "succeed" /\ thread'[t].pc = "check" /\ stage'[row0] = "succeeded"
    BY <1>4 DEF CalmStep, Settles
  <2>2. thread'[t].pc \in Deciding => thread[t].pc \in Deciding /\ SameWork(t)
    BY <1>4, <2>1 DEF Looks, Skips, Deciding, RunAboutToMove, SameWork
  <2>3. \A row, u : u \in Threads /\ Decides(u, row)' => Decides(u, row)
    BY <1>1, <2>2 DEF Decides, SameWork
  <2>4. \A row : (Undecided(row) => Undecided(row)') /\ (OneDecider(row) => OneDecider(row)')
    BY <2>3 DEF Undecided, OneDecider
  <2>5. ASSUME NStages # 1, stage[First] \in {"queued", "succeeded"}, Untouched(Second)
        PROVE  Untouched(Second)'
    <3>1. ~BlockedTerminal(Second)
      BY <2>5, BeforeSecond DEF BlockedTerminal
    <3>2. thread'[t].pc = "skip" => thread'[t].row # Second
      BY <1>1, <2>1, <2>5, <3>1 DEF Looks, Skips, Settles, SameWork, Untouched
    <3>3. stage'[Second] = "queued"
      BY <1>1, <2>1, <2>5 DEF Skips, Settles, Alone, Untouched, Undecided, Decides, Deciding
    <3>4. Undecided(Second)'
      BY <2>4, <2>5 DEF Untouched
    <3>5. QED
      BY <1>1, <2>5, <3>2, <3>3, <3>4 DEF Untouched, Second
  <2>6. \/ stage'[First] = stage[First]
        \/ /\ Decides(t, First)
           /\ stage'[First] = "succeeded"
           /\ thread'[t].pc = "check"
    <3>1. Skips(t) => row0 # First
      BY BeforeSecond DEF Skips, InTurn
    <3>2. QED
      BY <1>1, <2>1, <3>1 DEF Skips, Settles, Alone, Decides, Deciding
  <2>7. CASE FirstWaits
    <3>1. CASE stage'[First] = stage[First]
      BY <2>4, <2>5, <2>7, <3>1 DEF FirstWaits, Work, First, Second
    <3>2. CASE Decides(t, First) /\ stage'[First] = "succeeded" /\ thread'[t].pc = "check"
      <4>1. OneDecider(First) /\ (NStages = 1 \/ Untouched(Second))
        BY <2>7, <3>2 DEF FirstWaits, Undecided
      <4>2. Undecided(First)'
        BY <2>3, <3>2, <4>1 DEF OneDecider, Undecided, Decides, Deciding, First
      <4>3. CASE NStages = 1
        BY <3>2, <4>3 DEF LastIsChecked, Work, First
      <4>4. CASE NStages # 1
        <5>1. Untouched(Second)'
          BY <2>5, <2>7, <4>1, <4>4 DEF FirstWaits
        <5>2. QED
          BY <3>2, <4>2, <4>4, <5>1 DEF SecondWaits, Work, First
      <4>5. QED
        BY <4>3, <4>4
    <3>3. QED
      BY <2>6, <3>1, <3>2
  <2>8. CASE SecondWaits
    <3>1. stage'[First] = "succeeded"
      BY <2>6, <2>8 DEF SecondWaits
    <3>2. Undecided(First)' /\ Untouched(Second)'
      BY <2>4, <2>5, <2>8 DEF SecondWaits, First, Second
    <3>3. QED
      BY <2>8, <3>1, <3>2 DEF SecondWaits, Work, First
  <2>9. CASE LastIsChecked
    <3>1. PICK c \in Threads : thread[c].pc = "check"
      BY <2>9 DEF LastIsChecked
    <3>2. stage'[First] = "succeeded"
      BY <2>6, <2>9 DEF LastIsChecked
    <3>3. AllStagesSucceeded
      BY <2>9, BeforeSecond DEF LastIsChecked, AllStagesSucceeded
    <3>4. thread'[c].pc = "check"
      BY <1>1, <1>4, <2>1, <3>1, <3>3 DEF Looks, Skips, Settles
    <3>5. QED
      BY <2>9, <3>2, <3>4 DEF LastIsChecked, Work, First
  <2>10. QED
    BY <1>4, <2>7, <2>8, <2>9 DEF Work
<1>5. QED
  BY <1>2, <1>3, <1>4

-----------------------------------------------------------------------------
\* What no step of a thread does to the run row and the rows' inserters.
LEMMA ThreadKeepsTurn ==
  ASSUME NEW t \in Threads, TypeOK, TypeOK', RowsAndAttempts, InTurn,
         (\E row \in Rows : FetchQueued(t, row)) \/ Proceed(t) \/ Heartbeat(t) \/ ThreadFault(t)
  PROVE  /\ run' = "absent" <=> run = "absent"
         /\ Inserted' = Inserted
         /\ OnlyFirst' <=> OnlyFirst
         /\ faults' = 0 => faults = 0
         /\ \A u \in Threads : thread'[u].pc = "skip" => Ord(thread'[u].row) > 1
<1>1. ThreadWork
  BY ThreadWorks
<1>2. Inserted' = Inserted /\ (OnlyFirst' <=> OnlyFirst)
  BY <1>1 DEF ThreadWork, Inserted, OnlyFirst
<1>3. run # "absent" => run' # "absent"
  BY DEF Proceed, ThreadFault, FetchQueued, Heartbeat, ClassifyReadiness, MarkStageSkipped,
         ClaimStage, LoseClaim, MarkRunRunning, FinishBody, RaiseInBody, SucceedStage, FailStage, FailRun,
         CheckRunComplete, CompleteRun, WriteIgnored, CallRaises, ClaimAnswerLost, Crash, PatchRun
<1>4. run' = run \/ (\E from \in ThreadPc \ {"idle"}, to \in ThreadPc : Goto(t, from, to))
  BY DEF Proceed, ThreadFault, FetchQueued, Heartbeat, ClassifyReadiness, MarkStageSkipped,
         ClaimStage, LoseClaim, MarkRunRunning, FinishBody, RaiseInBody, SucceedStage, FailStage, FailRun,
         CheckRunComplete, CompleteRun, WriteIgnored, CallRaises, ClaimAnswerLost, Crash, ThreadPc, InBody
<1>5. run = "absent" => run' = run
  BY <1>4, GotoWork DEF InTurn, Inserted, TypeOK
<1>6. faults' = 0 => faults = 0
  BY DEF Proceed, ThreadFault, FetchQueued, Heartbeat, ClassifyReadiness, MarkStageSkipped,
         ClaimStage, LoseClaim, MarkRunRunning, FinishBody, RaiseInBody, SucceedStage, FailStage, FailRun,
         CheckRunComplete, CompleteRun, WriteIgnored, CallRaises, ClaimAnswerLost, Crash, Fault, TypeOK
<1>7. ASSUME NEW u \in Threads, thread'[u].pc = "skip"
      PROVE  thread'[u] = thread[u] \/ (SameWork(u) /\ BlockedTerminal(thread[u].row))
  <2>1. CASE ClassifyReadiness(t)
    <3>1. PICK to \in {"skip", "claim", "idle"} :
             Goto(t, "classify", to) /\ (to = "skip" => BlockedTerminal(thread[t].row))
      BY <2>1 DEF ClassifyReadiness
    <3>2. QED
      BY <1>7, <3>1, GotoAlone
  <2>2. CASE (\E row \in Rows : FetchQueued(t, row)) \/ ClaimStage(t) \/ Heartbeat(t) \/ Crash(Host[t])
    BY <1>7, <2>2 DEF TypeOK, FetchQueued, ClaimStage, Heartbeat, Crash, Idle
  <2>3. CASE \/ \E row \in Rows : FetchQueued(t, row)
             \/ \E from \in ThreadPc, to \in ThreadPc \ {"skip"} : Goto(t, from, to)
    BY <1>7, <2>3, GotoAlone DEF TypeOK, FetchQueued
  <2>4. \/ ClassifyReadiness(t) \/ ClaimStage(t) \/ Heartbeat(t) \/ Crash(Host[t])
        \/ \E row \in Rows : FetchQueued(t, row)
        \/ \E from \in ThreadPc, to \in ThreadPc \ {"skip"} : Goto(t, from, to)
    BY DEF Proceed, ThreadFault, MarkStageSkipped, LoseClaim, MarkRunRunning, FinishBody, RaiseInBody,
           SucceedStage, FailStage, FailRun, CheckRunComplete, CompleteRun, WriteIgnored, AfterIgnored,
           CallRaises, ClaimAnswerLost, ThreadPc, InBody
  <2>5. QED
    BY <2>1, <2>2, <2>3, <2>4
<1>8. ASSUME NEW u \in Threads, thread'[u].pc = "skip" PROVE Ord(thread'[u].row) > 1
  <2>1. CASE thread'[u] = thread[u]
    BY <1>8, <2>1 DEF InTurn
  <2>2. CASE SameWork(u) /\ BlockedTerminal(thread[u].row)
    <3>1. PICK r \in Inserted : Ord(r) < Ord(thread[u].row)
      BY <2>2 DEF BlockedTerminal, Earlier
    <3>2. Ord(r) \in Ords /\ Ord(thread[u].row) \in Ords
      BY DEF Inserted, Rows, Ord, TypeOK
    <3>3. QED
      BY <2>2, <3>1, <3>2 DEF SameWork, Ords
  <2>3. QED
    BY <1>7, <1>8, <2>1, <2>2
<1>9. QED
  BY <1>2, <1>3, <1>5, <1>6, <1>8

LEMMA TurnInit == Init => InTurn
BY DEF Init, InTurn, Inserted, OnlyFirst, HasReset, Idle

LEMMA TurnStep ==
  ASSUME OneRelaunch, TypeOK, TypeOK', RowsAndAttempts, RowsAndAttempts', InTurn, [Next]_vars
  PROVE  InTurn'
<1>1. CASE CreateRun
  BY <1>1 DEF CreateRun, InTurn, Inserted, OnlyFirst, HasReset, RowsOf
<1>2. CASE CreateStagesFails
  <2>1. faults' # 0 /\ creator' = "done" /\ run' # "absent"
        /\ UNCHANGED <<stage, attempt, thread, request>>
    BY <1>2 DEF CreateStagesFails, Fault, PatchRun, TypeOK, InTurn
  <2>2. QED
    BY <2>1 DEF InTurn, Inserted, OnlyFirst, HasReset, RowsOf
<1>3. CASE CreateStages
  <2>1. /\ creator = "stages" /\ creator' = "done"
        /\ attempt' = attempt + 1
        /\ UNCHANGED <<run, thread, request, faults>>
        /\ \A row \in Rows : stage'[row] = IF row[1] = Creator THEN "queued" ELSE stage[row]
    BY <1>3 DEF CreateStages, QueueRowsOf
  <2>2. run' # "absent"
    BY <2>1 DEF InTurn
  <2>3. \A ord \in Ords : <<Creator, ord>> \in Rows
    BY DEF Rows, Inserters
  <2>4. OnlyFirst => attempt = 0
    BY <2>1 DEF OnlyFirst, RowsAndAttempts, TypeOK
  <2>5. OnlyFirst => OnlyFirst'
    BY <2>1, <2>4 DEF OnlyFirst
  <2>6. QED
    BY <2>1, <2>2, <2>3, <2>5 DEF InTurn
<1>4. ASSUME NEW q \in Requests, LaunchStep(q) \/ HistoryLost(q) \/ RequestFails(q)
      PROVE  InTurn'
  <2>1. \A p \in Requests : p = q
    BY DEF OneRelaunch
  <2>2. run # "absent"
    BY <1>4 DEF LaunchStep, HistoryLost, RequestFails, ReadRun, ReadFailureCount, WriteFailureHistory,
          Requeue, ReadStages, InsertStages, ResetStages, ClearOutputs, RequestStep, InTurn
  <2>3. run' # "absent" /\ UNCHANGED <<creator, thread>> /\ (faults' = 0 => faults = 0)
    BY <1>4, <2>2 DEF LaunchStep, HistoryLost, RequestFails, ReadRun, ReadFailureCount, WriteFailureHistory,
          Requeue, ReadStages, InsertStages, ResetStages, ClearOutputs, PatchRun, Fault, TypeOK
  <2>4. CASE InsertStages(q)
    <3>1. /\ request'[q].pc = "clear"
          /\ \A row \in Rows : stage'[row] = IF row[1] = q THEN "queued" ELSE stage[row]
      BY <2>4 DEF InsertStages, QueueRowsOf, RequestStep, TypeOK
    <3>2. <<q, 1>> \in Rows /\ \A ord \in Ords : <<Creator, ord>> \in Rows
      BY DEF Rows, Inserters, Ords
    <3>3. RowsOf(q)' # {}
      BY <3>1, <3>2 DEF RowsOf, Inserted
    <3>4. QED
      BY <2>1, <2>2, <2>3, <3>1, <3>2, <3>3 DEF InTurn, HasReset
  <2>5. CASE ResetStages(q)
    <3>1. /\ request[q].pc = "reset" /\ request'[q].pc = "clear"
          /\ \A row \in Rows : stage'[row] = "absent" <=> stage[row] = "absent"
      BY <2>5 DEF ResetStages, RequestStep, TypeOK
    <3>2. OnlyFirst /\ attempt = 1
      BY <3>1 DEF InTurn, RowsAndAttempts, OnlyFirst, TypeOK
    <3>3. creator = "done"
      BY <3>2 DEF RowsAndAttempts
    <3>4. \A ord \in Ords : <<Creator, ord>> \in Rows
      BY DEF Rows, Inserters
    <3>5. QED
      BY <2>1, <2>2, <2>3, <3>1, <3>3, <3>4 DEF InTurn
  <2>6. CASE ~InsertStages(q) /\ ~ResetStages(q)
    <3>1. UNCHANGED <<stage, attempt>>
      BY <1>4, <2>6 DEF LaunchStep, HistoryLost, RequestFails, ReadRun, ReadFailureCount,
                        WriteFailureHistory, Requeue, ReadStages, ClearOutputs
    <3>2. request[q].pc \in {"clear", "done"} => request'[q].pc \in {"clear", "done"}
      BY <1>4, <2>6 DEF LaunchStep, HistoryLost, RequestFails, ReadRun, ReadFailureCount, TypeOK,
                        WriteFailureHistory, Requeue, ReadStages, ClearOutputs, RequestStep
    <3>3. (OnlyFirst' <=> OnlyFirst) /\ Inserted' = Inserted /\ RowsOf(q)' = RowsOf(q)
      BY <3>1 DEF OnlyFirst, Inserted, RowsOf
    <3>4. request[q].pc \notin {"clear", "done"} => OnlyFirst
      BY DEF InTurn
    <3>5. HasReset(q)' => HasReset(q)
      BY <3>3, <3>4 DEF HasReset
    <3>6. request'[q].pc \notin {"clear", "done"} => OnlyFirst'
      BY <3>2, <3>3, <3>4
    <3>7. QED
      BY <2>1, <2>2, <2>3, <3>1, <3>5, <3>6 DEF InTurn
  <2>7. QED
    BY <2>4, <2>5, <2>6
<1>5. ASSUME NEW t \in Threads,
             (\E row \in Rows : FetchQueued(t, row)) \/ Proceed(t) \/ Heartbeat(t) \/ ThreadFault(t)
      PROVE  InTurn'
  <2>1. ThreadWork
    BY <1>5, ThreadWorks
  <2>2. /\ run' = "absent" <=> run = "absent"
        /\ Inserted' = Inserted
        /\ OnlyFirst' <=> OnlyFirst
        /\ faults' = 0 => faults = 0
        /\ \A u \in Threads : thread'[u].pc = "skip" => Ord(thread'[u].row) > 1
    BY <1>5, ThreadKeepsTurn
  <2>3. \A q \in Requests : HasReset(q)' => HasReset(q)
    BY <2>1, <2>2 DEF HasReset, RowsOf, ThreadWork
  <2>4. \A ord \in Ords : <<Creator, ord>> \in Rows
    BY DEF Rows, Inserters
  <2>5. QED
    BY <2>1, <2>2, <2>3, <2>4 DEF InTurn, ThreadWork
<1>6. CASE UNCHANGED vars
  BY <1>6 DEF vars, InTurn, Inserted, OnlyFirst, HasReset, RowsOf
<1>7. QED
  BY <1>1, <1>2, <1>3, <1>4, <1>5, <1>6 DEF Next, CreateStep, OneRelaunch

-----------------------------------------------------------------------------
\* The reset of a first attempt: no thread that decides the first row leaves
\* one behind that decides or skips the second.
LEMMA ResetLeavesWork ==
  ASSUME OneRelaunch, TypeOK, TypeOK', RowsAndAttempts, InTurn, FirstInv, OneExecutorPerAttempt,
         faults = 0, NEW q \in Requests, ResetStages(q)
  PROVE  FirstWaits'
<1>1. request[q].pc = "reset" /\ UNCHANGED thread
  BY DEF ResetStages, RequestStep
<1>2. OnlyFirst /\ attempt = 1
  BY <1>1 DEF InTurn, RowsAndAttempts, OnlyFirst, TypeOK
<1>3. FirstClaims /\ DecidersWork /\ SkippersBlocked /\ StagesInOrder /\ Reapers = {}
  BY <1>2 DEF FirstInv, FirstAttempt, OneRelaunch
<1>4. \A ord \in Ords : <<Creator, ord>> \in Inserted
  BY <1>2 DEF RowsAndAttempts, Inserted, Rows, Inserters
<1>5. First \in Inserted /\ (NStages # 1 => Second \in Inserted)
  <2>1. 1 \in Ords /\ (NStages # 1 => 2 \in Ords)
    BY DEF Ords
  <2>2. QED
    BY <1>4, <2>1 DEF First, Second
<1>6. stage'[First] = "queued" /\ (NStages # 1 => stage'[Second] = "queued")
  BY <1>5 DEF ResetStages, Inserted
<1>7. \A row : Undecided(row)' <=> Undecided(row)
  BY <1>1 DEF Undecided, Decides
<1>8. \A row \in Inserted : row[1] = Creator
  BY <1>2 DEF OnlyFirst, Inserted
<1>9. ASSUME NEW t \in Threads, Decides(t, First)
      PROVE  OneDecider(First) /\ (NStages = 1 \/ Untouched(Second)')
  <2>1. OneDecider(First)
    BY <1>3, OneDecides DEF OneDecider, Decides, SameRow
  <2>2. stage[First] = "running"
    BY <1>3, <1>9 DEF DecidersWork, Decides
  <2>3. ASSUME NStages # 1 PROVE Untouched(Second)'
    <3>1. First \in Earlier(Second)
      BY <1>5, <1>8, <2>3, BeforeSecond DEF Earlier
    <3>2. Undecided(Second)
      BY <2>2, <3>1, <1>3, DecidedInOrder DEF Undecided, Decides, Ready
    <3>3. ~\E r \in Earlier(Second) : Doomed(r)
      BY <1>8, <1>9, BeforeSecond DEF Doomed, Undecided
    <3>4. \A u \in Threads : thread[u].pc = "skip" => thread[u].row # Second
      BY <1>3, <3>3 DEF SkippersBlocked
    <3>5. QED
      BY <1>1, <1>6, <1>7, <2>3, <3>2, <3>4 DEF Untouched, Second
  <2>4. QED
    BY <2>1, <2>3
<1>10. OneDecider(First)' <=> OneDecider(First)
  BY <1>1 DEF OneDecider, Decides, First
<1>11. QED
  BY <1>6, <1>7, <1>9, <1>10 DEF FirstWaits, Undecided, First, Second

LEMMA CalmRoute ==
  ASSUME OneRelaunch, TypeOK, TypeOK', RowsAndAttempts, RowsAndAttempts', InTurn, InTurn',
         FirstInv, OneExecutorPerAttempt, faults = 0, FreshHasWork, ResetHasWork,
         NEW q \in Requests, LaunchStep(q)
  PROVE  FreshHasWork' /\ ResetHasWork'
<1>1. \A p \in Requests : p = q
  BY DEF OneRelaunch
<1>2. UNCHANGED <<thread, creator>>
  BY DEF LaunchStep, ReadRun, ReadFailureCount, WriteFailureHistory, Requeue, ReadStages, InsertStages,
         ResetStages, ClearOutputs
<1>3. CASE Requeue(q)
  <2>1. request'[q].pc = "stages" /\ UNCHANGED stage
    BY <1>3 DEF Requeue, RequestStep, TypeOK
  <2>2. Fresh(q)' => Inserted' = {}
    BY <2>1 DEF Fresh
  <2>3. Inserted' = {} => \A t \in Threads : ~Executing(t)'
    BY DEF RowsAndAttempts, Inserted, Executing, InBody, TypeOK
  <2>4. FreshHasWork'
    BY <1>1, <2>2, <2>3 DEF FreshHasWork
  <2>5. ~HasReset(q)'
    BY <2>1 DEF HasReset
  <2>6. QED
    BY <1>1, <2>4, <2>5 DEF ResetHasWork
<1>4. CASE InsertStages(q)
  <2>1. /\ request[q].pc = "insert" /\ request'[q].pc = "clear"
        /\ run' = run
        /\ \A row \in Rows : stage'[row] = IF row[1] = q THEN "queued" ELSE stage[row]
    BY <1>4 DEF InsertStages, QueueRowsOf, RequestStep, TypeOK
  <2>2. <<q, 1>> \in Rows
    BY DEF Rows, Inserters, Ords
  <2>3. RowsOf(q)' # {}
    BY <2>1, <2>2 DEF RowsOf, Inserted
  <2>4. ResetHasWork'
    BY <1>1, <2>3 DEF ResetHasWork, HasReset
  <2>5. Fresh(q)
    BY <2>1 DEF Fresh
  <2>6. \A row \in Inserted' : stage'[row] = "queued" \/ (row \in Inserted /\ stage'[row] = stage[row])
    BY <2>1 DEF Inserted
  <2>7. FreshHasWork'
    BY <1>1, <1>2, <2>1, <2>5, <2>6 DEF FreshHasWork, Executing, Marking
  <2>8. QED
    BY <2>4, <2>7
<1>5. CASE ResetStages(q)
  <2>1. /\ request[q].pc = "reset" /\ request'[q].pc = "clear"
        /\ \A row \in Rows : stage'[row] = "absent" <=> stage[row] = "absent"
    BY <1>5 DEF ResetStages, RequestStep, TypeOK
  <2>2. ~OnlyFirst' /\ OnlyFirst
    BY <2>1 DEF RowsAndAttempts, InTurn
  <2>3. RowsOf(q)' = {}
    BY <2>1, <2>2 DEF RowsOf, OnlyFirst, Inserted
  <2>4. ~Fresh(q)'
    BY <2>1, <2>2, <2>3 DEF Fresh
  <2>5. Work'
    BY <1>5, ResetLeavesWork DEF Work
  <2>6. QED
    BY <2>4, <2>5 DEF FreshHasWork, ResetHasWork
<1>6. CASE ~Requeue(q) /\ ~InsertStages(q) /\ ~ResetStages(q)
  <2>1. UNCHANGED <<run, stage, attempt>>
    BY <1>6 DEF LaunchStep, ReadRun, ReadFailureCount, WriteFailureHistory, ReadStages, ClearOutputs
  <2>2. (OnlyFirst' <=> OnlyFirst) /\ Inserted' = Inserted /\ RowsOf(q)' = RowsOf(q)
    BY <2>1 DEF OnlyFirst, Inserted, RowsOf
  <2>3. \/ request[q].pc \in {"ready", "count", "history"}
        \/ request[q].pc = "stages" /\ (request'[q].pc = "insert" <=> Inserted = {})
                                    /\ request'[q].pc \in {"insert", "reset"}
        \/ request[q].pc = "clear" /\ request'[q].pc = "done"
    BY <1>6 DEF LaunchStep, ReadRun, ReadFailureCount, WriteFailureHistory, ReadStages, ClearOutputs,
                RequestStep, TypeOK
  <2>4. Fresh(q)' => Fresh(q)
    BY <2>2, <2>3 DEF Fresh
  <2>5. HasReset(q)' => HasReset(q)
    BY <2>2, <2>3 DEF HasReset, InTurn
  <2>6. FreshHasWork'
    BY <1>1, <1>2, <2>1, <2>2, <2>4 DEF FreshHasWork, Executing, Marking
  <2>7. Work' <=> Work
    BY <1>2, <2>1 DEF Work, RunAboutToMove, FirstWaits, SecondWaits, LastIsChecked, Undecided, Decides,
                      OneDecider, Untouched, First, Second
  <2>8. QED
    BY <1>1, <2>1, <2>5, <2>6, <2>7 DEF ResetHasWork
<1>7. QED
  BY <1>3, <1>4, <1>5, <1>6

LEMMA CalmCreate ==
  ASSUME OneRelaunch, TypeOK, TypeOK', RowsAndAttempts, InTurn, InTurn',
         FreshHasWork, ResetHasWork, CreateStep
  PROVE  FreshHasWork' /\ ResetHasWork'
<1>1. CASE CreateRun
  <2>1. Inserted' = {} /\ UNCHANGED <<thread, request>> /\ \A q \in Requests : request[q].pc = "ready"
    BY <1>1 DEF CreateRun, InTurn, Inserted
  <2>2. \A t \in Threads : ~Executing(t)'
    BY <1>1 DEF CreateRun, InTurn, RowsAndAttempts, Inserted, Executing, InBody, TypeOK
  <2>3. QED
    BY <2>1, <2>2 DEF FreshHasWork, ResetHasWork, HasReset
<1>2. CASE CreateStages
  <2>1. /\ creator = "stages"
        /\ attempt' = attempt + 1
        /\ UNCHANGED <<run, thread, request>>
        /\ \A row \in Rows : stage'[row] = IF row[1] = Creator THEN "queued" ELSE stage[row]
    BY <1>2 DEF CreateStages, QueueRowsOf
  <2>2. <<Creator, 1>> \in Rows
    BY DEF Rows, Inserters, Ords
  <2>3. Inserted' # {}
    BY <2>1, <2>2 DEF Inserted
  <2>4. OnlyFirst => OnlyFirst'
    BY <2>1 DEF OnlyFirst, RowsAndAttempts, TypeOK
  <2>5. OnlyFirst' => OnlyFirst
    BY <2>1 DEF OnlyFirst, TypeOK
  <2>6. ASSUME NEW q \in Requests PROVE RowsOf(q)' = RowsOf(q)
    BY <2>1 DEF RowsOf, Inserted
  <2>7. \A q \in Requests : (Fresh(q)' => Fresh(q)) /\ (HasReset(q)' => HasReset(q))
    BY <2>1, <2>3, <2>4, <2>5, <2>6 DEF Fresh, HasReset
  <2>8. \A q \in Requests : ~HasReset(q)'
    BY <2>1, <2>7 DEF InTurn
  <2>9. \A row \in Inserted' : stage'[row] = "queued" \/ (row \in Inserted /\ stage'[row] = stage[row])
    BY <2>1 DEF Inserted
  <2>10. FreshHasWork'
    BY <2>1, <2>7, <2>9 DEF FreshHasWork, Executing, Marking
  <2>11. QED
    BY <2>8, <2>10 DEF ResetHasWork
<1>3. QED
  BY <1>1, <1>2 DEF CreateStep

LEMMA CalmWorker ==
  ASSUME OneRelaunch, TypeOK, TypeOK', RowsAndAttempts, InTurn, FreshHasWork, ResetHasWork,
         NEW t \in Threads, (\E row \in Rows : FetchQueued(t, row)) \/ Proceed(t) \/ Heartbeat(t)
  PROVE  FreshHasWork' /\ ResetHasWork'
<1> SUFFICES ASSUME run' = "queued" PROVE FreshHasWork' /\ ResetHasWork'
  BY DEF FreshHasWork, ResetHasWork
<1>1. run = "queued" /\ CalmStep(t)
  BY CalmThread
<1>2. ThreadWork
  BY ThreadWorks
<1>3. Inserted' = Inserted /\ (OnlyFirst' <=> OnlyFirst) /\ UNCHANGED request
  BY <1>2, ThreadKeepsTurn DEF ThreadWork
<1>4. \A q \in Requests : (Fresh(q)' => Fresh(q)) /\ (HasReset(q)' => HasReset(q))
  BY <1>3 DEF Fresh, HasReset, RowsOf
<1>5. FreshHasWork'
  BY <1>1, <1>3, <1>4, FreshThread DEF FreshHasWork
<1>6. ASSUME NEW q \in Requests, HasReset(q) PROVE Work'
  <2>1. Work
    BY <1>1, <1>6 DEF ResetHasWork
  <2>2. \A row \in Inserted : row[1] = Creator
    BY <1>6 DEF HasReset, RowsOf, OneRelaunch, Inserted, Rows, Inserters
  <2>3. QED
    BY <1>1, <2>1, <2>2, ResetThread
<1>7. ResetHasWork'
  BY <1>4, <1>6 DEF ResetHasWork
<1>8. QED
  BY <1>5, <1>7

LEMMA CalmInit == Init => CalmInv
BY DEF Init, CalmInv, FreshHasWork, ResetHasWork

LEMMA StepOfCalm ==
  ASSUME OneRelaunch, TypeOK, TypeOK', RowsAndAttempts, RowsAndAttempts', InTurn, InTurn',
         FirstInv, OneExecutorPerAttempt, CalmInv, [Next]_vars
  PROVE  CalmInv'
<1> SUFFICES ASSUME faults' = 0 PROVE FreshHasWork' /\ ResetHasWork'
  BY DEF CalmInv
<1>1. \/ CreateStep
      \/ \E q \in Requests : LaunchStep(q)
      \/ \E t \in Threads : (\E row \in Rows : FetchQueued(t, row)) \/ Proceed(t) \/ Heartbeat(t)
      \/ UNCHANGED vars
  BY DEF Next, CreateStagesFails, HistoryLost, RequestFails, ThreadFault, WriteIgnored, CallRaises,
         ClaimAnswerLost, Crash, Fault, TypeOK, OneRelaunch
<1>2. faults = 0
  <2>1. ASSUME NEW t \in Threads, (\E row \in Rows : FetchQueued(t, row)) \/ Proceed(t) \/ Heartbeat(t)
        PROVE  faults = 0
    BY <2>1, ThreadKeepsTurn
  <2>2. ASSUME NEW q \in Requests, LaunchStep(q) PROVE faults = 0
    BY <2>2 DEF LaunchStep, ReadRun, ReadFailureCount, WriteFailureHistory, Requeue, ReadStages,
                InsertStages, ResetStages, ClearOutputs
  <2>3. QED
    BY <1>1, <2>1, <2>2 DEF CreateStep, CreateRun, CreateStages, vars
<1>3. FreshHasWork /\ ResetHasWork
  BY <1>2 DEF CalmInv
<1>4. CASE UNCHANGED vars
  BY <1>3, <1>4 DEF vars, FreshHasWork, ResetHasWork, Fresh, HasReset, RowsOf, OnlyFirst, Inserted,
        Executing, Marking, Work, RunAboutToMove, FirstWaits, SecondWaits, LastIsChecked, Undecided,
        Decides, OneDecider, Untouched, First, Second
<1>5. QED
  BY <1>1, <1>2, <1>3, <1>4, CalmCreate, CalmRoute, CalmWorker

LEMMA CalmHasWork ==
  ASSUME OneRelaunch, TypeOK, RowsAndAttempts, InTurn, CalmInv
  PROVE  QueuedRunHasWork
<1> SUFFICES ASSUME run = "queued", creator = "done", faults = 0,
                    \A q \in Requests : request[q].pc \in {"ready", "done"}
             PROVE  \/ \E row \in Rows : stage[row] = "queued"
                    \/ \E t \in Threads : Executing(t)
  BY DEF QueuedRunHasWork
<1>1. First \in Inserted /\ Ord(First) = 1 /\ (NStages # 1 => Second \in Rows)
  <2>1. 1 \in Ords /\ (NStages # 1 => 2 \in Ords)
    BY DEF Ords
  <2>2. QED
    BY <2>1 DEF InTurn, Inserted, First, Second, Rows, Inserters, Ord
<1>2. CASE \A q \in Requests : Fresh(q)
  BY <1>1, <1>2 DEF CalmInv, FreshHasWork, Inserted, Marking, Executing, InBody
<1>3. CASE \E q \in Requests : HasReset(q)
  BY <1>1, <1>3 DEF CalmInv, ResetHasWork, Work, RunAboutToMove, FirstWaits, SecondWaits, LastIsChecked,
                    Untouched, Inserted, Executing, InBody
<1>4. QED
  BY <1>2, <1>3 DEF Fresh, HasReset

\* With at most one relaunch, no reaper and until a call is lost, a run that
\* says queued while no request is at work has a stage that a worker finds
\* queued or one that is executing, whatever threads of the first attempt
\* write into the second: routeAcceptsRelaunchOfStatus lets a queued run be
\* launched while workers are taking its stages.
THEOREM RelaunchLeavesWork ==
  ASSUME Reapers = {}, \A p, q \in Requests : p = q
  PROVE  Spec => []QueuedRunHasWork
<1>1. OneRelaunch
  BY DEF OneRelaunch
<1>2. Init => InTurn /\ CalmInv
  BY TurnInit, CalmInit
<1>3. TypeOK /\ TypeOK' /\ RowsAndAttempts /\ RowsAndAttempts' /\ InTurn /\ [Next]_vars => InTurn'
  BY <1>1, TurnStep
<1>4. TypeOK /\ TypeOK' /\ RowsAndAttempts /\ RowsAndAttempts' /\ InTurn /\ InTurn' /\ FirstInv
      /\ OneExecutorPerAttempt /\ CalmInv /\ [Next]_vars => CalmInv'
  BY <1>1, StepOfCalm
<1>5. TypeOK /\ RowsAndAttempts /\ InTurn /\ CalmInv => QueuedRunHasWork
  BY <1>1, CalmHasWork
<1>6. QED
  BY <1>2, <1>3, <1>4, <1>5, TypeCorrect, FirstInvariant, ExecutorIsUnique, PTL DEF Spec

=============================================================================
