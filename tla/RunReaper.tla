----------------------------- MODULE RunReaper -----------------------------
(***************************************************************************)
(* The clocks behind the stale-run reaper.  The only sign of life of a run *)
(* is updated_at of its rows, which a trigger stamps with the database     *)
(* clock.  The cron sweep and the page loader load rows, classify them in  *)
(* JavaScript against Date.now(), and call reap_model_run_if_stale for the *)
(* stale ones with the freshest timestamp they saw; the procedure reaps if *)
(* nothing has a later one.                                                *)
(*                                                                         *)
(* Time is counted in ticks of the database clock.  JavaScript keeps       *)
(* milliseconds of TicksPerMs ticks, so a timestamp that passes through it *)
(* is cut down to a multiple of TicksPerMs.  The calls a worker makes at   *)
(* one point of a stage are one step here (ModelRuns has them apart).      *)
(***************************************************************************)
EXTENDS Naturals, FiniteSets, FiniteSetsExt

CONSTANTS
    Runs,
    NStages,
    Workers,
    Owns,            \* [Workers -> SUBSET (1..NStages)]: the stages a worker polls for
    None,            \* no job
    Crons, Pages,    \* invocations of the cron route, loads of the model page
    TicksPerMs,
    QueueStale,      \* QUEUE_STALE_THRESHOLD_MS, in ticks
    RunStale,        \* RUN_STALE_THRESHOLD_MS, in ticks
    Beat,            \* a stage that is executed patches its log at least this often
    Period,          \* a sweep starts at least this often and ends before the next
    Skew,            \* how far the workers' clocks are ahead of the database clock
    MaxNow           \* bound on the clock

Reapers == Crons \cup Pages
Ords == 1..NStages
Stages == Runs \X Ords

ASSUME TimeAssumption ==
    /\ TicksPerMs \in Nat \ {0} /\ Beat \in Nat \ {0} /\ Period \in Nat \ {0}
    /\ QueueStale \in Nat /\ RunStale \in Nat /\ Skew \in Nat /\ MaxNow \in Nat
ASSUME PartsAssumption ==
    /\ NStages \in Nat \ {0} /\ None \notin Stages /\ Crons \cap Pages = {} /\ Crons # {}
    /\ Owns \in [Workers -> SUBSET Ords]

VARIABLES
    now,       \* the database clock
    run,       \* model_runs: status, updated_at
    stage,     \* model_run_stages: status, updated_at, and the last of started_at and completed_at
    job,       \* the stage each worker executes
    reaper,    \* each reaper: what it does next and the runs it holds for stale
    started,   \* when the last sweep of each cron started
    moved      \* history: the runs written to since each reaper loaded its rows

vars == <<now, run, stage, job, reaper, started, moved>>

Live == {"queued", "running"}
Terminal == {"succeeded", "failed"}

\* new Date(t).getTime() and toISOString: whole milliseconds.
JsTime(t) == (t \div TicksPerMs) * TicksPerMs

-----------------------------------------------------------------------------
(***************************************************************************)
(* run-liveness.ts, on the rows a reaper loaded.                           *)
(***************************************************************************)
StagesOf(r) == {r} \X Ords

\* The freshest sign of life, also sent as p_stale_before.
LastProgress(r) ==
    Max({JsTime(run[r].updatedAt)}
          \cup UNION {{JsTime(stage[s].at), JsTime(stage[s].updatedAt)} : s \in StagesOf(r)})

HasRunningStage(r) ==
    \/ run[r].status = "running"
    \/ \E s \in StagesOf(r) : stage[s].status = "running"

\* Variant: one threshold for all.
SilentForQueue(r, limit) == JsTime(now) > LastProgress(r) + QueueStale

Silent(r, limit) == JsTime(now) > LastProgress(r) + limit

\* isWorkerLikelyAlive, on the runs the cron route loads: all live ones.
WorkerLikelyAlive ==
    \E r \in Runs : run[r].status \in Live /\ HasRunningStage(r) /\ ~Silent(r, RunStale)

\* classifyRunLiveness of the runs that are shown or swept.  Whether a silent
\* queued run is stale depends on the worker being alive as well.
StaleCalls(runs) ==
    [run : {r \in runs : HasRunningStage(r) /\ Silent(r, RunStale)}, liveness : {"stale_running"}]
      \cup
    [run : {r \in runs : ~HasRunningStage(r) /\ Silent(r, QueueStale)}, liveness : {"stale_queued"}]

WithTime(calls) ==
    {[run |-> c.run, liveness |-> c.liveness, staleBefore |-> LastProgress(c.run)] : c \in calls}
QueuedCalls(calls) == {c \in calls : c.liveness = "stale_queued"}

-----------------------------------------------------------------------------
Resting == [pc |-> "idle", todo |-> {}]
Reaping(todo) == IF todo = {} THEN Resting ELSE [pc |-> "reaping", todo |-> todo]

Init ==
    /\ now = 0
    /\ run = [r \in Runs |-> [status |-> "absent", updatedAt |-> 0]]
    /\ stage = [s \in Stages |-> [status |-> "queued", at |-> 0, updatedAt |-> 0]]
    /\ job = [w \in Workers |-> None]
    /\ reaper = [k \in Reapers |-> Resting]
    /\ started = [k \in Crons |-> 0]
    /\ moved = [k \in Reapers |-> {}]

Write(r) == moved' = [k \in Reapers |-> moved[k] \cup {r}]
StampRun(r, status) == run' = [run EXCEPT ![r] = [status |-> status, updatedAt |-> now]]
\* started_at and completed_at carry the worker's clock, updated_at the database's.
StampStage(s, status) ==
    stage' = [stage EXCEPT ![s] = [status |-> status, at |-> now + Skew, updatedAt |-> now]]

Create(r) ==
    /\ run[r].status = "absent"
    /\ StampRun(r, "queued")
    /\ stage' = [s \in Stages |-> IF s[1] = r THEN [stage[s] EXCEPT !.at = now, !.updatedAt = now]
                                  ELSE stage[s]]
    /\ Write(r)
    /\ UNCHANGED <<now, job, reaper, started>>

\* A worker takes a queued stage behind succeeded ones and executes it; which
\* run comes first depends on the poll order and on the pushes.
Claim(w, s) ==
    /\ job[w] = None
    /\ run[s[1]].status # "absent"
    /\ stage[s].status = "queued" /\ s[2] \in Owns[w]
    /\ \A p \in StagesOf(s[1]) : p[2] < s[2] => stage[p].status = "succeeded"
    /\ job' = [job EXCEPT ![w] = s]
    /\ StampStage(s, "running")
    /\ StampRun(s[1], "running")
    /\ Write(s[1])
    /\ UNCHANGED <<now, reaper, started>>

\* sb_patch_stage of log_tail: updated_at and nothing else.
PatchLog(w) ==
    /\ job[w] # None
    /\ stage' = [stage EXCEPT ![job[w]].updatedAt = now]
    /\ Write(job[w][1])
    /\ UNCHANGED <<now, run, job, reaper, started>>

Succeed(w) ==
    LET s == job[w] IN
    /\ s # None
    /\ StampStage(s, "succeeded")
    /\ IF \A p \in StagesOf(s[1]) \ {s} : stage[p].status = "succeeded"
       THEN StampRun(s[1], "succeeded") ELSE UNCHANGED run
    /\ job' = [job EXCEPT ![w] = None]
    /\ Write(s[1])
    /\ UNCHANGED <<now, reaper, started>>

Fail(w) ==
    LET s == job[w] IN
    /\ s # None
    /\ StampStage(s, "failed")
    /\ StampRun(s[1], "failed")
    /\ job' = [job EXCEPT ![w] = None]
    /\ Write(s[1])
    /\ UNCHANGED <<now, reaper, started>>

Die(w) ==
    /\ job[w] # None
    /\ job' = [job EXCEPT ![w] = None]
    /\ UNCHANGED <<now, run, stage, reaper, started, moved>>

-----------------------------------------------------------------------------
LiveRuns == {r \in Runs : run[r].status \in Live}

\* The cron route loads every live run and infers from them whether a worker
\* is alive.
Sweep(k) ==
    LET calls == WithTime(StaleCalls(LiveRuns)) IN
    /\ reaper[k].pc = "idle"
    /\ reaper' = [reaper EXCEPT ![k] = Reaping(IF WorkerLikelyAlive THEN calls \ QueuedCalls(calls)
                                               ELSE calls)]
    /\ started' = [started EXCEPT ![k] = now]
    /\ moved' = [moved EXCEPT ![k] = {}]
    /\ UNCHANGED <<now, run, stage, job>>

\* The page loads the runs of one model, and then asks for any running stage
\* that was patched of late.
LoadPage(k) ==
    /\ reaper[k].pc = "idle"
    /\ \E runs \in (SUBSET LiveRuns) \ {{}} :
          reaper' = [reaper EXCEPT ![k] = [pc |-> "probe", todo |-> WithTime(StaleCalls(runs))]]
    /\ moved' = [moved EXCEPT ![k] = {}]
    /\ UNCHANGED <<now, run, stage, job, started>>

AliveProbe == \E s \in Stages : /\ stage[s].status = "running"
                                /\ stage[s].updatedAt + RunStale > JsTime(now)

ProbeAlive(k) ==
    /\ reaper[k].pc = "probe"
    /\ reaper' = [reaper EXCEPT ![k] = Reaping(IF AliveProbe THEN @.todo \ QueuedCalls(@.todo)
                                               ELSE @.todo)]
    /\ UNCHANGED <<now, run, stage, job, started, moved>>

\* reap_model_run_if_stale.
\* Variant: an update guarded by the status only.
LiveStill(r, staleBefore) == run[r].status \in Live

\* Variant: only what is older than the timestamp sent counts as quiet.
QuietBefore(r, staleBefore) ==
    /\ run[r].status \in Live
    /\ run[r].updatedAt < staleBefore
    /\ ~\E s \in StagesOf(r) : stage[s].updatedAt >= staleBefore

Quiet(r, staleBefore) ==
    /\ run[r].status \in Live
    /\ run[r].updatedAt <= staleBefore
    /\ ~\E s \in StagesOf(r) : stage[s].updatedAt > staleBefore

Called(k, call) ==
    /\ reaper[k].pc = "reaping"
    /\ reaper' = [reaper EXCEPT ![k] = Reaping(@.todo \ {call})]

\* Variant: the run is given a status that means something else.
ReapAsCancelled(k, call) ==
    /\ Quiet(call.run, call.staleBefore)
    /\ StampRun(call.run, "cancelled")
    /\ Write(call.run)
    /\ Called(k, call)
    /\ UNCHANGED <<now, stage, job, started>>

Reap(k, call) ==
    /\ Quiet(call.run, call.staleBefore)
    /\ StampRun(call.run, "failed")
    /\ stage' = [s \in Stages |->
                    IF s[1] = call.run /\ stage[s].status \in Live
                    THEN [status |-> "failed", at |-> now, updatedAt |-> now] ELSE stage[s]]
    /\ Write(call.run)
    /\ Called(k, call)
    /\ UNCHANGED <<now, job, started>>

ReapRefused(k, call) ==
    /\ ~Quiet(call.run, call.staleBefore)
    /\ Called(k, call)
    /\ UNCHANGED <<now, run, stage, job, started, moved>>

-----------------------------------------------------------------------------
\* Assumed of the environment: a stage is never silent for Beat ticks
\* (run-liveness.ts: "streams log_tail patches well inside this window"), and
\* the cron platform starts a sweep every Period, which ends in time.  The page
\* takes one Date.now() for its probe and its classification, so the clock
\* stands between its two steps.
Timely ==
    /\ \A w \in Workers : job[w] # None => now < stage[job[w]].updatedAt + Beat
    /\ \A k \in Crons : now < started[k] + Period
    /\ \A k \in Pages : reaper[k].pc # "probe"

Tick ==
    /\ now < MaxNow
    /\ Timely
    /\ now' = now + 1
    /\ UNCHANGED <<run, stage, job, reaper, started, moved>>

WorkerStep(w) == (\E s \in Stages : Claim(w, s)) \/ PatchLog(w) \/ Succeed(w) \/ Fail(w) \/ Die(w)

Next == \/ Tick
        \/ \E r \in Runs : Create(r)
        \/ \E w \in Workers : WorkerStep(w)
        \/ \E k \in Crons : Sweep(k)
        \/ \E k \in Pages : LoadPage(k) \/ ProbeAlive(k)
        \/ \E k \in Reapers : \E call \in reaper[k].todo : Reap(k, call) \/ ReapRefused(k, call)

Spec == Init /\ [][Next]_vars

-----------------------------------------------------------------------------
(***************************************************************************)
(* Properties.                                                             *)
(***************************************************************************)

\* Every variable has its type.
TypeOK ==
    /\ now \in 0..MaxNow
    /\ run \in [Runs -> [status : Live \cup Terminal \cup {"absent"}, updatedAt : 0..MaxNow]]
    /\ stage \in [Stages -> [status : Live \cup Terminal, at : 0..MaxNow + Skew,
                             updatedAt : 0..MaxNow]]
    /\ job \in [Workers -> Stages \cup {None}]
    /\ reaper \in [Reapers -> [pc : {"idle", "probe", "reaping"},
                               todo : SUBSET [run : Runs, staleBefore : 0..MaxNow + Skew,
                                              liveness : {"stale_queued", "stale_running"}]]]
    /\ started \in [Crons -> 0..MaxNow]
    /\ moved \in [Reapers -> SUBSET Runs]

Executed(r) == \E w \in Workers : job[w] \in StagesOf(r)
ReapedBy(k, r) == /\ reaper[k].pc = "reaping" /\ reaper'[k] # reaper[k]
                  /\ run[r].status \in Live /\ run'[r].status = "failed"

\* What the timestamp sent to reap_model_run_if_stale is for: a run that was
\* written to after the reaper read its rows is not reaped by it, although the
\* timestamp passed through milliseconds and the workers' clocks.
ReapSparesMoved == [][\A k \in Reapers, r \in Runs : ReapedBy(k, r) => r \notin moved[k]]_vars

\* The stage of a worker that is alive and logs in time is not reaped under it,
\* however long the stage takes and whenever the reaper reads.
ExecutedRunIsSpared == [][\A k \in Reapers, r \in Runs : ReapedBy(k, r) => ~Executed(r)]_vars

LastWrite(r) == Max({run[r].updatedAt} \cup {stage[s].updatedAt : s \in StagesOf(r)})
SilentForTooLong(r) ==
    run[r].status = "running" /\ now > LastWrite(r) + RunStale + Skew + TicksPerMs + 2 * Period

\* A run that says running is never silent for longer than the threshold, the
\* wait for the next sweep and the time of that sweep: what became of a dead
\* worker's run is told.
SilenceIsBounded == \A r \in Runs : ~SilentForTooLong(r)

\* The same of the runs whose newest timestamp is not cut below itself on its way
\* through JavaScript: on a whole millisecond, or stamped by a worker's clock
\* that is ahead.  Whatever the page loads do meanwhile, the sweep gets them.
ToldUnlessTruncated ==
    \A r \in Runs : LastProgress(r) >= LastWrite(r) => ~SilentForTooLong(r)
=============================================================================
