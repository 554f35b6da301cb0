-------------------------- MODULE RunReaperProofs --------------------------
(***************************************************************************)
(* Type correctness of RunReaper, that a reap spares what moved since the  *)
(* reaper read, that an executed run is spared when its stage logs inside  *)
(* the threshold, and that the sweep gets every silent run whose newest    *)
(* timestamp is not cut: for every set of runs, stages, workers, sweeps    *)
(* and page loads, every resolution of JavaScript's clock, all thresholds, *)
(* periods and skews, and every length of time.                            *)
(***************************************************************************)
EXTENDS RunReaper, WellFoundedInduction, TLAPS

USE TimeAssumption, PartsAssumption

-----------------------------------------------------------------------------
(***************************************************************************)
(* The inductive invariant.                                                *)
(***************************************************************************)
\* Timestamps lie in the past, but for the skew of the workers' clocks.
StampsArePast ==
    /\ \A r \in Runs : run[r].updatedAt <= now
    /\ \A s \in Stages : stage[s].updatedAt <= now /\ stage[s].at <= stage[s].updatedAt + Skew
    /\ \A k \in Crons : started[k] <= now /\ now <= started[k] + Period

Newer(r, t) == run[r].updatedAt > t \/ \E s \in StagesOf(r) : stage[s].updatedAt > t

\* The timestamp a reaper sends is older than its reading of the rows, so that
\* whatever was written to since has a newer one.
MovedIsNewer ==
    \A k \in Reapers : \A c \in reaper[k].todo :
        /\ c.staleBefore < now
        /\ c.run \in moved[k] => Newer(c.run, c.staleBefore)

IdleHasNoCalls == \A k \in Reapers : reaper[k].pc = "idle" => reaper[k].todo = {}

\* A stage is executed by one worker, says so, and was patched within a beat.
ExecutedIsFresh ==
    /\ \A w \in Workers : job[w] # None => /\ stage[job[w]].status = "running"
                                           /\ now <= stage[job[w]].updatedAt + Beat
    /\ \A v, w \in Workers : job[v] # None /\ job[v] = job[w] => v = w

\* A run a reaper holds for stale was not executed when it read.
ExecutedIsNewer ==
    \A k \in Reapers : \A c \in reaper[k].todo : Executed(c.run) => Newer(c.run, c.staleBefore)

\* run-liveness.ts: the worker "streams log_tail patches well inside this
\* window", and a timestamp loses less than a millisecond in JavaScript.
BeatsInsideWindow == Beat + TicksPerMs <= RunStale + 1

Uncut(r) == run[r].status = "running" /\ LastProgress(r) >= LastWrite(r)

\* What was silent when the sweep began is still on its list,
SweepHasSilent ==
    \A k \in Crons, r \in Runs :
        Uncut(r) /\ JsTime(started[k]) > LastProgress(r) + RunStale
            => \E c \in reaper[k].todo : c.run = r /\ c.staleBefore = LastProgress(r)

\* and had not been silent for long, or the sweep before had reaped it.
SweptBefore ==
    \A k \in Crons, r \in Runs :
        Uncut(r) => started[k] < LastProgress(r) + RunStale + TicksPerMs + Period

ClockInv == TypeOK /\ StampsArePast /\ MovedIsNewer /\ IdleHasNoCalls
SweepInv == SweepHasSilent /\ SweptBefore
ExecInv == ExecutedIsFresh /\ ExecutedIsNewer

-----------------------------------------------------------------------------
(***************************************************************************)
(* Numbers: the largest of some, and milliseconds.                         *)
(***************************************************************************)
LEMMA LeastNumber ==
  ASSUME NEW T, T \subseteq Nat, T # {}
  PROVE  \E x \in T : \A y \in T : x <= y
<1> DEFINE R == OpToRel(<, Nat)
<1>1. IsWellFoundedOn(R, Nat)
  BY NatLessThanWellFounded
<1>2. \A x, y \in Nat : x < y => <<x, y>> \in R
  BY DEF OpToRel
<1> HIDE DEF R
<1>3. \E x \in T : \A y \in T : ~(<<y, x>> \in R)
  BY <1>1, WFMin
<1>4. PICK x \in T : \A y \in T : ~(<<y, x>> \in R)
  BY <1>3
<1>5. \A y \in T : ~(y < x)
  BY <1>2, <1>4
<1>6. QED
  BY <1>5

LEMMA MaxOfBounded ==
  ASSUME NEW n \in Nat, NEW S, S \subseteq 0..n, S # {}
  PROVE  Max(S) \in S /\ \A x \in S : x <= Max(S)
<1> DEFINE T == {n - x : x \in S}
<1>1. \A x \in S : x \in Nat /\ n - x \in Nat
  OBVIOUS
<1>2. T \subseteq Nat /\ T # {}
  BY <1>1
<1>3. PICK y \in T : \A z \in T : y <= z
  BY <1>2, LeastNumber
<1>4. PICK x \in S : y = n - x
  BY <1>3
<1>5. \A z \in S : n - x <= n - z
  BY <1>3, <1>4
<1>6. \A z \in S : x >= z
  BY <1>5
<1>7. QED
  BY <1>6 DEF Max

LEMMA JsTimeCuts ==
  ASSUME NEW t \in Nat
  PROVE  JsTime(t) \in Nat /\ JsTime(t) <= t /\ t < JsTime(t) + TicksPerMs
BY DEF JsTime

LEMMA JsTimeMonotone ==
  ASSUME NEW t \in Nat, NEW u \in Nat, t <= u
  PROVE  JsTime(t) <= JsTime(u)
<1> DEFINE p == t \div TicksPerMs
           q == u \div TicksPerMs
<1>1. p \in Nat /\ q \in Nat /\ p * TicksPerMs <= t /\ u < q * TicksPerMs + TicksPerMs
  OBVIOUS
<1>2. CASE p <= q
  <2>1. p * TicksPerMs <= q * TicksPerMs
    BY <1>1, <1>2
  <2>2. QED
    BY <2>1 DEF JsTime
<1>3. CASE p >= q + 1
  <2>1. p * TicksPerMs >= (q + 1) * TicksPerMs
    BY <1>1, <1>3
  <2>2. (q + 1) * TicksPerMs = q * TicksPerMs + TicksPerMs
    BY <1>1
  <2>3. p * TicksPerMs \in Nat /\ q * TicksPerMs \in Nat
    BY <1>1
  <2> HIDE DEF p, q
  <2>4. QED
    BY <1>1, <2>1, <2>2, <2>3
<1>4. QED
  BY <1>1, <1>2, <1>3

-----------------------------------------------------------------------------
(***************************************************************************)
(* LastProgress and LastWrite bound the stamps they are taken from.        *)
(***************************************************************************)
LEMMA StageParts == ASSUME NEW r \in Runs, NEW s \in StagesOf(r) PROVE s \in Stages /\ s[1] = r
BY DEF StagesOf, Stages

LEMMA StampTypes ==
  TypeOK => /\ \A r \in Runs : run[r].updatedAt \in 0..MaxNow
            /\ \A s \in Stages : stage[s].updatedAt \in 0..MaxNow /\ stage[s].at \in 0..MaxNow + Skew
BY DEF TypeOK

ProgressBounds(r) ==
    /\ LastProgress(r) \in 0..MaxNow + Skew
    /\ LastProgress(r) >= JsTime(run[r].updatedAt)
    /\ \A s \in StagesOf(r) : LastProgress(r) >= JsTime(stage[s].updatedAt)
    /\ \/ LastProgress(r) = JsTime(run[r].updatedAt)
       \/ \E s \in StagesOf(r) : LastProgress(r) \in {JsTime(stage[s].at), JsTime(stage[s].updatedAt)}

LEMMA ProgressIsBounded == TypeOK => \A r \in Runs : ProgressBounds(r)
<1> SUFFICES ASSUME TypeOK, NEW r \in Runs PROVE ProgressBounds(r)
  OBVIOUS
<1> DEFINE S == {JsTime(run[r].updatedAt)}
                  \cup UNION {{JsTime(stage[s].at), JsTime(stage[s].updatedAt)} : s \in StagesOf(r)}
<1>1. \A t \in 0..MaxNow + Skew : JsTime(t) \in 0..MaxNow + Skew
  BY JsTimeCuts
<1>2. \A x \in S : \/ x = JsTime(run[r].updatedAt)
                   \/ \E s \in StagesOf(r) : x \in {JsTime(stage[s].at), JsTime(stage[s].updatedAt)}
  OBVIOUS
<1>3. /\ run[r].updatedAt \in 0..MaxNow + Skew
      /\ \A s \in StagesOf(r) : /\ stage[s].at \in 0..MaxNow + Skew
                                /\ stage[s].updatedAt \in 0..MaxNow + Skew
  BY StampTypes, StageParts
<1>4. S \subseteq 0..MaxNow + Skew
  BY <1>1, <1>2, <1>3
<1>5. JsTime(run[r].updatedAt) \in S /\ \A s \in StagesOf(r) : JsTime(stage[s].updatedAt) \in S
  OBVIOUS
<1>6. LastProgress(r) = Max(S)
  BY DEF LastProgress
<1> HIDE DEF S
<1>7. Max(S) \in S /\ \A x \in S : x <= Max(S)
  <2>1. MaxNow + Skew \in Nat
    OBVIOUS
  <2>2. QED
    BY <1>4, <1>5, <2>1, MaxOfBounded
<1>8. LastProgress(r) \in S /\ LastProgress(r) \in 0..MaxNow + Skew
  BY <1>4, <1>6, <1>7
<1>9. /\ LastProgress(r) >= JsTime(run[r].updatedAt)
      /\ \A s \in StagesOf(r) : LastProgress(r) >= JsTime(stage[s].updatedAt)
  <2>1. \A x \in S : x \in Nat /\ LastProgress(r) \in Nat /\ x <= LastProgress(r)
    BY <1>4, <1>6, <1>7, <1>8
  <2>2. QED
    BY <1>5, <2>1
<1>10. QED
  BY <1>2, <1>8, <1>9 DEF ProgressBounds

WriteBounds(r) ==
    /\ LastWrite(r) \in 0..MaxNow
    /\ LastWrite(r) >= run[r].updatedAt
    /\ \A s \in StagesOf(r) : LastWrite(r) >= stage[s].updatedAt

LEMMA WriteIsBounded == TypeOK => \A r \in Runs : WriteBounds(r)
<1> SUFFICES ASSUME TypeOK, NEW r \in Runs PROVE WriteBounds(r)
  OBVIOUS
<1> DEFINE S == {run[r].updatedAt} \cup {stage[s].updatedAt : s \in StagesOf(r)}
<1>1. S \subseteq 0..MaxNow
  BY StampTypes, StageParts
<1>2. run[r].updatedAt \in S /\ \A s \in StagesOf(r) : stage[s].updatedAt \in S
  OBVIOUS
<1>3. LastWrite(r) = Max(S)
  BY DEF LastWrite
<1> HIDE DEF S
<1>4. Max(S) \in S /\ \A x \in S : x <= Max(S)
  BY <1>1, <1>2, MaxOfBounded
<1>5. QED
  BY <1>1, <1>2, <1>3, <1>4 DEF WriteBounds

LEMMA BoundedNext == TypeOK' => (\A r \in Runs : ProgressBounds(r) /\ WriteBounds(r))'
<1>1. TypeOK => \A r \in Runs : ProgressBounds(r) /\ WriteBounds(r)
  BY ProgressIsBounded, WriteIsBounded
<1>2. QED
  BY <1>1, PTL

\* The skew is all that the newest timestamp can be ahead of the newest write.
LEMMA ProgressAheadBySkew ==
  ASSUME TypeOK, StampsArePast, NEW r \in Runs
  PROVE  LastProgress(r) <= LastWrite(r) + Skew
<1>1. ProgressBounds(r) /\ WriteBounds(r)
  BY ProgressIsBounded, WriteIsBounded
<1>2. ASSUME NEW t \in Nat, t <= LastWrite(r) + Skew PROVE JsTime(t) <= LastWrite(r) + Skew
  BY <1>1, <1>2, JsTimeCuts DEF WriteBounds
<1>3. run[r].updatedAt \in Nat /\ run[r].updatedAt <= LastWrite(r) + Skew
  BY <1>1, StampTypes DEF WriteBounds
<1>4. \A s \in StagesOf(r) : /\ stage[s].updatedAt \in Nat /\ stage[s].updatedAt <= LastWrite(r) + Skew
                             /\ stage[s].at \in Nat /\ stage[s].at <= LastWrite(r) + Skew
  BY <1>1, StampTypes, StageParts DEF WriteBounds, StampsArePast
<1>5. QED
  BY <1>1, <1>2, <1>3, <1>4 DEF ProgressBounds

-----------------------------------------------------------------------------
(***************************************************************************)
(* The types.                                                              *)
(***************************************************************************)
RunRow == [status : Live \cup Terminal \cup {"absent"}, updatedAt : 0..MaxNow]
StageRow == [status : Live \cup Terminal, at : 0..MaxNow + Skew, updatedAt : 0..MaxNow]
Call == [run : Runs, staleBefore : 0..MaxNow + Skew, liveness : {"stale_queued", "stale_running"}]

LEMMA StampRunType ==
  ASSUME TypeOK, NEW r \in Runs, NEW status \in Live \cup Terminal, StampRun(r, status)
  PROVE  run' \in [Runs -> RunRow]
<1>1. [status |-> status, updatedAt |-> now] \in RunRow
  BY DEF RunRow, TypeOK
<1>2. QED
  BY <1>1 DEF StampRun, TypeOK, RunRow

LEMMA StampStageType ==
  ASSUME TypeOK, NEW s \in Stages, NEW status \in Live \cup Terminal, StampStage(s, status)
  PROVE  stage' \in [Stages -> StageRow]
<1>1. now + Skew \in 0..MaxNow + Skew /\ now \in 0..MaxNow
  BY DEF TypeOK
<1>2. [status |-> status, at |-> now + Skew, updatedAt |-> now] \in StageRow
  BY <1>1 DEF StageRow
<1>3. QED
  BY <1>2 DEF StampStage, TypeOK, StageRow

LEMMA MovedType == ASSUME TypeOK, NEW r \in Runs, Write(r) PROVE moved' \in [Reapers -> SUBSET Runs]
BY DEF TypeOK, Write

LEMMA JobType ==
  ASSUME TypeOK, NEW w \in Workers, job[w] # None
  PROVE  job[w] \in Stages /\ job[w][1] \in Runs
BY DEF TypeOK, Stages

LEMMA StageRowType ==
  ASSUME TypeOK, NEW s \in Stages, NEW at \in 0..MaxNow + Skew
  PROVE  /\ [stage[s] EXCEPT !.updatedAt = now] \in StageRow
         /\ [stage[s] EXCEPT !.at = at, !.updatedAt = now] \in StageRow
<1>1. stage[s] \in StageRow /\ now \in 0..MaxNow
  BY DEF TypeOK, StageRow
<1>2. QED
  BY <1>1 DEF StageRow

LEMMA WorkType ==
  ASSUME TypeOK, (\E r \in Runs : Create(r)) \/ (\E w \in Workers : WorkerStep(w))
  PROVE  TypeOK'
<1>1. ASSUME NEW r \in Runs, Create(r) PROVE TypeOK'
  <2>1. run' \in [Runs -> RunRow]
    BY <1>1, StampRunType DEF Create, Live
  <2>2. now \in 0..MaxNow + Skew
    BY DEF TypeOK
  <2>3. stage' \in [Stages -> StageRow]
    BY <1>1, <2>2, StageRowType DEF Create, TypeOK, StageRow
  <2>4. QED
    BY <1>1, <2>1, <2>3, MovedType DEF Create, TypeOK, RunRow, StageRow
<1>2. ASSUME NEW w \in Workers, NEW s \in Stages, Claim(w, s) PROVE TypeOK'
  <2>1. s[1] \in Runs
    BY DEF Stages
  <2>2. run' \in [Runs -> RunRow] /\ stage' \in [Stages -> StageRow]
    BY <1>2, <2>1, StampRunType, StampStageType DEF Claim, Live
  <2>3. QED
    BY <1>2, <2>1, <2>2, MovedType DEF Claim, TypeOK, RunRow, StageRow
<1>3. ASSUME NEW w \in Workers, PatchLog(w) PROVE TypeOK'
  <2>1. job[w] \in Stages /\ job[w][1] \in Runs
    BY <1>3, JobType DEF PatchLog
  <2>2. 0 \in 0..MaxNow + Skew /\ stage \in [Stages -> StageRow]
    BY DEF TypeOK, StageRow
  <2>3. stage' \in [Stages -> StageRow]
    BY <1>3, <2>1, <2>2, StageRowType DEF PatchLog
  <2>4. QED
    BY <1>3, <2>1, <2>3, MovedType DEF PatchLog, TypeOK, StageRow
<1>4. ASSUME NEW w \in Workers, Succeed(w) \/ Fail(w) PROVE TypeOK'
  <2>1. job[w] \in Stages /\ job[w][1] \in Runs
    BY <1>4, JobType DEF Succeed, Fail
  <2>2. /\ run' \in [Runs -> RunRow]
        /\ stage' \in [Stages -> StageRow]
    BY <1>4, <2>1, StampRunType, StampStageType DEF Succeed, Fail, Terminal, TypeOK, RunRow
  <2>3. QED
    BY <1>4, <2>1, <2>2, MovedType DEF Succeed, Fail, TypeOK, RunRow, StageRow
<1>5. ASSUME NEW w \in Workers, Die(w) PROVE TypeOK'
  BY <1>5 DEF Die, TypeOK
<1>6. QED
  BY <1>1, <1>2, <1>3, <1>4, <1>5 DEF WorkerStep

LEMMA CallTypes ==
  ASSUME TypeOK, NEW runs \in SUBSET Runs
  PROVE  WithTime(StaleCalls(runs)) \subseteq Call
<1>1. ASSUME NEW c \in StaleCalls(runs)
      PROVE  c.run \in Runs /\ c.liveness \in {"stale_queued", "stale_running"}
  BY <1>1 DEF StaleCalls
<1>2. ASSUME NEW c \in StaleCalls(runs)
      PROVE  [run |-> c.run, liveness |-> c.liveness, staleBefore |-> LastProgress(c.run)] \in Call
  BY <1>1, ProgressIsBounded DEF Call, ProgressBounds
<1>3. QED
  BY <1>2 DEF WithTime

ReaperRow == [pc : {"idle", "probe", "reaping"}, todo : SUBSET Call]

LEMMA ReapingType == ASSUME NEW todo \in SUBSET Call PROVE Reaping(todo) \in ReaperRow
BY DEF Reaping, Resting, ReaperRow

LEMMA ReaperTypes ==
  ASSUME TypeOK
  PROVE  \A k \in Reapers : reaper[k] \in ReaperRow /\ reaper[k].todo \subseteq Call
<1>1. \A k \in Reapers : reaper[k] \in ReaperRow
  BY DEF TypeOK, ReaperRow, Call
<1>2. QED
  BY <1>1 DEF ReaperRow

LEMMA ReadType ==
  ASSUME TypeOK,
         (\E k \in Crons : Sweep(k)) \/ (\E k \in Pages : LoadPage(k) \/ ProbeAlive(k))
  PROVE  TypeOK'
<1> USE DEF Reapers
<1>1. ASSUME NEW k \in Reapers, NEW row \in ReaperRow, reaper' = [reaper EXCEPT ![k] = row]
      PROVE  reaper' \in [Reapers -> ReaperRow]
  BY <1>1 DEF TypeOK, ReaperRow, Call
<1>2. ASSUME NEW k \in Crons, Sweep(k) PROVE TypeOK'
  <2>1. WithTime(StaleCalls(LiveRuns)) \in SUBSET Call
    BY CallTypes DEF LiveRuns
  <2>2. reaper' \in [Reapers -> ReaperRow]
    BY <1>1, <1>2, <2>1, ReapingType DEF Sweep
  <2>3. QED
    BY <1>2, <2>2 DEF Sweep, TypeOK, ReaperRow, Call
<1>3. ASSUME NEW k \in Pages, LoadPage(k) PROVE TypeOK'
  <2>1. PICK runs \in (SUBSET LiveRuns) \ {{}} :
            reaper' = [reaper EXCEPT ![k] = [pc |-> "probe", todo |-> WithTime(StaleCalls(runs))]]
    BY <1>3 DEF LoadPage
  <2>2. WithTime(StaleCalls(runs)) \in SUBSET Call
    BY CallTypes DEF LiveRuns
  <2>3. [pc |-> "probe", todo |-> WithTime(StaleCalls(runs))] \in ReaperRow
    BY <2>2 DEF ReaperRow
  <2>4. reaper' \in [Reapers -> ReaperRow]
    BY <1>1, <2>1, <2>3
  <2>5. QED
    BY <1>3, <2>4 DEF LoadPage, TypeOK, ReaperRow, Call
<1>4. ASSUME NEW k \in Pages, ProbeAlive(k) PROVE TypeOK'
  <2>1. reaper[k].todo \in SUBSET Call
    BY ReaperTypes
  <2>2. reaper' \in [Reapers -> ReaperRow]
    BY <1>1, <1>4, <2>1, ReapingType DEF ProbeAlive
  <2>3. QED
    BY <1>4, <2>2 DEF ProbeAlive, TypeOK, ReaperRow, Call
<1>5. QED
  BY <1>2, <1>3, <1>4

LEMMA ReapType ==
  ASSUME TypeOK, NEW k \in Reapers, NEW call \in reaper[k].todo, Reap(k, call) \/ ReapRefused(k, call)
  PROVE  TypeOK'
<1>1. reaper[k].todo \in SUBSET Call /\ call.run \in Runs
  BY ReaperTypes DEF Call
<1>2. Reaping(reaper[k].todo \ {call}) \in ReaperRow
  BY <1>1, ReapingType
<1>3. reaper' \in [Reapers -> ReaperRow]
  BY <1>2 DEF Reap, ReapRefused, Called, TypeOK, ReaperRow, Call
<1>4. CASE Reap(k, call)
  <2>1. run' \in [Runs -> RunRow] /\ moved' \in [Reapers -> SUBSET Runs]
    BY <1>1, <1>4, StampRunType, MovedType DEF Reap, Terminal
  <2>2. now \in 0..MaxNow + Skew /\ now \in 0..MaxNow
    BY DEF TypeOK
  <2>3. [status |-> "failed", at |-> now, updatedAt |-> now] \in StageRow
    BY <2>2 DEF StageRow, Terminal
  <2>4. stage' \in [Stages -> StageRow]
    BY <1>4, <2>3 DEF Reap, TypeOK, StageRow
  <2>5. QED
    BY <1>3, <1>4, <2>1, <2>4 DEF Reap, TypeOK, ReaperRow, RunRow, StageRow, Call
<1>5. CASE ReapRefused(k, call)
  BY <1>3, <1>5 DEF ReapRefused, TypeOK, ReaperRow, Call
<1>6. QED
  BY <1>4, <1>5

LEMMA TypeStep == TypeOK /\ [Next]_vars => TypeOK'
<1> SUFFICES ASSUME TypeOK, [Next]_vars PROVE TypeOK'
  OBVIOUS
<1>1. CASE Tick
  BY <1>1 DEF Tick, TypeOK
<1>2. CASE UNCHANGED vars
  BY <1>2 DEF vars, TypeOK
<1>3. QED
  BY <1>1, <1>2, WorkType, ReadType, ReapType DEF Next

-----------------------------------------------------------------------------
(***************************************************************************)
(* What a step does to one run, and to one reaper's list.                  *)
(***************************************************************************)
Untouched(r) ==
    /\ run'[r] = run[r] /\ \A s \in StagesOf(r) : stage'[s] = stage[s]
    /\ \A k \in Reapers : r \in moved'[k] => r \in moved[k]

\* Every write to a run or to one of its stages is stamped by the trigger, and
\* touches no other run.
Touched(r) ==
    /\ now' = now
    /\ run'[r].updatedAt \in {run[r].updatedAt, now}
    /\ \A s \in StagesOf(r) : stage'[s].updatedAt \in {stage[s].updatedAt, now}
    /\ run'[r].updatedAt = now \/ \E s \in StagesOf(r) : stage'[s].updatedAt = now

LEMMA WorkTouches ==
  ASSUME TypeOK, (\E r \in Runs : Create(r)) \/ (\E w \in Workers : WorkerStep(w)), NEW q \in Runs
  PROVE  Untouched(q) \/ Touched(q)
<1> USE DEF Untouched, Touched
<1>1. \A s \in StagesOf(q) : s \in Stages /\ s[1] = q
  BY StageParts
<1>2. ASSUME NEW r \in Runs, Create(r) PROVE Untouched(q) \/ Touched(q)
  <2>1. CASE q = r
    <3>1. run'[q].updatedAt = now /\ now' = now
      BY <1>2, <2>1 DEF Create, StampRun, TypeOK
    <3>2. \A s \in StagesOf(q) : stage'[s].updatedAt = now
      <4>1. ASSUME NEW s \in StagesOf(q) PROVE stage'[s].updatedAt = now
        <5>1. stage'[s] = [stage[s] EXCEPT !.at = now, !.updatedAt = now]
          BY <1>1, <1>2, <2>1 DEF Create
        <5>2. stage[s] \in StageRow
          BY <1>1 DEF TypeOK, StageRow
        <5>3. QED
          BY <5>1, <5>2 DEF StageRow
      <4>2. QED
        BY <4>1
    <3>3. QED
      BY <3>1, <3>2
  <2>2. CASE q # r
    BY <1>1, <1>2, <2>2 DEF Create, StampRun, TypeOK, Write
  <2>3. QED
    BY <2>1, <2>2
<1>3. ASSUME NEW s \in Stages, NEW status,
             StampStage(s, status), run' = run \/ (\E to \in Live \cup Terminal : StampRun(s[1], to)),
             Write(s[1]), now' = now
      PROVE  Untouched(q) \/ Touched(q)
  <2>1. CASE q = s[1]
    <3>1. s \in StagesOf(q)
      BY <2>1 DEF StagesOf, Stages
    <3>2. stage'[s].updatedAt = now
      BY <1>3 DEF StampStage, TypeOK
    <3>3. \A p \in StagesOf(q) : stage'[p].updatedAt \in {stage[p].updatedAt, now}
      BY <1>1, <1>3 DEF StampStage, TypeOK
    <3>4. run'[q].updatedAt \in {run[q].updatedAt, now}
      <4>1. ASSUME NEW to, StampRun(q, to) PROVE run'[q].updatedAt = now
        BY <4>1 DEF StampRun, TypeOK
      <4>2. QED
        BY <1>3, <2>1, <4>1
    <3>5. QED
      BY <1>3, <3>1, <3>2, <3>3, <3>4
  <2>2. CASE q # s[1]
    BY <1>1, <1>3, <2>2 DEF StampStage, StampRun, TypeOK, Write
  <2>3. QED
    BY <2>1, <2>2
<1>4. ASSUME NEW w \in Workers, NEW s \in Stages, Claim(w, s) PROVE Untouched(q) \/ Touched(q)
  BY <1>3, <1>4 DEF Claim, Live
<1>5. ASSUME NEW w \in Workers, PatchLog(w) PROVE Untouched(q) \/ Touched(q)
  <2>1. job[w] \in Stages /\ stage[job[w]] \in StageRow
    BY <1>5, JobType DEF PatchLog, TypeOK, StageRow
  <2>2. /\ stage'[job[w]].updatedAt = now
        /\ \A p \in Stages : p # job[w] => stage'[p] = stage[p]
    BY <1>5, <2>1 DEF PatchLog, TypeOK, StageRow
  <2>3. CASE q = job[w][1]
    <3>1. job[w] \in StagesOf(q)
      BY <2>1, <2>3 DEF StagesOf, Stages
    <3>2. QED
      <4>1. run' = run /\ now' = now
        BY <1>5 DEF PatchLog
      <4>2. \A s \in StagesOf(q) : stage'[s].updatedAt \in {stage[s].updatedAt, now}
        BY <1>1, <2>2
      <4>3. QED
        BY <2>2, <3>1, <4>1, <4>2
  <2>4. CASE q # job[w][1]
    BY <1>1, <1>5, <2>2, <2>4 DEF PatchLog, Write, TypeOK
  <2>5. QED
    BY <2>3, <2>4
<1>6. ASSUME NEW w \in Workers, Succeed(w) \/ Fail(w) PROVE Untouched(q) \/ Touched(q)
  <2>1. job[w] \in Stages
    BY <1>6, JobType DEF Succeed, Fail
  <2>2. QED
    BY <1>3, <1>6, <2>1 DEF Succeed, Fail, Terminal
<1>7. ASSUME NEW w \in Workers, Die(w) PROVE Untouched(q)
  BY <1>7 DEF Die
<1>8. QED
  BY <1>2, <1>4, <1>5, <1>6, <1>7 DEF WorkerStep

LEMMA ReapTouches ==
  ASSUME TypeOK, NEW k \in Reapers, NEW call \in reaper[k].todo, Reap(k, call), NEW q \in Runs
  PROVE  Untouched(q) \/ (Touched(q) /\ run'[q].status = "failed")
<1>1. call.run \in Runs
  BY ReaperTypes DEF Call
<1>2. \A s \in StagesOf(q) : s \in Stages /\ s[1] = q
  BY StageParts
<1>3. CASE q = call.run
  <2>1. run'[q] = [status |-> "failed", updatedAt |-> now] /\ now' = now
    BY <1>1, <1>3 DEF Reap, StampRun, TypeOK
  <2>2. \A s \in StagesOf(q) : stage'[s].updatedAt \in {stage[s].updatedAt, now}
    BY <1>2 DEF Reap
  <2>3. QED
    BY <2>1, <2>2 DEF Touched
<1>4. CASE q # call.run
  BY <1>1, <1>2, <1>4 DEF Reap, StampRun, TypeOK, Write, Untouched
<1>5. QED
  BY <1>3, <1>4

LEMMA StepTouches ==
  ASSUME TypeOK, [Next]_vars, NEW q \in Runs
  PROVE  Untouched(q) \/ Touched(q)
<1>1. CASE Tick
  BY <1>1 DEF Tick, Untouched
<1>2. CASE UNCHANGED vars
  BY <1>2 DEF vars, Untouched
<1>3. CASE (\E k \in Crons : Sweep(k)) \/ (\E k \in Pages : LoadPage(k) \/ ProbeAlive(k))
  BY <1>3 DEF Sweep, LoadPage, ProbeAlive, Untouched, TypeOK, Reapers
<1>4. ASSUME NEW k \in Reapers, NEW call \in reaper[k].todo, ReapRefused(k, call)
      PROVE  Untouched(q)
  BY <1>4 DEF ReapRefused, Untouched
<1>5. QED
  BY <1>1, <1>2, <1>3, <1>4, WorkTouches, ReapTouches DEF Next

LEMMA NowGrows == ASSUME TypeOK, [Next]_vars PROVE now' >= now
<1>1. now \in Nat
  BY DEF TypeOK
<1>2. CASE Tick
  BY <1>1, <1>2 DEF Tick
<1>3. now' = now \/ Tick
  BY DEF Next, vars, Create, WorkerStep, Claim, PatchLog, Succeed, Fail, Die, Sweep, LoadPage,
     ProbeAlive, Reap, ReapRefused
<1>4. QED
  BY <1>1, <1>2, <1>3

\* What a reaper takes for stale when it reads the rows.
StaleCall(c) ==
    /\ c.run \in LiveRuns /\ c.staleBefore = LastProgress(c.run)
    /\ Silent(c.run, IF HasRunningStage(c.run) THEN RunStale ELSE QueueStale)

LEMMA CallsAreStale ==
  ASSUME NEW runs \in SUBSET LiveRuns, NEW c \in WithTime(StaleCalls(runs))
  PROVE  StaleCall(c)
<1>1. PICK d \in StaleCalls(runs) :
          c = [run |-> d.run, liveness |-> d.liveness, staleBefore |-> LastProgress(d.run)]
  BY DEF WithTime
<1>2. /\ d.run \in runs
      /\ \/ HasRunningStage(d.run) /\ Silent(d.run, RunStale)
         \/ ~HasRunningStage(d.run) /\ Silent(d.run, QueueStale)
  BY DEF StaleCalls
<1>3. c.run = d.run /\ c.staleBefore = LastProgress(d.run)
  BY <1>1
<1>4. QED
  BY <1>2, <1>3 DEF StaleCall

Reads == UNCHANGED <<now, run, stage, job>>

LEMMA ReapingTodo == ASSUME NEW todo PROVE Reaping(todo).todo = todo
BY DEF Reaping, Resting

LEMMA ListGrowsByStaleCalls ==
  ASSUME TypeOK, [Next]_vars, NEW k \in Reapers, NEW c \in reaper'[k].todo
  PROVE  \/ c \in reaper[k].todo /\ moved[k] \subseteq moved'[k]
         \/ Reads /\ StaleCall(c) /\ moved'[k] = {}
<1> DEFINE Old == c \in reaper[k].todo /\ moved[k] \subseteq moved'[k]
           New == Reads /\ StaleCall(c) /\ moved'[k] = {}
<1> USE DEF Reapers
<1>1. CASE Tick \/ (\E r \in Runs : Create(r)) \/ (\E w \in Workers : WorkerStep(w)) \/ UNCHANGED vars
  <2>1. reaper' = reaper
    BY <1>1 DEF Tick, Create, WorkerStep, Claim, PatchLog, Succeed, Fail, Die, vars
  <2>2. moved' = moved \/ \E r : Write(r)
    BY <1>1 DEF Tick, Create, WorkerStep, Claim, PatchLog, Succeed, Fail, Die, vars
  <2>3. moved[k] \subseteq moved'[k]
    BY <2>2 DEF Write
  <2>4. QED
    BY <2>1, <2>3
<1>2. ASSUME NEW i \in Crons, Sweep(i) PROVE Old \/ New
  <2>1. CASE k = i
    <3>1. c \in WithTime(StaleCalls(LiveRuns)) /\ moved'[k] = {} /\ Reads
      BY <1>2, <2>1, ReapingTodo DEF Sweep, TypeOK, Reads
    <3>2. QED
      BY <3>1, CallsAreStale
  <2>2. CASE k # i
    BY <1>2, <2>2 DEF Sweep, TypeOK
  <2>3. QED
    BY <2>1, <2>2
<1>3. ASSUME NEW i \in Pages, LoadPage(i) PROVE Old \/ New
  <2>1. CASE k = i
    <3>1. PICK runs \in SUBSET LiveRuns : c \in WithTime(StaleCalls(runs))
      BY <1>3, <2>1 DEF LoadPage, TypeOK
    <3>2. moved'[k] = {} /\ Reads
      BY <1>3, <2>1 DEF LoadPage, TypeOK, Reads
    <3>3. QED
      BY <3>1, <3>2, CallsAreStale
  <2>2. CASE k # i
    BY <1>3, <2>2 DEF LoadPage, TypeOK
  <2>3. QED
    BY <2>1, <2>2
<1>4. ASSUME NEW i \in Pages, ProbeAlive(i) PROVE Old
  BY <1>4, ReapingTodo DEF ProbeAlive, TypeOK
<1>5. ASSUME NEW i \in Reapers, NEW call \in reaper[i].todo, Reap(i, call) \/ ReapRefused(i, call)
      PROVE  Old
  BY <1>5, ReapingTodo DEF Reap, ReapRefused, Called, TypeOK, Write
<1>6. QED
  BY <1>1, <1>2, <1>3, <1>4, <1>5 DEF Next

-----------------------------------------------------------------------------
(***************************************************************************)
(* The clocks.                                                             *)
(***************************************************************************)
LEMMA StageHasRun == ASSUME NEW s \in Stages PROVE s[1] \in Runs /\ s \in StagesOf(s[1])
BY DEF Stages, StagesOf

\* started_at and completed_at are only written together with updated_at.
LEMMA AtStep ==
  ASSUME TypeOK, [Next]_vars, NEW s \in Stages
  PROVE  \/ stage'[s].at = stage[s].at /\ stage'[s].updatedAt \in {stage[s].updatedAt, now}
         \/ stage'[s].at \in {now, now + Skew} /\ stage'[s].updatedAt = now
<1> DEFINE Kept == stage'[s].at = stage[s].at /\ stage'[s].updatedAt \in {stage[s].updatedAt, now}
           Stamped == stage'[s].at \in {now, now + Skew} /\ stage'[s].updatedAt = now
<1>1. CASE stage' = stage
  BY <1>1
<1>2. ASSUME NEW r \in Runs, Create(r) PROVE Kept \/ Stamped
  <2>1. CASE s[1] = r
    <3>1. stage'[s] = [stage[s] EXCEPT !.at = now, !.updatedAt = now]
      BY <1>2, <2>1 DEF Create
    <3>2. stage[s] \in StageRow
      BY DEF TypeOK, StageRow
    <3>3. stage'[s].at = now /\ stage'[s].updatedAt = now
      BY <3>1, <3>2 DEF StageRow
    <3>4. QED
      BY <3>3
  <2>2. CASE s[1] # r
    BY <1>2, <2>2 DEF Create
  <2>3. QED
    BY <2>1, <2>2
<1>3. ASSUME NEW p, NEW status, StampStage(p, status) PROVE Kept \/ Stamped
  BY <1>3 DEF StampStage, TypeOK
<1>4. ASSUME NEW w \in Workers, PatchLog(w) PROVE Kept
  <2>1. stage[s] \in StageRow /\ stage' = [stage EXCEPT ![job[w]].updatedAt = now]
    BY <1>4 DEF TypeOK, StageRow, PatchLog
  <2>2. CASE s = job[w]
    <3>1. stage'[s] = [stage[s] EXCEPT !.updatedAt = now]
      BY <2>1, <2>2 DEF TypeOK
    <3>2. QED
      BY <2>1, <3>1 DEF StageRow
  <2>3. CASE s # job[w]
    BY <2>1, <2>3 DEF TypeOK
  <2>4. QED
    BY <2>2, <2>3
<1>5. ASSUME NEW k, NEW call, Reap(k, call) PROVE Kept \/ Stamped
  BY <1>5 DEF Reap
<1>6. CASE \E w \in Workers : WorkerStep(w)
  BY <1>1, <1>3, <1>4, <1>6 DEF WorkerStep, Claim, Succeed, Fail, Die
<1>7. QED
  BY <1>1, <1>2, <1>5, <1>6 DEF Next, vars, Tick, Sweep, LoadPage, ProbeAlive, ReapRefused

LEMMA StartedStep ==
  ASSUME TypeOK, StampsArePast, [Next]_vars, NEW k \in Crons
  PROVE  started'[k] <= now' /\ now' <= started'[k] + Period
<1>1. now \in Nat /\ started[k] \in Nat /\ started[k] <= now /\ now <= started[k] + Period
  BY DEF TypeOK, StampsArePast
<1>2. CASE Tick
  BY <1>1, <1>2 DEF Tick, Timely
<1>3. CASE UNCHANGED <<now, started>>
  BY <1>1, <1>3
<1>4. ASSUME NEW i \in Crons, Sweep(i) PROVE started'[k] <= now' /\ now' <= started'[k] + Period
  BY <1>1, <1>4 DEF Sweep, TypeOK
<1>5. QED
  BY <1>2, <1>3, <1>4 DEF Next, vars, Create, WorkerStep, Claim, PatchLog, Succeed, Fail, Die,
     LoadPage, ProbeAlive, Reap, ReapRefused

LEMMA StampsStep == ASSUME TypeOK, StampsArePast, [Next]_vars PROVE StampsArePast'
<1>1. now' >= now /\ now \in Nat /\ now' \in Nat
  BY NowGrows, TypeStep DEF TypeOK
<1>2. ASSUME NEW r \in Runs PROVE run'[r].updatedAt <= now'
  <2>1. run[r].updatedAt \in Nat /\ run[r].updatedAt <= now
    BY StampTypes DEF StampsArePast
  <2>2. QED
    BY <1>1, <2>1, StepTouches DEF Untouched, Touched
<1>3. ASSUME NEW s \in Stages
      PROVE  stage'[s].updatedAt <= now' /\ stage'[s].at <= stage'[s].updatedAt + Skew
  <2>1. /\ stage[s].updatedAt \in Nat /\ stage[s].updatedAt <= now
        /\ stage[s].at \in Nat /\ stage[s].at <= stage[s].updatedAt + Skew
    BY StampTypes DEF StampsArePast
  <2>2. QED
    BY <1>1, <2>1, AtStep
<1>4. QED
  BY <1>2, <1>3, StartedStep DEF StampsArePast

-----------------------------------------------------------------------------
(***************************************************************************)
(* The reapers' lists.                                                     *)
(***************************************************************************)
LEMMA StaleCallIsOld ==
  ASSUME TypeOK, NEW c, StaleCall(c)
  PROVE  c.run \in Runs /\ c.staleBefore < now
<1>1. c.run \in Runs /\ LastProgress(c.run) \in Nat
  BY ProgressIsBounded DEF StaleCall, LiveRuns, ProgressBounds
<1>2. now \in Nat
  BY DEF TypeOK
<1>3. JsTime(now) \in Nat /\ JsTime(now) <= now
  BY <1>2, JsTimeCuts
<1>4. JsTime(now) > LastProgress(c.run) + (IF HasRunningStage(c.run) THEN RunStale ELSE QueueStale)
  BY DEF StaleCall, Silent
<1>5. QED
  BY <1>1, <1>2, <1>3, <1>4 DEF StaleCall

\* A write after the reading is newer than what the reader took for the newest,
\* and nothing that was newer grows older.
LEMMA NewerStep ==
  ASSUME TypeOK, [Next]_vars, NEW r \in Runs, NEW t \in Nat, t < now, Newer(r, t) \/ ~Untouched(r)
  PROVE  Newer(r, t)'
<1>1. CASE Untouched(r)
  BY <1>1 DEF Untouched, Newer
<1>2. CASE Touched(r)
  BY <1>2 DEF Touched, Newer
<1>3. QED
  BY <1>1, <1>2, StepTouches

LEMMA CallParts ==
  ASSUME TypeOK, NEW k \in Reapers, NEW c \in reaper[k].todo
  PROVE  c.run \in Runs /\ c.staleBefore \in Nat
<1>1. c \in Call
  BY ReaperTypes
<1>2. QED
  BY <1>1 DEF Call

LEMMA MovedStep == ASSUME TypeOK, MovedIsNewer, [Next]_vars PROVE MovedIsNewer'
<1> SUFFICES ASSUME NEW k \in Reapers, NEW c \in reaper'[k].todo
             PROVE  c.staleBefore < now' /\ (c.run \in moved'[k] => Newer(c.run, c.staleBefore)')
  BY DEF MovedIsNewer
<1>1. now' >= now /\ now \in Nat /\ now' \in Nat
  BY NowGrows, TypeStep DEF TypeOK
<1>2. CASE c \in reaper[k].todo
  <2>1. /\ c.run \in Runs /\ c.staleBefore \in Nat /\ c.staleBefore < now
        /\ c.run \in moved[k] => Newer(c.run, c.staleBefore)
    BY <1>2, CallParts DEF MovedIsNewer
  <2>2. CASE Untouched(c.run)
    BY <1>1, <2>1, <2>2, NewerStep DEF Untouched
  <2>3. CASE ~Untouched(c.run)
    BY <1>1, <2>1, <2>3, NewerStep
  <2>4. QED
    BY <2>2, <2>3
<1>3. CASE Reads /\ StaleCall(c) /\ moved'[k] = {}
  BY <1>3, StaleCallIsOld DEF Reads
<1>4. QED
  BY <1>2, <1>3, ListGrowsByStaleCalls

LEMMA IdleStep == ASSUME TypeOK, IdleHasNoCalls, [Next]_vars PROVE IdleHasNoCalls'
<1> SUFFICES ASSUME NEW k \in Reapers, reaper'[k].pc = "idle" PROVE reaper'[k].todo = {}
  BY DEF IdleHasNoCalls
<1>1. ASSUME NEW todo, Reaping(todo).pc = "idle" PROVE Reaping(todo).todo = {}
  BY <1>1 DEF Reaping, Resting
<1>2. CASE reaper'[k] = reaper[k]
  BY <1>2 DEF IdleHasNoCalls
<1>3. CASE \E todo : reaper'[k] = Reaping(todo)
  BY <1>1, <1>3
<1>4. reaper'[k] = reaper[k] \/ (\E todo : reaper'[k] = Reaping(todo)) \/ reaper'[k].pc = "probe"
  <2>1. ASSUME NEW i \in Crons, Sweep(i) PROVE reaper'[k] = reaper[k] \/ \E todo : reaper'[k] = Reaping(todo)
    BY <2>1 DEF Sweep, TypeOK
  <2>2. ASSUME NEW i \in Pages, LoadPage(i) PROVE reaper'[k] = reaper[k] \/ reaper'[k].pc = "probe"
    BY <2>2 DEF LoadPage, TypeOK
  <2>3. ASSUME NEW i \in Pages, ProbeAlive(i)
        PROVE  reaper'[k] = reaper[k] \/ \E todo : reaper'[k] = Reaping(todo)
    BY <2>3 DEF ProbeAlive, TypeOK
  <2>4. ASSUME NEW i \in Reapers, NEW call \in reaper[i].todo, Reap(i, call) \/ ReapRefused(i, call)
        PROVE  reaper'[k] = reaper[k] \/ \E todo : reaper'[k] = Reaping(todo)
    BY <2>4 DEF Reap, ReapRefused, Called, TypeOK
  <2>5. CASE Tick \/ (\E r \in Runs : Create(r)) \/ (\E w \in Workers : WorkerStep(w)) \/ UNCHANGED vars
    BY <2>5 DEF Tick, Create, WorkerStep, Claim, PatchLog, Succeed, Fail, Die, vars
  <2>6. QED
    BY <2>1, <2>2, <2>3, <2>4, <2>5 DEF Next
<1>5. QED
  BY <1>2, <1>3, <1>4

-----------------------------------------------------------------------------
(***************************************************************************)
(* The executed stages.                                                    *)
(***************************************************************************)
\* The row of a stage in execution has said running for less than a beat.
LEMMA ExecutedIsNotStale ==
  ASSUME BeatsInsideWindow, TypeOK, ExecutedIsFresh, NEW c, StaleCall(c)
  PROVE  ~Executed(c.run)
<1> SUFFICES ASSUME Executed(c.run) PROVE FALSE
  OBVIOUS
<1>1. PICK w \in Workers : job[w] \in StagesOf(c.run)
  BY DEF Executed
<1> DEFINE s == job[w]
<1>2. c.run \in Runs /\ s \in Stages /\ s # None
  BY <1>1, StageParts DEF StaleCall, LiveRuns
<1>3. stage[s].status = "running" /\ now <= stage[s].updatedAt + Beat
  BY <1>2 DEF ExecutedIsFresh
<1>4. JsTime(now) > LastProgress(c.run) + RunStale
  BY <1>1, <1>3 DEF StaleCall, HasRunningStage, Silent
<1>5. /\ LastProgress(c.run) \in Nat
      /\ LastProgress(c.run) >= JsTime(stage[s].updatedAt)
  BY <1>1, <1>2, ProgressIsBounded DEF ProgressBounds
<1>6. now \in Nat /\ stage[s].updatedAt \in Nat
  BY <1>2, StampTypes DEF TypeOK
<1>7. /\ JsTime(now) \in Nat /\ JsTime(now) <= now
      /\ JsTime(stage[s].updatedAt) \in Nat
      /\ stage[s].updatedAt < JsTime(stage[s].updatedAt) + TicksPerMs
  BY <1>6, JsTimeCuts
<1> HIDE DEF s
<1>8. QED
  BY <1>3, <1>4, <1>5, <1>6, <1>7 DEF BeatsInsideWindow

\* Only a claim begins to execute a stage, and it writes to the run.
LEMMA ExecutionBeginsByWrite ==
  ASSUME TypeOK, [Next]_vars, NEW r \in Runs, Untouched(r), Executed(r)'
  PROVE  Executed(r)
<1>1. PICK w \in Workers : job'[w] \in StagesOf(r)
  BY DEF Executed
<1>2. ASSUME NEW v \in Workers, NEW s \in Stages, Claim(v, s) PROVE job'[w] = job[w]
  <2>1. stage'[s].status = "running" /\ stage[s].status = "queued"
    BY <1>2 DEF Claim, StampStage, TypeOK
  <2>2. s \notin StagesOf(r)
    BY <2>1 DEF Untouched
  <2>3. QED
    BY <1>1, <1>2, <2>2 DEF Claim, TypeOK
<1>3. ASSUME NEW v \in Workers, Succeed(v) \/ Fail(v) \/ Die(v) PROVE job'[w] = job[w]
  <2>1. None \notin StagesOf(r)
    BY StageParts
  <2>2. QED
    BY <1>1, <1>3, <2>1 DEF Succeed, Fail, Die, TypeOK
<1>4. job' = job \/ job'[w] = job[w]
  BY <1>2, <1>3 DEF Next, vars, Tick, Create, WorkerStep, PatchLog, Sweep, LoadPage, ProbeAlive,
     Reap, ReapRefused
<1>5. QED
  BY <1>1, <1>4 DEF Executed

LEMMA ExecutedNewerStep ==
  ASSUME BeatsInsideWindow, TypeOK, MovedIsNewer, ExecutedIsFresh, ExecutedIsNewer, [Next]_vars
  PROVE  ExecutedIsNewer'
<1> SUFFICES ASSUME NEW k \in Reapers, NEW c \in reaper'[k].todo, Executed(c.run)'
             PROVE  Newer(c.run, c.staleBefore)'
  BY DEF ExecutedIsNewer
<1>1. CASE c \in reaper[k].todo
  <2>1. c.run \in Runs /\ c.staleBefore \in Nat /\ c.staleBefore < now
    BY <1>1, CallParts DEF MovedIsNewer
  <2>2. Untouched(c.run) => Newer(c.run, c.staleBefore)
    BY <1>1, <2>1, ExecutionBeginsByWrite DEF ExecutedIsNewer
  <2>3. QED
    BY <2>1, <2>2, NewerStep
<1>2. CASE Reads /\ StaleCall(c)
  <2>1. Executed(c.run)
    BY <1>2 DEF Reads, Executed
  <2>2. QED
    BY <1>2, <2>1, ExecutedIsNotStale
<1>3. QED
  BY <1>1, <1>2, ListGrowsByStaleCalls

LEMMA QuietIsNotNewer ==
  ASSUME TypeOK, NEW k \in Reapers, NEW c \in reaper[k].todo, Quiet(c.run, c.staleBefore)
  PROVE  ~Newer(c.run, c.staleBefore)
<1>1. c.run \in Runs /\ c.staleBefore \in Nat /\ run[c.run].updatedAt \in Nat
  BY CallParts, StampTypes
<1>2. QED
  BY <1>1 DEF Quiet, Newer

LEMMA FreshStep ==
  ASSUME TypeOK, ExecutedIsFresh, ExecutedIsNewer, [Next]_vars
  PROVE  ExecutedIsFresh'
<1>1. \A w \in Workers : job[w] # None => job[w] \in Stages /\ stage[job[w]].updatedAt \in Nat
  BY JobType, StampTypes
<1>2. now \in Nat
  BY DEF TypeOK
<1>3. CASE Tick
  BY <1>1, <1>2, <1>3 DEF Tick, Timely, ExecutedIsFresh
<1>4. ASSUME NEW r \in Runs, Create(r) PROVE ExecutedIsFresh'
  <2>1. ASSUME NEW s \in Stages PROVE stage'[s].status = stage[s].status
    <3>1. stage[s] \in StageRow
      BY DEF TypeOK, StageRow
    <3>2. stage'[s] = IF s[1] = r THEN [stage[s] EXCEPT !.at = now, !.updatedAt = now] ELSE stage[s]
      BY <1>4 DEF Create
    <3>3. QED
      BY <3>1, <3>2 DEF StageRow
  <2>2. \A s \in Stages : stage'[s].updatedAt \in {stage[s].updatedAt, now}
    BY AtStep
  <2>3. job' = job /\ now' = now
    BY <1>4 DEF Create
  <2>4. QED
    BY <1>1, <1>2, <2>1, <2>2, <2>3 DEF ExecutedIsFresh
<1>5. ASSUME NEW w \in Workers, NEW s \in Stages, Claim(w, s) PROVE ExecutedIsFresh'
  <2>1. \A v \in Workers : job[v] # s
    BY <1>5 DEF Claim, ExecutedIsFresh
  <2>2. /\ stage'[s].status = "running" /\ stage'[s].updatedAt = now
        /\ \A p \in Stages : p # s => stage'[p] = stage[p]
    BY <1>5 DEF Claim, StampStage, TypeOK
  <2>3. job' = [job EXCEPT ![w] = s] /\ now' = now /\ job \in [Workers -> Stages \cup {None}]
    BY <1>5 DEF Claim, TypeOK
  <2>4. QED
    BY <1>1, <1>2, <2>1, <2>2, <2>3 DEF ExecutedIsFresh
<1>6. ASSUME NEW w \in Workers, PatchLog(w) PROVE ExecutedIsFresh'
  <2>1. \A s \in Stages : stage'[s].status = stage[s].status
    BY <1>6 DEF PatchLog, TypeOK
  <2>2. \A s \in Stages : stage'[s].updatedAt \in {stage[s].updatedAt, now}
    BY AtStep
  <2>3. job' = job /\ now' = now
    BY <1>6 DEF PatchLog
  <2>4. QED
    BY <1>1, <1>2, <2>1, <2>2, <2>3 DEF ExecutedIsFresh
<1>7. ASSUME NEW w \in Workers, Succeed(w) \/ Fail(w) \/ Die(w) PROVE ExecutedIsFresh'
  <2>1. /\ job' = [job EXCEPT ![w] = None] /\ now' = now /\ job[w] # None
        /\ job \in [Workers -> Stages \cup {None}]
    BY <1>7 DEF Succeed, Fail, Die, TypeOK
  <2>2. \A p \in Stages : p # job[w] => stage'[p] = stage[p]
    BY <1>7 DEF Succeed, Fail, Die, StampStage, TypeOK
  <2>3. \A v \in Workers : job'[v] # None => v # w /\ job'[v] = job[v] /\ job[v] # job[w]
    BY <2>1 DEF ExecutedIsFresh
  <2>4. QED
    BY <1>1, <2>1, <2>2, <2>3 DEF ExecutedIsFresh
<1>8. ASSUME NEW k \in Reapers, NEW call \in reaper[k].todo, Reap(k, call) PROVE ExecutedIsFresh'
  <2>1. ~Executed(call.run)
    BY <1>8, QuietIsNotNewer DEF Reap, ExecutedIsNewer
  <2>2. \A w \in Workers : job[w] # None => job[w][1] # call.run
    BY <1>1, <2>1, StageHasRun DEF Executed
  <2>3. \A p \in Stages : p[1] # call.run => stage'[p] = stage[p]
    BY <1>8 DEF Reap
  <2>4. job' = job /\ now' = now
    BY <1>8 DEF Reap
  <2>5. QED
    BY <1>1, <2>2, <2>3, <2>4 DEF ExecutedIsFresh
<1>9. CASE UNCHANGED <<now, stage, job>>
  BY <1>9 DEF ExecutedIsFresh
<1>10. QED
  BY <1>3, <1>4, <1>5, <1>6, <1>7, <1>8, <1>9 DEF Next, WorkerStep, vars, Sweep, LoadPage, ProbeAlive,
     ReapRefused

-----------------------------------------------------------------------------
(***************************************************************************)
(* The sweep.                                                              *)
(***************************************************************************)
LEMMA UntouchedLooksTheSame ==
  ASSUME NEW r \in Runs, Untouched(r)
  PROVE  /\ run'[r] = run[r]
         /\ LastProgress(r)' = LastProgress(r) /\ LastWrite(r)' = LastWrite(r)
         /\ Uncut(r)' <=> Uncut(r)
<1>1. run'[r] = run[r] /\ \A s \in StagesOf(r) : stage'[s] = stage[s]
  BY DEF Untouched
<1>2. LastProgress(r)' = LastProgress(r)
  <2>1. UNION {{JsTime(stage'[s].at), JsTime(stage'[s].updatedAt)} : s \in StagesOf(r)}
          = UNION {{JsTime(stage[s].at), JsTime(stage[s].updatedAt)} : s \in StagesOf(r)}
    BY <1>1
  <2>2. QED
    BY <1>1, <2>1 DEF LastProgress
<1>3. LastWrite(r)' = LastWrite(r)
  <2>1. {stage'[s].updatedAt : s \in StagesOf(r)} = {stage[s].updatedAt : s \in StagesOf(r)}
    BY <1>1
  <2>2. QED
    BY <1>1, <2>1 DEF LastWrite
<1>4. QED
  BY <1>1, <1>2, <1>3 DEF Uncut

\* A write leaves a sign of life of its own time.
LEMMA WriteIsProgress ==
  ASSUME TypeOK, [Next]_vars, NEW r \in Runs, Touched(r)
  PROVE  LastProgress(r)' \in Nat /\ LastProgress(r)' >= JsTime(now)
<1>1. ProgressBounds(r)'
  BY TypeStep, BoundedNext
<1>2. LastProgress(r)' \in Nat
  BY <1>1 DEF ProgressBounds
<1>3. CASE run'[r].updatedAt = now
  BY <1>1, <1>2, <1>3 DEF ProgressBounds, JsTime
<1>4. ASSUME NEW s \in StagesOf(r), stage'[s].updatedAt = now PROVE LastProgress(r)' >= JsTime(now)
  BY <1>1, <1>2, <1>4 DEF ProgressBounds, JsTime
<1>5. QED
  BY <1>2, <1>3, <1>4 DEF Touched

LEMMA StartedOnlyBySweep ==
  ASSUME TypeOK, [Next]_vars, NEW k \in Crons
  PROVE  started'[k] = started[k] \/ Sweep(k)
BY DEF Next, vars, TypeOK, Tick, Create, WorkerStep, Claim, PatchLog, Succeed, Fail, Die, Sweep, LoadPage,
   ProbeAlive, Reap, ReapRefused

LEMMA SweepTakesSilent ==
  ASSUME TypeOK, NEW k \in Crons, Sweep(k), NEW r \in Runs,
         run[r].status = "running", JsTime(now) > LastProgress(r) + RunStale
  PROVE  \E c \in reaper'[k].todo : c.run = r /\ c.staleBefore = LastProgress(r)
<1> DEFINE d == [run |-> r, liveness |-> "stale_running"]
           c == [run |-> r, liveness |-> "stale_running", staleBefore |-> LastProgress(r)]
           calls == WithTime(StaleCalls(LiveRuns))
<1>1. d \in StaleCalls(LiveRuns)
  BY DEF StaleCalls, LiveRuns, Live, HasRunningStage, Silent
<1>2. c = [run |-> d.run, liveness |-> d.liveness, staleBefore |-> LastProgress(d.run)]
  OBVIOUS
<1> HIDE DEF d, c
<1>3. c \in calls
  BY <1>1, <1>2 DEF WithTime
<1>4. c \notin QueuedCalls(calls)
  BY DEF QueuedCalls, c
<1>5. reaper'[k].todo \in {calls, calls \ QueuedCalls(calls)}
  BY ReapingTodo DEF Sweep, TypeOK, Reapers
<1>6. c.run = r /\ c.staleBefore = LastProgress(r)
  BY DEF c
<1> HIDE DEF calls
<1>7. QED
  BY <1>3, <1>4, <1>5, <1>6

\* A call leaves a cron's list when it is answered, and a run that is quiet
\* since its last progress is reaped by it.
LEMMA CallIsAnswered ==
  ASSUME TypeOK, [Next]_vars, NEW k \in Crons, ~Sweep(k), NEW c \in reaper[k].todo, c.run \in Runs,
         Uncut(c.run), c.staleBefore = LastProgress(c.run), Uncut(c.run)'
  PROVE  c \in reaper'[k].todo
<1> USE DEF Reapers
<1>1. Quiet(c.run, c.staleBefore)
  <2>1. WriteBounds(c.run) /\ ProgressBounds(c.run)
    BY WriteIsBounded, ProgressIsBounded
  <2>2. /\ LastWrite(c.run) \in Nat /\ LastProgress(c.run) \in Nat
        /\ LastProgress(c.run) >= LastWrite(c.run) /\ run[c.run].status = "running"
    BY <2>1 DEF WriteBounds, ProgressBounds, Uncut
  <2>3. run[c.run].updatedAt \in Nat /\ run[c.run].updatedAt <= LastWrite(c.run)
    BY <2>1, StampTypes DEF WriteBounds
  <2>4. \A s \in StagesOf(c.run) : stage[s].updatedAt \in Nat /\ stage[s].updatedAt <= LastWrite(c.run)
    BY <2>1, StampTypes, StageParts DEF WriteBounds
  <2>5. QED
    BY <2>2, <2>3, <2>4 DEF Quiet, Live
<1>2. ASSUME NEW i \in Reapers, NEW call \in reaper[i].todo, Reap(i, call) \/ ReapRefused(i, call)
      PROVE  c \in reaper'[k].todo
  <2>1. CASE i = k /\ call = c
    <3>1. Reap(k, c)
      BY <1>1, <1>2, <2>1 DEF ReapRefused
    <3>2. run'[c.run].status = "failed"
      BY <3>1 DEF Reap, StampRun, TypeOK
    <3>3. QED
      BY <3>2 DEF Uncut
  <2>2. CASE i = k /\ call # c
    BY <1>2, <2>2, ReapingTodo DEF Reap, ReapRefused, Called, TypeOK
  <2>3. CASE i # k
    BY <1>2, <2>3 DEF Reap, ReapRefused, Called, TypeOK
  <2>4. QED
    BY <2>1, <2>2, <2>3
<1>3. ASSUME NEW i \in Crons, Sweep(i) PROVE c \in reaper'[k].todo
  BY <1>3 DEF Sweep, TypeOK
<1>4. ASSUME NEW i \in Pages, LoadPage(i) \/ ProbeAlive(i) PROVE c \in reaper'[k].todo
  BY <1>4 DEF LoadPage, ProbeAlive, TypeOK
<1>5. CASE UNCHANGED reaper
  BY <1>5
<1>6. QED
  BY <1>2, <1>3, <1>4, <1>5 DEF Next, vars, Tick, Create, WorkerStep, Claim, PatchLog, Succeed, Fail, Die

LEMMA SilentStep ==
  ASSUME TypeOK, StampsArePast, SweepHasSilent, [Next]_vars
  PROVE  SweepHasSilent'
<1> SUFFICES ASSUME NEW k \in Crons, NEW r \in Runs,
                    Uncut(r)', JsTime(started'[k]) > LastProgress(r)' + RunStale
             PROVE  (\E c \in reaper[k].todo : c.run = r /\ c.staleBefore = LastProgress(r))'
  BY DEF SweepHasSilent, JsTime
<1>1. CASE Sweep(k)
  <2>1. Untouched(r) /\ started'[k] = now
    BY <1>1 DEF Sweep, Untouched, TypeOK, Reapers
  <2>2. /\ run[r].status = "running" /\ JsTime(now) > LastProgress(r) + RunStale
        /\ LastProgress(r)' = LastProgress(r)
    BY <2>1, UntouchedLooksTheSame DEF Uncut
  <2>3. QED
    BY <1>1, <2>2, SweepTakesSilent
<1>2. CASE ~Sweep(k)
  <2>1. started'[k] = started[k] /\ started[k] \in Nat /\ started[k] <= now /\ now \in Nat
    BY <1>2, StartedOnlyBySweep DEF TypeOK, StampsArePast
  <2>2. ~Touched(r)
    <3>1. JsTime(started[k]) <= JsTime(now) /\ JsTime(started[k]) \in Nat /\ JsTime(now) \in Nat
      BY <2>1, JsTimeMonotone, JsTimeCuts
    <3>2. QED
      BY <2>1, <3>1, WriteIsProgress
  <2>3. Untouched(r)
    BY <2>2, StepTouches
  <2>4. Uncut(r) /\ LastProgress(r)' = LastProgress(r)
    BY <2>3, UntouchedLooksTheSame
  <2>5. PICK c \in reaper[k].todo : c.run = r /\ c.staleBefore = LastProgress(r)
    BY <2>1, <2>4 DEF SweepHasSilent
  <2>6. c \in reaper'[k].todo
    BY <1>2, <2>4, <2>5, CallIsAnswered
  <2>7. QED
    BY <2>4, <2>5, <2>6
<1>3. QED
  BY <1>1, <1>2

LEMMA SweptStep ==
  ASSUME TypeOK, StampsArePast, IdleHasNoCalls, SweepHasSilent, SweptBefore, [Next]_vars
  PROVE  SweptBefore'
<1> SUFFICES ASSUME NEW k \in Crons, NEW r \in Runs, Uncut(r)'
             PROVE  started'[k] < LastProgress(r)' + RunStale + TicksPerMs + Period
  BY DEF SweptBefore
<1>1. /\ started[k] \in Nat /\ now \in Nat /\ started[k] <= now /\ now <= started[k] + Period
  BY DEF TypeOK, StampsArePast
<1>2. /\ JsTime(started[k]) \in Nat /\ started[k] < JsTime(started[k]) + TicksPerMs
      /\ JsTime(now) \in Nat /\ now < JsTime(now) + TicksPerMs
  BY <1>1, JsTimeCuts
<1>3. CASE Sweep(k)
  <2>1. Untouched(r) /\ started'[k] = now /\ reaper[k].todo = {}
    BY <1>3 DEF Sweep, Untouched, TypeOK, Reapers, IdleHasNoCalls
  <2>2. Uncut(r) /\ LastProgress(r)' = LastProgress(r)
    BY <2>1, UntouchedLooksTheSame
  <2>3. ~(JsTime(started[k]) > LastProgress(r) + RunStale)
    BY <2>1, <2>2 DEF SweepHasSilent
  <2>4. LastProgress(r) \in Nat
    BY ProgressIsBounded DEF ProgressBounds
  <2>5. QED
    BY <1>1, <1>2, <2>1, <2>2, <2>3, <2>4
<1>4. CASE ~Sweep(k)
  <2>1. started'[k] = started[k]
    BY <1>4, StartedOnlyBySweep
  <2>2. CASE Touched(r)
    <3>1. LastProgress(r)' \in Nat /\ LastProgress(r)' >= JsTime(now)
      BY <2>2, WriteIsProgress
    <3>2. QED
      BY <1>1, <1>2, <2>1, <3>1
  <2>3. CASE Untouched(r)
    BY <2>1, <2>3, UntouchedLooksTheSame DEF SweptBefore
  <2>4. QED
    BY <2>2, <2>3, StepTouches
<1>5. QED
  BY <1>3, <1>4

-----------------------------------------------------------------------------
(***************************************************************************)
(* The theorems.                                                           *)
(***************************************************************************)
LEMMA InitInvariant ==
  Init => TypeOK /\ StampsArePast /\ MovedIsNewer /\ IdleHasNoCalls /\ SweepInv /\ ExecInv
<1> SUFFICES ASSUME Init
             PROVE  TypeOK /\ StampsArePast /\ MovedIsNewer /\ IdleHasNoCalls /\ SweepInv /\ ExecInv
  OBVIOUS
<1>1. TypeOK
  BY DEF Init, TypeOK, Live, Terminal, Resting
<1>2. StampsArePast
  BY DEF Init, StampsArePast
<1>3. \A k \in Reapers : reaper[k].todo = {}
  BY DEF Init, Resting
<1>4. MovedIsNewer /\ IdleHasNoCalls /\ ExecInv
  BY <1>3 DEF MovedIsNewer, IdleHasNoCalls, ExecInv, ExecutedIsFresh, ExecutedIsNewer, Init
<1>5. SweepInv
  BY DEF Init, SweepInv, SweepHasSilent, SweptBefore, Uncut
<1>6. QED
  BY <1>1, <1>2, <1>4, <1>5

\* Whatever the workers, the sweeps and the page loads do, every variable keeps
\* its type.
THEOREM TypeCorrect == Spec => []TypeOK
<1>1. Init => TypeOK
  BY InitInvariant
<1>2. QED
  BY <1>1, TypeStep, PTL DEF Spec

\* Timestamps lie in the past, a reaper's calls are older than its reading, and
\* what was written to since is newer than its call.
THEOREM ClockInvariant == Spec => []ClockInv
<1>1. Init => ClockInv
  BY InitInvariant DEF ClockInv
<1>2. ClockInv /\ [Next]_vars => ClockInv'
  BY TypeStep, StampsStep, MovedStep, IdleStep DEF ClockInv
<1>3. QED
  BY <1>1, <1>2, PTL DEF Spec

\* Of the steps of a reaper only its own call fails a live run.
LEMMA ReapedByCall ==
  ASSUME TypeOK, [Next]_vars, NEW k \in Reapers, NEW r \in Runs, ReapedBy(k, r)
  PROVE  \E c \in reaper[k].todo : c.run = r /\ Reap(k, c)
<1> USE DEF Reapers
<1>1. /\ reaper[k].pc = "reaping" /\ reaper'[k] # reaper[k] /\ run'[r] # run[r]
  BY DEF ReapedBy, Live
<1>2. PICK i \in Reapers : \E c \in reaper[i].todo : Reap(i, c)
  BY <1>1 DEF Next, vars, Tick, Create, WorkerStep, Claim, PatchLog, Succeed, Fail, Die, Sweep, LoadPage,
     ProbeAlive, ReapRefused
<1>3. PICK c \in reaper[i].todo : Reap(i, c)
  BY <1>2
<1>4. i = k
  BY <1>1, <1>3 DEF Reap, Called, TypeOK
<1>5. c.run = r
  BY <1>1, <1>3 DEF Reap, StampRun, TypeOK
<1>6. QED
  BY <1>3, <1>4, <1>5

\* The procedure does not reap a run that was written to after its caller read
\* the rows, although p_stale_before was cut to milliseconds on its way.
THEOREM MovedIsSpared == Spec => ReapSparesMoved
<1> DEFINE Spares == \A k \in Reapers, r \in Runs : ReapedBy(k, r) => r \notin moved[k]
<1>1. ClockInv /\ [Next]_vars => [Spares]_vars
  <2> SUFFICES ASSUME ClockInv, [Next]_vars, NEW k \in Reapers, NEW r \in Runs, ReapedBy(k, r)
               PROVE  r \notin moved[k]
    OBVIOUS
  <2>1. PICK c \in reaper[k].todo : c.run = r /\ Reap(k, c)
    BY ReapedByCall DEF ClockInv
  <2>2. ~Newer(c.run, c.staleBefore)
    BY <2>1, QuietIsNotNewer DEF Reap, ClockInv
  <2>3. QED
    BY <2>1, <2>2 DEF ClockInv, MovedIsNewer
<1>2. QED
  BY <1>1, ClockInvariant, PTL DEF Spec, ReapSparesMoved

\* A stage in execution says so and is fresh, and no reaper's call reaches it,
\* when the worker logs inside the threshold.
THEOREM ExecutionInvariant == ASSUME BeatsInsideWindow PROVE Spec => []ExecInv
<1>1. Init => ExecInv
  BY InitInvariant
<1>2. ClockInv /\ ExecInv /\ [Next]_vars => ExecInv'
  BY FreshStep, ExecutedNewerStep DEF ClockInv, ExecInv
<1>3. QED
  BY <1>1, <1>2, ClockInvariant, PTL DEF Spec

\* The stage of a worker that logs inside the threshold is not reaped under it.
THEOREM ExecutedIsSpared == ASSUME BeatsInsideWindow PROVE Spec => ExecutedRunIsSpared
<1> DEFINE Spares == \A k \in Reapers, r \in Runs : ReapedBy(k, r) => ~Executed(r)
<1>1. ClockInv /\ ExecInv /\ [Next]_vars => [Spares]_vars
  <2> SUFFICES ASSUME ClockInv, ExecInv, [Next]_vars, NEW k \in Reapers, NEW r \in Runs, ReapedBy(k, r)
               PROVE  ~Executed(r)
    OBVIOUS
  <2>1. PICK c \in reaper[k].todo : c.run = r /\ Reap(k, c)
    BY ReapedByCall DEF ClockInv
  <2>2. ~Newer(c.run, c.staleBefore)
    BY <2>1, QuietIsNotNewer DEF Reap, ClockInv
  <2>3. QED
    BY <2>1, <2>2 DEF ExecInv, ExecutedIsNewer
<1>2. QED
  BY <1>1, ClockInvariant, ExecutionInvariant, PTL DEF Spec, ExecutedRunIsSpared

\* A sweep has every run on its list that was silent when it began, and none had
\* been so for longer than the sweep before it allows.
THEOREM SweepInvariant == Spec => []SweepInv
<1>1. Init => SweepInv
  BY InitInvariant
<1>2. ClockInv /\ SweepInv /\ [Next]_vars => SweepInv'
  BY SilentStep, SweptStep DEF ClockInv, SweepInv
<1>3. QED
  BY <1>1, <1>2, ClockInvariant, PTL DEF Spec

\* The sweeps of the cron route get every run that says running and is silent,
\* when its newest timestamp is not cut below itself in JavaScript.
THEOREM SilenceIsTold == Spec => []ToldUnlessTruncated
<1>1. ClockInv /\ SweepInv => ToldUnlessTruncated
  <2> SUFFICES ASSUME ClockInv, SweepInv, NEW r \in Runs,
                      LastProgress(r) >= LastWrite(r), SilentForTooLong(r)
               PROVE  FALSE
    BY DEF ToldUnlessTruncated
  <2>1. PICK k \in Crons : TRUE
    OBVIOUS
  <2>2. started[k] < LastProgress(r) + RunStale + TicksPerMs + Period
    BY DEF SweepInv, SweptBefore, Uncut, SilentForTooLong
  <2>3. /\ now <= started[k] + Period /\ LastProgress(r) <= LastWrite(r) + Skew
        /\ now \in Nat /\ started[k] \in Nat
    BY ProgressAheadBySkew DEF ClockInv, StampsArePast, TypeOK
  <2>4. LastProgress(r) \in Nat /\ LastWrite(r) \in Nat
    BY ProgressIsBounded, WriteIsBounded DEF ClockInv, ProgressBounds, WriteBounds
  <2>5. now > LastWrite(r) + RunStale + Skew + TicksPerMs + 2 * Period
    BY DEF SilentForTooLong
  <2>6. QED
    BY <2>2, <2>3, <2>4, <2>5
<1>2. QED
  BY <1>1, ClockInvariant, SweepInvariant, PTL
=============================================================================
