------------------------- MODULE PushTriggerProofs -------------------------
(***************************************************************************)
(* Type correctness of PushTrigger, that each entry of _inflight is in one *)
(* place, and that the idle event is exact: for every number of runs,      *)
(* handlers and stages, every length of the queue and every bound of the   *)
(* rounds of a trigger.                                                    *)
(***************************************************************************)
EXTENDS PushTrigger, TLAPS

USE SizeAssumption, PartsAssumption

-----------------------------------------------------------------------------
(***************************************************************************)
(* Sequences without repetition.                                           *)
(***************************************************************************)
\* What is put at the end.
LEMMA AppendFacts ==
  ASSUME NEW S, NEW q \in Seq(S), NEW r \in S
  PROVE  /\ Append(q, r) \in Seq(S) /\ Len(Append(q, r)) = Len(q) + 1
         /\ ToSet(Append(q, r)) = ToSet(q) \cup {r}
         /\ IsInjective(q) /\ r \notin ToSet(q) => IsInjective(Append(q, r))
<1> DEFINE a == Append(q, r)
<1>1. /\ a \in Seq(S) /\ Len(a) = Len(q) + 1 /\ DOMAIN a = 1..Len(q) + 1 /\ DOMAIN q = 1..Len(q)
      /\ \A i \in 1..Len(q) : a[i] = q[i]
      /\ a[Len(q) + 1] = r /\ Len(q) \in Nat
  OBVIOUS
<1> HIDE DEF a
<1>2. ToSet(a) = ToSet(q) \cup {r}
  <2>1. 1..Len(q) + 1 = 1..Len(q) \cup {Len(q) + 1}
    BY <1>1
  <2>2. QED
    BY <1>1, <2>1 DEF ToSet
<1>3. ASSUME IsInjective(q), r \notin ToSet(q)
      PROVE  IsInjective(a)
  BY <1>1, <1>3 DEF ToSet, IsInjective
<1>4. QED
  BY <1>1, <1>2, <1>3 DEF a

\* What is taken from the front.
LEMMA TailFacts ==
  ASSUME NEW S, NEW q \in Seq(S), q # <<>>
  PROVE  /\ Tail(q) \in Seq(S) /\ Len(Tail(q)) = Len(q) - 1 /\ Head(q) \in S
         /\ ToSet(q) = ToSet(Tail(q)) \cup {Head(q)}
         /\ IsInjective(q) => IsInjective(Tail(q)) /\ Head(q) \notin ToSet(Tail(q))
<1>1. /\ Tail(q) \in Seq(S) /\ Len(Tail(q)) = Len(q) - 1 /\ Head(q) = q[1] /\ Len(q) > 0
      /\ \A i \in 1..Len(q) - 1 : Tail(q)[i] = q[i + 1]
  OBVIOUS
<1>2. ToSet(q) = ToSet(Tail(q)) \cup {Head(q)}
  <2>1. ASSUME NEW i \in 1..Len(q)
        PROVE  q[i] \in ToSet(Tail(q)) \cup {Head(q)}
    <3>1. CASE i = 1
      BY <1>1, <3>1
    <3>2. CASE i # 1
      <4>1. i - 1 \in DOMAIN Tail(q) /\ Tail(q)[i - 1] = q[i]
        BY <1>1, <3>2
      <4>2. QED
        BY <1>1, <4>1 DEF ToSet
    <3>3. QED
      BY <3>1, <3>2
  <2>2. QED
    BY <1>1, <2>1 DEF ToSet
<1>3. ASSUME IsInjective(q)
      PROVE  IsInjective(Tail(q)) /\ Head(q) \notin ToSet(Tail(q))
  <2>1. ASSUME NEW i \in 1..Len(q) - 1, NEW j \in 1..Len(q) - 1, Tail(q)[i] = Tail(q)[j]
        PROVE  i = j
    <3>1. q[i + 1] = q[j + 1] /\ i + 1 \in 1..Len(q) /\ j + 1 \in 1..Len(q)
      BY <1>1, <2>1
    <3>2. QED
      BY <1>3, <3>1 DEF IsInjective
  <2>2. ASSUME NEW i \in 1..Len(q) - 1
        PROVE  Tail(q)[i] # Head(q)
    <3>1. Tail(q)[i] = q[i + 1] /\ i + 1 \in 1..Len(q) /\ 1 \in 1..Len(q) /\ i + 1 # 1
      BY <1>1
    <3>2. QED
      BY <1>1, <1>3, <3>1 DEF IsInjective
  <2>3. QED
    BY <1>1, <2>1, <2>2 DEF ToSet, IsInjective
<1>4. QED
  BY <1>1, <1>2, <1>3

-----------------------------------------------------------------------------
(***************************************************************************)
(* The inductive invariant.                                                *)
(***************************************************************************)
\* A thread that is at work has a run, and the drain thread has none while it
\* waits for the queue.
ThreadsHaveRuns ==
    /\ \A h \in Handlers : handler[h].pc # "idle" => handler[h].run \in Runs
    /\ IF drain.pc = "get" THEN drain.run = None ELSE drain.run \in Runs

IInv == TypeOK /\ ThreadsHaveRuns /\ InflightIsAccounted /\ IdleEventIsExact

\* The runs that are with a handler.
Handled == {handler[h].run : h \in {h \in Handlers : Entered(h)}}

LEMMA InitInv == Init => IInv
  BY DEF Init, IInv, TypeOK, ThreadsHaveRuns, InflightIsAccounted, IdleEventIsExact, Entered,
     Asleep, Getting, ToSet, IsInjective, Ords

\* The app, the other worker and the main thread leave the executor and its
\* threads alone.
LEMMA OutsideInv ==
  ASSUME IInv, UNCHANGED <<executor, handler, drain>>, TypeOK'
  PROVE  IInv'
  BY DEF IInv, ThreadsHaveRuns, InflightIsAccounted, IdleEventIsExact, Entered, executor

LEMMA DecideType ==
  ASSUME TypeOK, NEW r \in Runs, NEW s \in Ords, Decide(r, s)
  PROVE  decided' \in [Runs -> SUBSET Ords] /\ broken' \in [Runs -> BOOLEAN]
<1>1. decided' \in [Runs -> SUBSET Ords]
  BY DEF TypeOK, Decide
<1>2. PICK fails \in BOOLEAN : broken' = [broken EXCEPT ![r] = @ \/ fails]
  BY DEF Decide
<1>3. broken' \in [Runs -> BOOLEAN]
  BY <1>2, Zenon DEF TypeOK
<1>4. QED
  BY <1>1, <1>3

LEMMA AppInv ==
  ASSUME IInv, NEW r \in Runs, Relaunch(r) \/ PushFails(r) \/ OtherWorker(r)
  PROVE  IInv'
<1>1. CASE Relaunch(r)
  <2>1. decided' \in [Runs -> SUBSET Ords] /\ broken' \in [Runs -> BOOLEAN]
    BY <1>1 DEF Relaunch, IInv, TypeOK
  <2>2. QED
    BY <1>1, <2>1, OutsideInv DEF Relaunch, IInv, TypeOK, executor
<1>2. CASE PushFails(r)
  BY <1>2, OutsideInv DEF PushFails, IInv, TypeOK, executor, work
<1>3. CASE OtherWorker(r)
  <2>1. PICK s \in Undecided(r) \ Mine : Decide(r, s)
    BY <1>3 DEF OtherWorker
  <2>2. s \in Ords
    BY DEF Undecided
  <2>3. decided' \in [Runs -> SUBSET Ords] /\ broken' \in [Runs -> BOOLEAN]
    BY <2>1, <2>2, DecideType DEF IInv
  <2>4. QED
    BY <1>3, <2>3, OutsideInv DEF OtherWorker, IInv, TypeOK, executor
<1>4. QED
  BY <1>1, <1>2, <1>3

LEMMA MainInv ==
  ASSUME IInv, StopSignal \/ DrainWaited \/ GraceExpires \/ Report \/ Exit
  PROVE  IInv'
<1>1. main' \in {"serving", "draining", "report", "clean", "unfinished", "exited"}
      /\ UNCHANGED <<work, due, accepted, executor, handler, connected, drain>>
  BY DEF StopSignal, DrainWaited, GraceExpires, Report, Exit, MainStep
<1>2. QED
  BY <1>1, OutsideInv DEF IInv, TypeOK, executor, work

-----------------------------------------------------------------------------
(***************************************************************************)
(* The handlers.                                                           *)
(***************************************************************************)
\* A handler that was not entered and still is not.
LEMMA AsideInv ==
  ASSUME IInv, NEW h \in Handlers, ~Entered(h), UNCHANGED <<executor, drain>>,
         NEW to \in [pc : {"idle", "add"}, run : Runs \cup {None}],
         to.pc = "add" => to.run \in Runs,
         handler' = [handler EXCEPT ![h] = to], TypeOK'
  PROVE  IInv'
<1>1. \A g \in Handlers : /\ Entered(g)' <=> Entered(g)
                          /\ Entered(g) => handler'[g] = handler[g]
  BY DEF IInv, TypeOK, Entered
<1>2. Handled' = Handled
  BY <1>1 DEF Handled
<1>3. InflightIsAccounted'
  BY <1>1, <1>2 DEF IInv, InflightIsAccounted, Handled, executor
<1>4. ThreadsHaveRuns' /\ IdleEventIsExact'
  BY DEF IInv, ThreadsHaveRuns, IdleEventIsExact, TypeOK, executor
<1>5. QED
  BY <1>3, <1>4 DEF IInv

LEMMA ArriveInv ==
  ASSUME IInv, NEW h \in Handlers, NEW r \in Runs, Arrive(h, r)
  PROVE  IInv'
<1>1. TypeOK'
  BY DEF IInv, TypeOK, Arrive, executor, work
<1>2. ~Entered(h)
  BY DEF Arrive, Entered
<1>3. QED
  BY <1>1, <1>2, AsideInv DEF Arrive

LEMMA HangUpInv ==
  ASSUME IInv, NEW h \in Handlers, HangUp(h)
  PROVE  IInv'
<1>1. TypeOK'
  BY DEF IInv, TypeOK, HangUp, executor, work
<1>2. QED
  BY <1>1, OutsideInv DEF HangUp

LEMMA AlreadyQueuedInv ==
  ASSUME IInv, NEW h \in Handlers, AlreadyQueued(h)
  PROVE  IInv'
<1>1. handler[h].run \in Runs
  BY DEF AlreadyQueued, IInv, ThreadsHaveRuns
<1>2. TypeOK'
  BY <1>1 DEF IInv, TypeOK, AlreadyQueued, Answer202, Asleep, executor, work
<1>3. ~Entered(h)
  BY DEF AlreadyQueued, Entered
<1>4. QED
  BY <1>2, <1>3, AsideInv DEF AlreadyQueued, Answer202, Asleep

LEMMA AddInflightInv ==
  ASSUME IInv, NEW h \in Handlers, AddInflight(h)
  PROVE  IInv'
<1> DEFINE r == handler[h].run
<1>1. r \in Runs /\ r \notin inflight /\ ~Entered(h)
  BY DEF AddInflight, IInv, ThreadsHaveRuns, Entered
<1>2. handler' = [handler EXCEPT ![h].pc = "put"]
  BY DEF AddInflight
<1>3. TypeOK'
  BY <1>1 DEF IInv, TypeOK, AddInflight, work
<1>4. /\ Entered(h)' /\ handler'[h].run = r
      /\ \A g \in Handlers \ {h} : handler'[g] = handler[g] /\ (Entered(g)' <=> Entered(g))
  BY <1>2 DEF IInv, TypeOK, Entered
<1>5. Handled' = Handled \cup {r}
  BY <1>1, <1>4 DEF Handled
<1>6. InflightIsAccounted'
  BY <1>1, <1>4, <1>5 DEF IInv, InflightIsAccounted, Handled, AddInflight
<1>7. ThreadsHaveRuns'
  BY <1>1, <1>4 DEF IInv, ThreadsHaveRuns, AddInflight
<1>8. IdleEventIsExact'
  BY DEF IdleEventIsExact, AddInflight
<1>9. QED
  BY <1>3, <1>6, <1>7, <1>8 DEF IInv

LEMMA PutInv ==
  ASSUME IInv, NEW h \in Handlers, Put(h)
  PROVE  IInv'
<1> DEFINE r == handler[h].run
<1>1. r \in Runs /\ Entered(h)
  BY DEF Put, IInv, ThreadsHaveRuns, Entered
<1>2. r \notin ToSet(queue) /\ r # drain.run
  BY <1>1 DEF IInv, InflightIsAccounted
<1>3. queue \in Seq(Runs) /\ queue' = Append(queue, r) /\ handler' = [handler EXCEPT ![h] = Asleep]
  BY DEF Put, Answer202, IInv, TypeOK
<1>4. /\ queue' \in Seq(Runs) /\ Len(queue') = Len(queue) + 1
      /\ ToSet(queue') = ToSet(queue) \cup {r} /\ IsInjective(queue')
  BY <1>1, <1>2, <1>3, AppendFacts DEF IInv, InflightIsAccounted
<1>5. TypeOK'
  BY <1>1, <1>4 DEF IInv, TypeOK, Put, Answer202, Asleep, work
<1>6. /\ ~Entered(h)'
      /\ \A g \in Handlers \ {h} : handler'[g] = handler[g] /\ (Entered(g)' <=> Entered(g))
  BY <1>3 DEF IInv, TypeOK, Entered, Asleep
<1>7. Handled' = Handled \ {r}
  BY <1>1, <1>6 DEF Handled, IInv, InflightIsAccounted
<1>8. InflightIsAccounted'
  <2>1. inflight' = ToSet(queue') \cup ({drain'.run} \ {None}) \cup Handled'
    BY <1>1, <1>4, <1>7 DEF IInv, InflightIsAccounted, Handled, Put
  <2>2. drain'.run \notin ToSet(queue')
    BY <1>2, <1>4 DEF IInv, InflightIsAccounted, Put
  <2>3. ASSUME NEW g \in Handlers, Entered(g)'
        PROVE  /\ handler'[g].run \notin ToSet(queue') \cup {drain'.run}
               /\ \A k \in Handlers : (Entered(k)' /\ handler'[k].run = handler'[g].run) => k = g
    BY <1>1, <1>4, <1>6, <2>3 DEF IInv, InflightIsAccounted, Put
  <2>4. QED
    BY <1>4, <2>1, <2>2, <2>3 DEF InflightIsAccounted, Handled
<1>9. ThreadsHaveRuns' /\ IdleEventIsExact'
  BY <1>3 DEF IInv, ThreadsHaveRuns, IdleEventIsExact, Put, TypeOK, Asleep
<1>10. QED
  BY <1>5, <1>8, <1>9 DEF IInv

\* Whoever takes an entry out of _inflight keeps the event exact.
LEMMA DiscardIdle ==
  ASSUME IInv, NEW r \in Runs, Discard(r)
  PROVE  IdleEventIsExact'
<1>1. idle \in BOOLEAN /\ (idle <=> inflight = {})
  BY DEF IInv, TypeOK, IdleEventIsExact
<1>2. inflight = {} => inflight' = {}
  BY DEF Discard
<1>3. idle' <=> (idle \/ inflight' = {})
  BY DEF Discard
<1>4. QED
  BY <1>1, <1>2, <1>3, Zenon DEF IdleEventIsExact

LEMMA PutFullInv ==
  ASSUME IInv, NEW h \in Handlers, PutFull(h)
  PROVE  IInv'
<1>1. TypeOK'
  BY DEF IInv, TypeOK, PutFull, executor, work
<1>2. \A g \in Handlers : handler'[g].run = handler[g].run /\ (Entered(g)' <=> Entered(g))
  BY DEF IInv, TypeOK, Entered, PutFull
<1>3. Handled' = Handled
  BY <1>2 DEF Handled
<1>4. InflightIsAccounted'
  BY <1>2, <1>3 DEF IInv, InflightIsAccounted, Handled, PutFull, executor
<1>5. ThreadsHaveRuns' /\ IdleEventIsExact'
  BY <1>2 DEF IInv, ThreadsHaveRuns, IdleEventIsExact, PutFull, TypeOK, executor
<1>6. QED
  BY <1>1, <1>4, <1>5 DEF IInv

LEMMA RefuseFullInv ==
  ASSUME IInv, NEW h \in Handlers, RefuseFull(h)
  PROVE  IInv'
<1> DEFINE r == handler[h].run
<1>1. r \in Runs /\ Entered(h)
  BY DEF RefuseFull, IInv, ThreadsHaveRuns, Entered
<1>2. handler' = [handler EXCEPT ![h] = Asleep] /\ inflight' = inflight \ {r}
  BY DEF RefuseFull, Discard
<1>3. TypeOK'
  BY <1>1 DEF IInv, TypeOK, RefuseFull, Discard, Asleep, work
<1>4. /\ ~Entered(h)'
      /\ \A g \in Handlers \ {h} : handler'[g] = handler[g] /\ (Entered(g)' <=> Entered(g))
  BY <1>2 DEF IInv, TypeOK, Entered, Asleep
<1>5. Handled' = Handled \ {r}
  BY <1>1, <1>4 DEF Handled, IInv, InflightIsAccounted
<1>6. InflightIsAccounted'
  <2>1. inflight' = ToSet(queue') \cup ({drain'.run} \ {None}) \cup Handled'
    BY <1>1, <1>2, <1>5 DEF IInv, InflightIsAccounted, Handled, RefuseFull
  <2>2. QED
    BY <1>4, <2>1 DEF IInv, InflightIsAccounted, Handled, RefuseFull
<1>7. Discard(r)
  BY DEF RefuseFull
<1>8. ThreadsHaveRuns' /\ IdleEventIsExact'
  BY <1>1, <1>2, <1>7, DiscardIdle DEF IInv, ThreadsHaveRuns, RefuseFull, TypeOK, Asleep
<1>9. QED
  BY <1>3, <1>6, <1>8 DEF IInv

-----------------------------------------------------------------------------
(***************************************************************************)
(* The drain thread.                                                       *)
(***************************************************************************)
LEMMA DrainGetInv ==
  ASSUME IInv, DrainGet
  PROVE  IInv'
<1>1. queue \in Seq(Runs) /\ queue # <<>> /\ drain.run = None /\ IsInjective(queue)
  BY DEF DrainGet, IInv, TypeOK, ThreadsHaveRuns, InflightIsAccounted
<1>2. /\ Tail(queue) \in Seq(Runs) /\ Len(Tail(queue)) = Len(queue) - 1 /\ Head(queue) \in Runs
      /\ ToSet(queue) = ToSet(Tail(queue)) \cup {Head(queue)}
      /\ IsInjective(Tail(queue)) /\ Head(queue) \notin ToSet(Tail(queue))
  BY <1>1, TailFacts
<1>3. queue' = Tail(queue) /\ drain'.run = Head(queue) /\ drain'.pc = "fetch"
  BY DEF DrainGet, Getting
<1>4. TypeOK'
  <2>1. drain' \in [pc : {"get", "fetch", "act", "release"}, run : Runs \cup {None},
                   stages : SUBSET Ords, rounds : 0..MaxStagesPerTrigger]
    <3>1. drain' = [pc |-> "fetch", run |-> Head(queue), stages |-> {}, rounds |-> 0]
      BY DEF DrainGet, Getting
    <3>2. 0 \in 0..MaxStagesPerTrigger
      OBVIOUS
    <3>3. QED
      BY <1>2, <3>1, <3>2
  <2>2. queue' \in Seq(Runs) /\ Len(queue') <= MaxQueued
    BY <1>2, <1>3 DEF IInv, TypeOK
  <2>3. QED
    BY <2>1, <2>2 DEF IInv, TypeOK, DrainGet, work
<1>5. InflightIsAccounted'
  BY <1>1, <1>2, <1>3 DEF IInv, InflightIsAccounted, DrainGet, Entered
<1>6. ThreadsHaveRuns' /\ IdleEventIsExact'
  BY <1>2, <1>3 DEF IInv, ThreadsHaveRuns, IdleEventIsExact, DrainGet
<1>7. QED
  BY <1>4, <1>5, <1>6 DEF IInv

\* The drain thread goes on with its run.
LEMMA DrainGoesOn ==
  ASSUME IInv, drain.pc # "get", drain'.pc \in {"fetch", "act", "release"}, drain'.run = drain.run,
         UNCHANGED <<executor, handler>>, TypeOK'
  PROVE  IInv'
  BY DEF IInv, ThreadsHaveRuns, InflightIsAccounted, IdleEventIsExact, Entered, executor

LEMMA DrainFetchInv ==
  ASSUME IInv, DrainFetch
  PROVE  IInv'
<1> DEFINE stages == Undecided(drain.run) \cap Mine
<1>1. stages \in SUBSET Ords
  OBVIOUS
<1>2. CASE stages = {} \/ drain.rounds = MaxStagesPerTrigger
  <2>1. drain' = [drain EXCEPT !.pc = "release"]
    BY <1>2 DEF DrainFetch
  <2>2. QED
    BY <2>1, DrainGoesOn DEF DrainFetch, IInv, TypeOK, executor, work
<1>3. CASE ~(stages = {} \/ drain.rounds = MaxStagesPerTrigger)
  <2>1. drain' = [drain EXCEPT !.pc = "act", !.stages = stages, !.rounds = drain.rounds + 1]
    BY <1>3 DEF DrainFetch
  <2>2. drain.rounds + 1 \in 0..MaxStagesPerTrigger
    BY <1>3 DEF IInv, TypeOK
  <2>3. QED
    BY <1>1, <2>1, <2>2, DrainGoesOn DEF DrainFetch, IInv, TypeOK, executor, work
<1>4. QED
  BY <1>2, <1>3

LEMMA DrainActInv ==
  ASSUME IInv, DrainAct
  PROVE  IInv'
<1> DEFINE stages == {s \in drain.stages : Actionable(drain.run, s)}
<1>1. drain.run \in Runs /\ drain.stages \in SUBSET Ords
  BY DEF DrainAct, IInv, ThreadsHaveRuns, TypeOK
<1>2. decided' \in [Runs -> SUBSET Ords] /\ broken' \in [Runs -> BOOLEAN]
  <2>1. CASE UNCHANGED work
    BY <2>1 DEF IInv, TypeOK, work
  <2>2. CASE DecideFirst(stages)
    <3>1. PICK s \in stages : Decide(drain.run, s)
      BY <2>2 DEF DecideFirst
    <3>2. s \in Ords
      BY <1>1
    <3>3. QED
      BY <1>1, <3>1, <3>2, DecideType DEF IInv
  <2>3. QED
    BY <2>1, <2>2 DEF DrainAct
<1>3. drain' = [drain EXCEPT !.pc = IF stages = {} THEN "release" ELSE "fetch", !.stages = {}]
  BY DEF DrainAct
<1>4. QED
  BY <1>2, <1>3, DrainGoesOn DEF DrainAct, IInv, TypeOK, executor

LEMMA DrainRaisesInv ==
  ASSUME IInv, DrainRaises
  PROVE  IInv'
  BY DrainGoesOn DEF DrainRaises, IInv, TypeOK, executor, work

LEMMA DrainReleaseInv ==
  ASSUME IInv, DrainRelease
  PROVE  IInv'
<1>1. drain.run \in Runs /\ drain' = Getting /\ inflight' = inflight \ {drain.run}
  BY DEF DrainRelease, Discard, IInv, ThreadsHaveRuns
<1>2. TypeOK'
  BY <1>1 DEF IInv, TypeOK, DrainRelease, Discard, Getting, work
<1>3. InflightIsAccounted'
  <2>1. drain.run \notin ToSet(queue) \cup Handled
    BY <1>1 DEF IInv, InflightIsAccounted, Handled
  <2>2. handler' = handler /\ Handled' = Handled /\ queue' = queue
    BY DEF Handled, DrainRelease, Entered
  <2>3. None \notin ToSet(queue) \cup Handled
    BY DEF IInv, TypeOK, InflightIsAccounted, Handled
  <2>4. inflight' = ToSet(queue') \cup ({drain'.run} \ {None}) \cup Handled'
    <3>1. inflight = ToSet(queue) \cup {drain.run} \cup Handled
      BY <1>1 DEF IInv, InflightIsAccounted, Handled
    <3>2. {drain'.run} \ {None} = {}
      BY <1>1 DEF Getting
    <3>3. QED
      BY <1>1, <2>1, <2>2, <3>1, <3>2
  <2>5. QED
    BY <1>1, <2>3, <2>4 DEF IInv, InflightIsAccounted, Handled, DrainRelease, Getting, Entered
<1>4. Discard(drain.run)
  BY DEF DrainRelease
<1>5. ThreadsHaveRuns' /\ IdleEventIsExact'
  BY <1>1, <1>4, DiscardIdle DEF IInv, ThreadsHaveRuns, DrainRelease, TypeOK, Getting
<1>6. QED
  BY <1>2, <1>3, <1>5 DEF IInv

-----------------------------------------------------------------------------
(***************************************************************************)
(* The theorems.                                                           *)
(***************************************************************************)
LEMMA NextInv == IInv /\ [Next]_vars => IInv'
<1> SUFFICES ASSUME IInv, [Next]_vars PROVE IInv'
  OBVIOUS
<1>1. ASSUME NEW r \in Runs, Relaunch(r) \/ PushFails(r) \/ OtherWorker(r)
      PROVE  IInv'
  BY <1>1, AppInv
<1>2. ASSUME NEW h \in Handlers, HandlerStep(h) \/ HangUp(h)
      PROVE  IInv'
  BY <1>2, AlreadyQueuedInv, AddInflightInv, PutInv, PutFullInv, RefuseFullInv, HangUpInv
     DEF HandlerStep
<1>3. ASSUME NEW h \in Handlers, NEW r \in Runs, Arrive(h, r)
      PROVE  IInv'
  BY <1>3, ArriveInv
<1>4. CASE DrainStep \/ DrainRaises
  BY <1>4, DrainGetInv, DrainFetchInv, DrainActInv, DrainReleaseInv, DrainRaisesInv DEF DrainStep
<1>5. CASE StopSignal \/ DrainWaited \/ GraceExpires \/ Report \/ Exit
  BY <1>5, MainInv
<1>6. CASE UNCHANGED vars
  BY <1>6, OutsideInv DEF IInv, TypeOK, vars, executor
<1>7. QED
  BY <1>1, <1>2, <1>3, <1>4, <1>5, <1>6 DEF Next

LEMMA Invariance == Spec => []IInv
  BY InitInv, NextInv, PTL DEF Spec

\* Every variable keeps its type, and the queue its bound.
THEOREM TypeCorrect == Spec => []TypeOK
<1>1. IInv => TypeOK
  BY DEF IInv
<1>2. QED
  BY <1>1, Invariance, PTL

\* Each run in _inflight is with one handler, once on the queue or with the
\* drain thread, and each run in one of these places is in _inflight: no push is
\* lost and none is executed twice at once, although do_POST, the queue and
\* _drain_loop change the structures without a common lock.
THEOREM EntriesAreAccounted == Spec => []InflightIsAccounted
<1>1. IInv => InflightIsAccounted
  BY DEF IInv
<1>2. QED
  BY <1>1, Invariance, PTL

\* The event drain() waits for is set when, and only when, nothing is in flight:
\* shutdown neither waits for nothing nor leaves a run behind.
THEOREM IdleEventAgrees == Spec => []IdleEventIsExact
<1>1. IInv => IdleEventIsExact
  BY DEF IInv
<1>2. QED
  BY <1>1, Invariance, PTL
=============================================================================
