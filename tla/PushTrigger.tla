---------------------------- MODULE PushTrigger ----------------------------
(***************************************************************************)
(* A worker in AEQ_WORKER_MODE=push: the app rings its HTTP trigger once   *)
(* per launch, handler threads put the run id on a bounded queue, one      *)
(* drain thread takes the runs stage by stage, and a stop signal lets what *)
(* was accepted finish.  No poll loop runs, so a run moves only while it   *)
(* is in the hands of this process.                                        *)
(*                                                                         *)
(* A stage is executed in one step: its failure makes the run broken, and  *)
(* the stages behind it are skipped (ModelRuns has the steps of a stage,   *)
(* and the races of a relaunch with a stage that is executed).             *)
(***************************************************************************)
EXTENDS Naturals, SequencesExt

CONSTANTS
    Runs,
    NStages,
    Mine,                  \* the stages this worker owns; the others belong to a polling worker
    Handlers,              \* handler threads
    MaxQueued,             \* MAX_QUEUED_RUNS
    MaxStagesPerTrigger,   \* MAX_STAGES_PER_TRIGGER
    Relaunched,            \* runs that a planner may launch again
    ReadsFail,             \* runs whose stages the drain thread may fail to read
    None                   \* no run

Ords == 1..NStages

ASSUME SizeAssumption == NStages \in Nat \ {0} /\ MaxQueued \in Nat \ {0}
                         /\ MaxStagesPerTrigger \in Nat \ {0}
ASSUME PartsAssumption == Mine \subseteq Ords /\ None \notin Runs
                          /\ Relaunched \subseteq Runs /\ ReadsFail \subseteq Runs

VARIABLES
    decided,    \* the stages of each run that are no longer queued
    broken,     \* whether one of them failed
    due,        \* runs the app has queued and not yet pushed
    accepted,   \* runs of which the app was last told that the worker has them
    queue,      \* RunTriggerExecutor._queue
    inflight,   \* RunTriggerExecutor._inflight
    idle,       \* RunTriggerExecutor._idle, an event
    handler,    \* each handler thread: what it does next, its run
    connected,  \* handlers whose connection is kept alive
    drain,      \* the drain thread: what it does next, its run, the stages it fetched, its rounds
    main        \* the main thread: serving, stopping, draining, then what it reports

vars == <<decided, broken, due, accepted, queue, inflight, idle, handler, connected, drain, main>>
work == <<decided, broken>>
executor == <<queue, inflight, idle>>

Serves == main # "exited"
Asleep == [pc |-> "idle", run |-> None]
Getting == [pc |-> "get", run |-> None, stages |-> {}, rounds |-> 0]

Init ==
    /\ decided = [r \in Runs |-> {}]
    /\ broken = [r \in Runs |-> FALSE]
    /\ due = Runs
    /\ accepted = {}
    /\ queue = <<>> /\ inflight = {} /\ idle = TRUE
    /\ handler = [h \in Handlers |-> Asleep]
    /\ connected = {}
    /\ drain = Getting
    /\ main = "serving"

-----------------------------------------------------------------------------
(***************************************************************************)
(* The app and the polling worker of the other stages.                     *)
(***************************************************************************)

\* The launch route re-queues a queued or failed run, and rings again.
Relaunch(r) ==
    /\ r \in Relaunched \ due
    /\ broken[r] \/ decided[r] = {}
    /\ decided' = [decided EXCEPT ![r] = {}]
    /\ broken' = [broken EXCEPT ![r] = FALSE]
    /\ due' = due \cup {r}
    /\ accepted' = accepted \ {r}
    /\ UNCHANGED <<executor, handler, connected, drain, main>>

\* dispatchModelRun cannot reach the worker, and says so.
PushFails(r) ==
    /\ r \in due
    /\ main # "serving"
    /\ due' = due \ {r}
    /\ UNCHANGED <<work, accepted, executor, handler, connected, drain, main>>

Undecided(r) == Ords \ decided[r]
\* blocked_terminal, or ready.
Actionable(r, s) == broken[r] \/ 1..(s - 1) \subseteq decided[r]

\* A stage succeeds or fails, or is skipped when one before it did not succeed.
Decide(r, s) ==
    /\ decided' = [decided EXCEPT ![r] = @ \cup {s}]
    /\ \E fails \in BOOLEAN : broken' = [broken EXCEPT ![r] = @ \/ fails]

OtherWorker(r) ==
    /\ \E s \in Undecided(r) \ Mine : Actionable(r, s) /\ Decide(r, s)
    /\ UNCHANGED <<due, accepted, executor, handler, connected, drain, main>>

-----------------------------------------------------------------------------
(***************************************************************************)
(* A handler thread: do_POST and RunTriggerExecutor.submit.                *)
(***************************************************************************)

\* A new connection needs the accept loop; a request on an established one
\* does not.
Arrive(h, r) ==
    /\ r \in due
    /\ handler[h].pc = "idle"
    /\ Serves /\ (main = "serving" \/ h \in connected)
    /\ due' = due \ {r}
    /\ handler' = [handler EXCEPT ![h] = [pc |-> "add", run |-> r]]
    /\ connected' = connected \cup {h}
    /\ UNCHANGED <<work, accepted, executor, drain, main>>

HangUp(h) ==
    /\ h \in connected /\ handler[h].pc = "idle"
    /\ connected' = connected \ {h}
    /\ UNCHANGED <<work, due, accepted, executor, handler, drain, main>>

\* The answer may come too late for the app (DISPATCH_TIMEOUT_MS).
Answer202(h) ==
    /\ handler' = [handler EXCEPT ![h] = Asleep]
    /\ accepted' \in {accepted, accepted \cup {handler[h].run}}

AlreadyQueued(h) ==
    /\ Serves /\ handler[h].pc = "add"
    /\ handler[h].run \in inflight
    /\ Answer202(h)
    /\ UNCHANGED <<work, due, executor, connected, drain, main>>

AddInflight(h) ==
    /\ Serves /\ handler[h].pc = "add"
    /\ handler[h].run \notin inflight
    /\ inflight' = inflight \cup {handler[h].run}
    /\ idle' = FALSE
    /\ handler' = [handler EXCEPT ![h].pc = "put"]
    /\ UNCHANGED <<work, due, accepted, queue, connected, drain, main>>

\* Variant: the queue has no bound.
PutAnyway(h) ==
    /\ Serves /\ handler[h].pc = "put"
    /\ queue' = Append(queue, handler[h].run)
    /\ Answer202(h)
    /\ UNCHANGED <<work, due, inflight, idle, connected, drain, main>>

Put(h) ==
    /\ Serves /\ handler[h].pc = "put"
    /\ Len(queue) < MaxQueued
    /\ queue' = Append(queue, handler[h].run)
    /\ Answer202(h)
    /\ UNCHANGED <<work, due, inflight, idle, connected, drain, main>>

PutFull(h) ==
    /\ Serves /\ handler[h].pc = "put"
    /\ Len(queue) = MaxQueued
    /\ handler' = [handler EXCEPT ![h].pc = "full"]
    /\ UNCHANGED <<work, due, accepted, executor, connected, drain, main>>

\* Variant: the event is set without a look at what else is in flight.
DiscardAndSetIdle(r) == inflight' = inflight \ {r} /\ idle' = TRUE

Discard(r) ==
    /\ inflight' = inflight \ {r}
    /\ idle' = (idle \/ inflight' = {})

\* Variant: the refused run stays in _inflight.
RefuseAndKeep(h) ==
    /\ Serves /\ handler[h].pc = "full"
    /\ handler' = [handler EXCEPT ![h] = Asleep]
    /\ connected' = connected \ {h}
    /\ UNCHANGED <<work, due, accepted, executor, drain, main>>

\* 503, and the connection is closed.
RefuseFull(h) ==
    /\ Serves /\ handler[h].pc = "full"
    /\ Discard(handler[h].run)
    /\ handler' = [handler EXCEPT ![h] = Asleep]
    /\ connected' = connected \ {h}
    /\ UNCHANGED <<work, due, accepted, queue, drain, main>>

-----------------------------------------------------------------------------
(***************************************************************************)
(* The drain thread: _drain and execute_run_from_trigger.                  *)
(***************************************************************************)
DrainGet ==
    /\ Serves /\ drain.pc = "get"
    /\ queue # <<>>
    /\ drain' = [Getting EXCEPT !.pc = "fetch", !.run = Head(queue)]
    /\ queue' = Tail(queue)
    /\ UNCHANGED <<work, due, accepted, inflight, idle, handler, connected, main>>

\* Variant: no bound on the stages of one trigger.
FetchWithoutBound ==
    LET stages == Undecided(drain.run) \cap Mine IN
    /\ Serves /\ drain.pc = "fetch"
    /\ drain' = IF stages = {} THEN [drain EXCEPT !.pc = "release"]
                ELSE [drain EXCEPT !.pc = "act", !.stages = stages]
    /\ UNCHANGED <<work, due, accepted, executor, handler, connected, main>>

DrainFetch ==
    LET stages == Undecided(drain.run) \cap Mine IN
    /\ Serves /\ drain.pc = "fetch"
    /\ drain' = IF stages = {} \/ drain.rounds = MaxStagesPerTrigger
                THEN [drain EXCEPT !.pc = "release"]
                ELSE [drain EXCEPT !.pc = "act", !.stages = stages, !.rounds = @ + 1]
    /\ UNCHANGED <<work, due, accepted, executor, handler, connected, main>>

\* The first of the stages is the one to act on.
DecideFirst(stages) ==
    \E s \in stages : (\A other \in stages : s <= other) /\ Decide(drain.run, s)

\* Variant: one stage per trigger.
ActOnce ==
    LET stages == {s \in drain.stages : Actionable(drain.run, s)} IN
    /\ Serves /\ drain.pc = "act"
    /\ \/ stages = {} /\ UNCHANGED work
       \/ DecideFirst(stages)
    /\ drain' = [drain EXCEPT !.pc = "release", !.stages = {}]
    /\ UNCHANGED <<due, accepted, executor, handler, connected, main>>

\* process_first_actionable_stage on the fetched rows; nothing to act on means
\* that another worker has the run.
DrainAct ==
    LET stages == {s \in drain.stages : Actionable(drain.run, s)} IN
    /\ Serves /\ drain.pc = "act"
    /\ \/ stages = {} /\ UNCHANGED work
       \/ DecideFirst(stages)
    /\ drain' = [drain EXCEPT !.pc = IF stages = {} THEN "release" ELSE "fetch", !.stages = {}]
    /\ UNCHANGED <<due, accepted, executor, handler, connected, main>>

\* A read of the stages fails: the run is given up.
DrainRaises ==
    /\ drain.run \in ReadsFail
    /\ Serves /\ drain.pc \in {"fetch", "act"}
    /\ drain' = [drain EXCEPT !.pc = "release", !.stages = {}]
    /\ UNCHANGED <<work, due, accepted, executor, handler, connected, main>>

DrainRelease ==
    /\ Serves /\ drain.pc = "release"
    /\ Discard(drain.run)
    /\ drain' = Getting
    /\ UNCHANGED <<work, due, accepted, queue, handler, connected, main>>

-----------------------------------------------------------------------------
(***************************************************************************)
(* The main thread: _serve_until_drained.  Handler and drain threads are   *)
(* daemons: nobody joins them and they end with the process.               *)
(***************************************************************************)
MainStep(from, to) ==
    /\ main = from
    /\ main' = to
    /\ UNCHANGED <<work, due, accepted, executor, handler, connected, drain>>

StopSignal == MainStep("serving", "draining")
\* What is outstanding is read after the wait, however that ended.
DrainWaited == idle /\ MainStep("draining", "report")
GraceExpires == MainStep("draining", "report")
Report == MainStep("report", IF inflight = {} THEN "clean" ELSE "unfinished")
Exit == \E outcome \in {"clean", "unfinished"} : MainStep(outcome, "exited")

-----------------------------------------------------------------------------
HandlerStep(h) == AlreadyQueued(h) \/ AddInflight(h) \/ Put(h) \/ PutFull(h) \/ RefuseFull(h)
DrainStep == DrainGet \/ DrainFetch \/ DrainAct \/ DrainRelease

Next == \/ \E r \in Runs : Relaunch(r) \/ PushFails(r) \/ OtherWorker(r)
        \/ \E h \in Handlers : HandlerStep(h) \/ HangUp(h) \/ \E r \in Runs : Arrive(h, r)
        \/ DrainStep \/ DrainRaises
        \/ StopSignal \/ DrainWaited \/ GraceExpires \/ Report \/ Exit

Spec == Init /\ [][Next]_vars

\* Threads run, pushes arrive, the other worker polls, and shutdown goes on
\* when the executor is idle.
Fairness == /\ WF_vars(DrainStep)
            /\ \A h \in Handlers : WF_vars(HandlerStep(h))
            /\ \A r \in Runs : /\ WF_vars(\E h \in Handlers : Arrive(h, r))
                               /\ WF_vars(OtherWorker(r))
            /\ WF_vars(DrainWaited \/ Report \/ Exit)
FairSpec == Spec /\ Fairness

-----------------------------------------------------------------------------
(***************************************************************************)
(* Properties.                                                             *)
(***************************************************************************)

\* Every variable has its type.
TypeOK ==
    /\ decided \in [Runs -> SUBSET Ords]
    /\ broken \in [Runs -> BOOLEAN]
    /\ due \subseteq Runs /\ accepted \subseteq Runs /\ inflight \subseteq Runs
    /\ queue \in Seq(Runs) /\ Len(queue) <= MaxQueued
    /\ idle \in BOOLEAN
    /\ handler \in [Handlers -> [pc : {"idle", "add", "put", "full"}, run : Runs \cup {None}]]
    /\ connected \subseteq Handlers
    /\ drain \in [pc : {"get", "fetch", "act", "release"}, run : Runs \cup {None},
                  stages : SUBSET Ords, rounds : 0..MaxStagesPerTrigger]
    /\ main \in {"serving", "draining", "report", "clean", "unfinished", "exited"}

\* Handlers between their entry in _inflight and their answer.
Entered(h) == handler[h].pc \in {"put", "full"}

\* Each run in _inflight is in exactly one place: with a handler that is
\* putting it, on the queue once, or with the drain thread; and every run in
\* one of these places is in _inflight.  The two structures are changed
\* without a common lock.
InflightIsAccounted ==
    /\ inflight = ToSet(queue) \cup ({drain.run} \ {None})
                    \cup {handler[h].run : h \in {h \in Handlers : Entered(h)}}
    /\ IsInjective(queue)
    /\ drain.run \notin ToSet(queue)
    /\ \A h \in Handlers : Entered(h) =>
          /\ handler[h].run \notin ToSet(queue) \cup {drain.run}
          /\ \A g \in Handlers : (Entered(g) /\ handler[g].run = handler[h].run) => g = h

\* The event that shutdown waits for is set when nothing is in flight, and
\* only then: a drain that waits is not left waiting and does not end early.
IdleEventIsExact == idle <=> inflight = {}

\* No run stays in flight for ever, whatever is relaunched meanwhile: the
\* bound on the stages of one trigger frees the drain thread.
InflightRunIsReleased == \A r \in Runs : r \in inflight ~> (r \notin inflight \/ main = "exited")

\* A run that was accepted is carried by that one push through all stages that
\* this worker owns and that come before the other worker's, even while another
\* run is launched again and again; nothing has to ring again.
FirstStages == {s \in Mine : 1..s \subseteq Mine}
PushedRunSettles ==
    \A r \in Runs \ (Relaunched \cup ReadsFail) :
        r \in accepted ~> (FirstStages \subseteq decided[r] \/ main # "serving")
=============================================================================
