---------------------------- MODULE AerialCustody ----------------------------
(***************************************************************************)
(* What OpenPlan does with the success of one aerial job: the rest of the  *)
(* processing-callback route, the custody retry route, and the passes both *)
(* of them make (lib/aerial/artifact-custody-server.ts) to copy the        *)
(* worker's artifacts into the bucket before their links expire.           *)
(*                                                                         *)
(* Every attempt of the worker carries the same callbackId, and is held    *)
(* open while the artifacts are fetched: the next one comes while the      *)
(* first is still at work.  A member may retry at any time, any number of  *)
(* times.                                                                  *)
(***************************************************************************)
EXTENDS Naturals, FiniteSets

CONSTANTS
    Artifacts,    \* the kinds and ordinals the success reports
    Attempts,     \* deliveries of the succeeded callback
    Retries,      \* callers of the custody retry route
    MaxFaults     \* bound on failed calls and killed handlers

Passes == Attempts \cup Retries

ASSUME CustodyAssumption ==
    /\ Artifacts # {} /\ Attempts \cap Retries = {} /\ MaxFaults \in Nat
    /\ IsFiniteSet(Attempts)

VARIABLES
    recorded,     \* the success is in aerial_processing_callbacks
    rows,         \* aerial_artifact_custody.state of each artifact
    objects,      \* the artifacts in the bucket
    rollUp,       \* aerial_processing_jobs.artifact_custody_state
    packages,     \* how many evidence packages the job has
    readiness,    \* their verification_readiness
    pc,           \* the next step of each pass
    todo, got,    \* the artifacts a pass fetches, and those it stored
    claim,        \* the readiness its posture allows
    began,        \* history: what was held when the pass read the record
    overtaken,    \* history: artifacts whose held record was written over
    faults

vars == <<recorded, rows, objects, rollUp, packages, readiness,
          pc, todo, got, claim, began, overtaken, faults>>
stored == <<recorded, rows, objects, rollUp, packages, readiness, overtaken>>
local == <<todo, got, claim, began>>

Held == {a \in Artifacts : rows[a] = "held"}
NoRows == \A a \in Artifacts : rows[a] = "none"
Outstanding == {a \in Artifacts : rows[a] = "missing"}

Init ==
    /\ recorded = FALSE
    /\ rows = [a \in Artifacts |-> "none"]
    /\ objects = {}
    /\ rollUp = "none"
    /\ packages = 0 /\ readiness = "pending"
    /\ pc = [p \in Passes |-> "idle"]
    /\ todo = [p \in Passes |-> {}] /\ got = [p \in Passes |-> {}]
    /\ claim = [p \in Passes |-> "pending"]
    /\ began = [p \in Passes |-> {}]
    /\ overtaken = {}
    /\ faults = 0

At(p, step) == pc[p] = step
Goto(p, step) == pc' = [pc EXCEPT ![p] = step]
Works == UNCHANGED faults
Fails == faults < MaxFaults /\ faults' = faults + 1

\* The handler forgets what it had.
Leave(p) ==
    /\ Goto(p, IF p \in Attempts THEN "done" ELSE "idle")
    /\ todo' = [todo EXCEPT ![p] = {}] /\ got' = [got EXCEPT ![p] = {}]
    /\ claim' = [claim EXCEPT ![p] = "pending"] /\ began' = [began EXCEPT ![p] = {}]

-----------------------------------------------------------------------------
(***************************************************************************)
(* The callback route, with a success.                                     *)
(***************************************************************************)
\* Variant: a redelivered callbackId is not noticed.
RecordAgain(d) ==
    /\ d \in Attempts /\ At(d, "idle")
    /\ \/ Works /\ recorded' = TRUE /\ Goto(d, "status") /\ UNCHANGED local
       \/ Fails /\ (recorded' = TRUE \/ UNCHANGED recorded) /\ Leave(d)
    /\ UNCHANGED <<rows, objects, rollUp, packages, readiness, overtaken>>

Record(d) ==
    /\ d \in Attempts /\ At(d, "idle")
    /\ \/ Works /\ ~recorded /\ recorded' = TRUE /\ Goto(d, "status") /\ UNCHANGED local
       \/ Works /\ recorded /\ UNCHANGED recorded /\ Leave(d)
       \/ Fails /\ (recorded' = TRUE \/ UNCHANGED recorded) /\ Leave(d)
    /\ UNCHANGED <<rows, objects, rollUp, packages, readiness, overtaken>>

\* The job's row says succeeded before any artifact is fetched.
WriteStatus(d) ==
    /\ At(d, "status")
    /\ \/ /\ Works
          /\ todo' = [todo EXCEPT ![d] = Artifacts] /\ Goto(d, "prior")
          /\ UNCHANGED <<got, claim, began>>
       \/ Fails /\ Leave(d)
    /\ UNCHANGED stored

(***************************************************************************)
(* The retry route.  What it retries is read in one call, the links in     *)
(* another.                                                                *)
(***************************************************************************)
Retry(m) ==
    /\ m \in Retries /\ At(m, "idle")
    /\ NoRows \/ Outstanding # {}
    /\ todo' = [todo EXCEPT ![m] = IF NoRows THEN Artifacts ELSE Outstanding]
    /\ Goto(m, "source")
    /\ UNCHANGED <<stored, got, claim, began, faults>>

ReadSource(m) ==
    /\ At(m, "source")
    /\ \/ Works /\ recorded /\ Goto(m, "prior") /\ UNCHANGED local
       \/ Works /\ ~recorded /\ Leave(m)
       \/ Fails /\ Leave(m)
    /\ UNCHANGED stored

-----------------------------------------------------------------------------
(***************************************************************************)
(* runAerialCustodyPass.                                                   *)
(***************************************************************************)
AfterPass(p) == IF p \in Attempts THEN "findPackage" ELSE "updatePackage"

\* Variant: what is held already is fetched again.
ReadPriorCountsOnly(p) ==
    /\ At(p, "prior")
    /\ \/ /\ Works
          /\ began' = [began EXCEPT ![p] = Held] /\ UNCHANGED todo
          /\ Goto(p, "fetch")
       \/ Fails /\ Goto(p, AfterPass(p)) /\ UNCHANGED <<todo, began>>
    /\ UNCHANGED <<stored, got, claim>>

\* readPriorCustody.  A record that cannot be read stops the pass.
ReadPrior(p) ==
    /\ At(p, "prior")
    /\ \/ /\ Works
          /\ began' = [began EXCEPT ![p] = Held]
          /\ todo' = [todo EXCEPT ![p] = @ \ Held]
          /\ Goto(p, IF todo[p] \subseteq Held THEN "reread" ELSE "fetch")
       \/ Fails /\ Goto(p, AfterPass(p)) /\ UNCHANGED <<todo, began>>
    /\ UNCHANGED <<stored, got, claim>>

\* custodyOfOne, for each: an expired link, a failed download or upload and a
\* spent budget are all ways not to hold it.
Fetch(p) ==
    /\ At(p, "fetch")
    /\ \E kept \in SUBSET todo[p] :
           objects' = objects \cup kept /\ got' = [got EXCEPT ![p] = kept]
    /\ Goto(p, "write")
    /\ UNCHANGED <<recorded, rows, rollUp, packages, readiness, overtaken, todo, claim, began, faults>>

Upsert(p) ==
    /\ rows' = [a \in Artifacts |-> IF a \in got[p] THEN "held"
                                    ELSE IF a \in todo[p] THEN "missing" ELSE rows[a]]
    /\ overtaken' = overtaken \cup (Held \cap (todo[p] \ got[p]))

\* Variant: what the budget did not reach gets no row.
UpsertReached(p) ==
    \E reached \in SUBSET todo[p] :
        /\ got[p] \subseteq reached
        /\ rows' = [a \in Artifacts |-> IF a \in got[p] THEN "held"
                                        ELSE IF a \in reached THEN "missing" ELSE rows[a]]
        /\ overtaken' = overtaken \cup (Held \cap (reached \ got[p]))

WriteRowsReached(p) ==
    /\ At(p, "write")
    /\ \/ Works /\ UpsertReached(p) /\ Goto(p, "reread")
       \/ Fails /\ UNCHANGED <<rows, overtaken>> /\ Goto(p, AfterPass(p))
    /\ UNCHANGED <<recorded, objects, rollUp, packages, readiness, local>>

\* Variant: the rows are summed up although they could not be written.
WriteRowsOrNot(p) ==
    /\ At(p, "write")
    /\ \/ Works /\ Upsert(p) /\ UNCHANGED claim /\ Goto(p, "reread")
       \/ /\ Fails /\ UNCHANGED <<rows, overtaken>> /\ Goto(p, AfterPass(p))
          /\ claim' = [claim EXCEPT ![p] = IF got[p] = todo[p] THEN "partial" ELSE "pending"]
    /\ UNCHANGED <<recorded, objects, rollUp, packages, readiness, todo, got, began>>

\* One upsert for all of them, on (job, kind, ordinal).
WriteRows(p) ==
    /\ At(p, "write")
    /\ \/ Works /\ Upsert(p) /\ Goto(p, "reread")
       \/ Fails /\ (Upsert(p) \/ UNCHANGED <<rows, overtaken>>) /\ Goto(p, AfterPass(p))
    /\ UNCHANGED <<recorded, objects, rollUp, packages, readiness, local>>

\* finalizeAerialCustodyState: all rows again, not this pass's own, then their
\* summary to the job.
Reread(p) ==
    /\ At(p, "reread")
    /\ \/ /\ Works /\ Goto(p, "rollUp")
          /\ claim' = [claim EXCEPT ![p] = IF Held = Artifacts THEN "partial" ELSE "pending"]
       \/ Fails /\ Goto(p, AfterPass(p)) /\ UNCHANGED claim
    /\ UNCHANGED <<stored, todo, got, began>>

WriteRollUp(p) ==
    /\ At(p, "rollUp")
    /\ LET write == rollUp' = IF claim[p] = "partial" THEN "complete" ELSE "incomplete"
       IN (Works /\ write) \/ (Fails /\ (write \/ UNCHANGED rollUp))
    /\ Goto(p, AfterPass(p))
    /\ UNCHANGED <<recorded, rows, objects, packages, readiness, overtaken, local>>

-----------------------------------------------------------------------------
(***************************************************************************)
(* The evidence package: looked for, then inserted, with the claim of a    *)
(* summary read before.                                                    *)
(***************************************************************************)
\* Variant: a job nothing is held of gets none.
FindPackageOfHeld(d) ==
    /\ At(d, "findPackage")
    /\ \/ Works /\ packages = 0 /\ claim[d] = "partial" /\ Goto(d, "insertPackage") /\ UNCHANGED local
       \/ Works /\ (packages > 0 \/ claim[d] = "pending") /\ Leave(d)
       \/ Fails /\ Leave(d)
    /\ UNCHANGED stored

FindPackage(d) ==
    /\ At(d, "findPackage")
    /\ \/ Works /\ packages = 0 /\ Goto(d, "insertPackage") /\ UNCHANGED local
       \/ Works /\ packages > 0 /\ Leave(d)
       \/ Fails /\ Leave(d)
    /\ UNCHANGED stored

InsertPackage(d) ==
    /\ At(d, "insertPackage")
    /\ LET insert == packages' = packages + 1 /\ readiness' = claim[d]
       IN (Works /\ insert) \/ (Fails /\ (insert \/ UNCHANGED <<packages, readiness>>))
    /\ Leave(d)
    /\ UNCHANGED <<recorded, rows, objects, rollUp, overtaken>>

\* Variant: the custody state is written where its readiness belongs.
UpdatePackageState(m) ==
    /\ At(m, "updatePackage") /\ Works
    /\ readiness' = IF claim[m] = "partial" THEN "complete" ELSE readiness
    /\ Leave(m)
    /\ UNCHANGED <<recorded, rows, objects, rollUp, packages, overtaken>>

\* The retry's update matches nothing while there is no package.
UpdatePackage(m) ==
    /\ At(m, "updatePackage")
    /\ LET update == readiness' = IF packages > 0 THEN claim[m] ELSE readiness
       IN (Works /\ update) \/ (Fails /\ (update \/ UNCHANGED readiness))
    /\ Leave(m)
    /\ UNCHANGED <<recorded, rows, objects, rollUp, packages, overtaken>>

Kill(p) ==
    /\ pc[p] \notin {"idle", "done"} /\ Fails /\ Leave(p)
    /\ UNCHANGED stored

-----------------------------------------------------------------------------
Pass(p) == ReadPrior(p) \/ Fetch(p) \/ WriteRows(p) \/ Reread(p) \/ WriteRollUp(p)
Continues(p) == \/ WriteStatus(p) \/ ReadSource(p) \/ Pass(p)
                \/ FindPackage(p) \/ InsertPackage(p) \/ UpdatePackage(p)

Next == \E p \in Passes : Record(p) \/ Retry(p) \/ Continues(p) \/ Kill(p)
Spec == Init /\ [][Next]_vars

\* A handler that was begun goes on unless it is killed; nobody has to retry.
FairSpec == Spec /\ \A p \in Passes : WF_vars(Continues(p))

-----------------------------------------------------------------------------
(***************************************************************************)
(* Properties.                                                             *)
(***************************************************************************)

\* Every variable has its type.
TypeOK ==
    /\ recorded \in BOOLEAN
    /\ rows \in [Artifacts -> {"none", "missing", "held"}]
    /\ objects \subseteq Artifacts
    /\ rollUp \in {"none", "incomplete", "complete"}
    /\ packages \in 0..Cardinality(Attempts) /\ readiness \in {"pending", "partial"}
    /\ pc \in [Passes -> {"idle", "status", "source", "prior", "fetch", "write", "reread",
                          "rollUp", "findPackage", "insertPackage", "updatePackage", "done"}]
    /\ todo \in [Passes -> SUBSET Artifacts] /\ got \in [Passes -> SUBSET Artifacts]
    /\ claim \in [Passes -> {"pending", "partial"}]
    /\ began \in [Passes -> SUBSET Artifacts]
    /\ overtaken \subseteq Artifacts
    /\ faults \in 0..MaxFaults

\* "Only a job whose deliverables OpenPlan actually holds": a package past
\* pending, and a job whose custody is complete, stand on a record and an object
\* of every artifact, but for records a pass at the same time wrote over.
ClaimIsBacked ==
    (packages > 0 /\ readiness = "partial") \/ rollUp = "complete"
        => Artifacts \subseteq (Held \cap objects) \cup overtaken

\* A job has one evidence package, though nothing in the database says so:
\* the success is handled by one handler, however often it is sent.
OnePackage == packages <= 1

\* All artifacts of a job have a record or none has: the retry looks for work
\* among the records, so one without would never be retried.
NoArtifactForgotten == NoRows \/ \A a \in Artifacts : rows[a] # "none"

\* A pass never takes back what was already held when it looked: a link that
\* has expired since does not cost the record of bytes that are here.
HeldIsKeptByLaterPasses ==
    [][\A a \in Held : rows'[a] = "held" \/ \E p \in Passes : At(p, "write") /\ a \notin began[p]]_vars

\* A success that was recorded ends in an evidence package, whatever could be
\* fetched and whoever retries meanwhile, unless a call or the handler failed.
SuccessGetsItsPackage == recorded ~> packages > 0 \/ faults > 0
=============================================================================
