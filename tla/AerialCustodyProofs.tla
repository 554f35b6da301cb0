------------------------- MODULE AerialCustodyProofs -------------------------
(***************************************************************************)
(* Type correctness of AerialCustody, that a job has one evidence package, *)
(* that what it claims is backed, that no artifact is forgotten and that a *)
(* later pass keeps what is held: for every set of artifacts and of        *)
(* retries, every finite set of deliveries and every number of faults.     *)
(***************************************************************************)
EXTENDS AerialCustody, FiniteSetTheorems, TLAPS

USE CustodyAssumption

-----------------------------------------------------------------------------
(***************************************************************************)
(* The inductive invariant.                                                *)
(***************************************************************************)
\* An attempt never takes the retry's steps, nor a retry the attempt's.
RolesKept ==
    /\ \A d \in Attempts : pc[d] \notin {"source", "updatePackage"}
    /\ \A m \in Retries : pc[m] \notin {"status", "findPackage", "insertPackage", "done"}

Handling(d) == pc[d] \notin {"idle", "done"}

\* The UNIQUE callbackId lets one handler through, and it makes the package
\* in its last step.
OneHandler ==
    /\ \A d \in Attempts : Handling(d) => recorded /\ packages = 0
    /\ \A d, e \in Attempts : Handling(d) /\ Handling(e) => d = e

PackageNeedsSuccess == packages > 0 => recorded

\* A record that says held has its object, and so has what a pass stored.
ObjectsKept == Held \subseteq objects /\ \A p \in Passes : got[p] \subseteq objects

Backed == Artifacts \subseteq (Held \cap objects) \cup overtaken

\* Every claim, a handler's as well as the stored ones, was true when it was
\* made, and what has changed since was written over.
ClaimsBacked ==
    /\ \A p \in Passes : claim[p] = "partial" => Backed
    /\ readiness = "partial" => Backed
    /\ rollUp = "complete" => Backed

AllRows == \A a \in Artifacts : rows[a] # "none"

\* A pass is at work on all the artifacts, or all of them have a record.
TodoComplete ==
    \A p \in Passes : pc[p] \in {"source", "prior", "fetch", "write"} => todo[p] = Artifacts \/ AllRows

\* A pass is not at work on what was held when it looked.
HeldLeftAlone == \A p \in Passes : pc[p] \in {"fetch", "write"} => todo[p] \cap began[p] = {}

IInv == /\ TypeOK /\ RolesKept /\ OneHandler /\ PackageNeedsSuccess /\ OnePackage
        /\ ObjectsKept /\ ClaimsBacked
        /\ NoArtifactForgotten /\ TodoComplete /\ HeldLeftAlone

Step(p) == Record(p) \/ Retry(p) \/ Continues(p) \/ Kill(p)

-----------------------------------------------------------------------------
(***************************************************************************)
(* What each step keeps, one lemma per part of the invariant.              *)
(***************************************************************************)
LEMMA TypeStep == ASSUME IInv, NEW p \in Passes, Step(p) PROVE TypeOK'
<1> USE DEF IInv, TypeOK, At, Goto, Works, Fails, Leave, stored, local, Passes
<1>1. CASE Record(p)
  <2>1. recorded' \in BOOLEAN
    BY <1>1 DEF Record
  <2>2. QED
    BY <1>1, <2>1 DEF Record
<1>2. CASE WriteStatus(p) \/ Retry(p) \/ ReadSource(p) \/ Kill(p)
  BY <1>2 DEF WriteStatus, Retry, ReadSource, Kill, Outstanding
<1>3. CASE ReadPrior(p) \/ Fetch(p) \/ WriteRows(p)
  BY <1>3 DEF ReadPrior, Fetch, WriteRows, Upsert, Held, AfterPass
<1>4. CASE Reread(p) \/ WriteRollUp(p) \/ FindPackage(p) \/ UpdatePackage(p)
  BY <1>4 DEF Reread, WriteRollUp, FindPackage, UpdatePackage, Held, AfterPass
<1>5. CASE InsertPackage(p)
  <2>1. p \in Attempts /\ packages = 0
    BY <1>5 DEF InsertPackage, RolesKept, OneHandler, Handling
  <2>2. Cardinality(Attempts) \in Nat /\ Cardinality(Attempts) # 0
    BY <2>1, FS_CardinalityType, FS_EmptySet
  <2>3. packages' \in 0..Cardinality(Attempts) /\ readiness' \in {"pending", "partial"}
    BY <1>5, <2>1, <2>2 DEF InsertPackage
  <2>4. QED
    BY <1>5, <2>3 DEF InsertPackage
<1>6. QED
  BY <1>1, <1>2, <1>3, <1>4, <1>5 DEF Step, Continues, Pass

LEMMA RolesStep == ASSUME IInv, NEW p \in Passes, Step(p) PROVE RolesKept'
<1> USE DEF IInv, TypeOK, RolesKept, At, Goto, Leave, Passes, AfterPass
<1>1. CASE Record(p) \/ Retry(p) \/ WriteStatus(p) \/ ReadSource(p) \/ Kill(p)
  BY <1>1 DEF Record, Retry, WriteStatus, ReadSource, Kill
<1>2. CASE Pass(p)
  BY <1>2 DEF Pass, ReadPrior, Fetch, WriteRows, Reread, WriteRollUp
<1>3. CASE FindPackage(p) \/ InsertPackage(p) \/ UpdatePackage(p)
  BY <1>3 DEF FindPackage, InsertPackage, UpdatePackage
<1>4. QED
  BY <1>1, <1>2, <1>3 DEF Step, Continues

LEMMA OneHandlerStep == ASSUME IInv, NEW p \in Passes, Step(p) PROVE OneHandler'
<1> USE DEF IInv, TypeOK, RolesKept, OneHandler, Handling, At, Goto, Works, Fails, Leave,
            stored, local, Passes, AfterPass
<1>1. CASE Record(p)
  BY <1>1 DEF Record, PackageNeedsSuccess
<1>2. CASE InsertPackage(p)
  BY <1>2 DEF InsertPackage
<1>3. CASE Retry(p) \/ WriteStatus(p) \/ ReadSource(p) \/ Kill(p)
  BY <1>3 DEF Retry, WriteStatus, ReadSource, Kill
<1>4. CASE Pass(p)
  BY <1>4 DEF Pass, ReadPrior, Fetch, WriteRows, Reread, WriteRollUp
<1>5. CASE FindPackage(p) \/ UpdatePackage(p)
  BY <1>5 DEF FindPackage, UpdatePackage
<1>6. QED
  BY <1>1, <1>2, <1>3, <1>4, <1>5 DEF Step, Continues

LEMMA PackageStep ==
  ASSUME IInv, NEW p \in Passes, Step(p)
  PROVE  PackageNeedsSuccess' /\ OnePackage'
<1> USE DEF IInv, PackageNeedsSuccess, OnePackage, OneHandler, Handling, RolesKept, At, Passes, stored
<1>1. CASE Record(p)
  <2>1. recorded => recorded'
    BY <1>1 DEF Record
  <2>2. QED
    BY <1>1, <2>1 DEF Record
<1>2. CASE InsertPackage(p)
  BY <1>2 DEF InsertPackage
<1>3. CASE Retry(p) \/ WriteStatus(p) \/ ReadSource(p) \/ Kill(p)
  BY <1>3 DEF Retry, WriteStatus, ReadSource, Kill
<1>4. CASE Pass(p)
  BY <1>4 DEF Pass, ReadPrior, Fetch, WriteRows, Reread, WriteRollUp
<1>5. CASE FindPackage(p) \/ UpdatePackage(p)
  BY <1>5 DEF FindPackage, UpdatePackage
<1>6. QED
  BY <1>1, <1>2, <1>3, <1>4, <1>5 DEF Step, Continues

LEMMA ObjectsStep == ASSUME IInv, NEW p \in Passes, Step(p) PROVE ObjectsKept'
<1> USE DEF IInv, TypeOK, ObjectsKept, Held, Leave, stored, local, Passes
<1>1. CASE Fetch(p)
  BY <1>1 DEF Fetch
<1>2. CASE WriteRows(p)
  BY <1>2 DEF WriteRows, Upsert
<1>3. CASE Record(p) \/ Retry(p) \/ WriteStatus(p) \/ ReadSource(p) \/ Kill(p)
  BY <1>3 DEF Record, Retry, WriteStatus, ReadSource, Kill
<1>4. CASE ReadPrior(p) \/ Reread(p) \/ WriteRollUp(p)
  BY <1>4 DEF ReadPrior, Reread, WriteRollUp
<1>5. CASE FindPackage(p) \/ InsertPackage(p) \/ UpdatePackage(p)
  BY <1>5 DEF FindPackage, InsertPackage, UpdatePackage
<1>6. QED
  BY <1>1, <1>2, <1>3, <1>4, <1>5 DEF Step, Continues, Pass

\* Once every artifact is held or was written over, it stays so: objects are
\* never removed, and an upsert that takes a record back is overtaking it.
LEMMA BackedIsStable == ASSUME IInv, NEW p \in Passes, Step(p), Backed PROVE Backed'
<1> USE DEF IInv, TypeOK, Backed, Held, stored
<1>1. CASE Fetch(p)
  BY <1>1 DEF Fetch
<1>2. CASE WriteRows(p)
  BY <1>2, ObjectsStep DEF WriteRows, Upsert, ObjectsKept
<1>3. CASE Record(p) \/ Retry(p) \/ WriteStatus(p) \/ ReadSource(p) \/ Kill(p)
  BY <1>3 DEF Record, Retry, WriteStatus, ReadSource, Kill
<1>4. CASE ReadPrior(p) \/ Reread(p) \/ WriteRollUp(p)
  BY <1>4 DEF ReadPrior, Reread, WriteRollUp
<1>5. CASE FindPackage(p) \/ InsertPackage(p) \/ UpdatePackage(p)
  BY <1>5 DEF FindPackage, InsertPackage, UpdatePackage
<1>6. QED
  BY <1>1, <1>2, <1>3, <1>4, <1>5 DEF Step, Continues, Pass

LEMMA ClaimsStep == ASSUME IInv, NEW p \in Passes, Step(p) PROVE ClaimsBacked'
<1> USE DEF IInv, TypeOK, ClaimsBacked, Leave, stored, local
<1>1. CASE Reread(p)
  <2>1. Held = Artifacts => Backed
    BY DEF Backed, ObjectsKept
  <2>2. QED
    BY <1>1, <2>1, BackedIsStable DEF Reread
<1>2. CASE WriteRollUp(p)
  BY <1>2, BackedIsStable DEF WriteRollUp
<1>3. CASE InsertPackage(p) \/ UpdatePackage(p)
  BY <1>3, BackedIsStable DEF InsertPackage, UpdatePackage
<1>4. CASE Record(p) \/ Retry(p) \/ WriteStatus(p) \/ ReadSource(p) \/ Kill(p)
  BY <1>4, BackedIsStable DEF Record, Retry, WriteStatus, ReadSource, Kill
<1>5. CASE ReadPrior(p) \/ Fetch(p) \/ WriteRows(p) \/ FindPackage(p)
  BY <1>5, BackedIsStable DEF ReadPrior, Fetch, WriteRows, FindPackage
<1>6. QED
  BY <1>1, <1>2, <1>3, <1>4, <1>5 DEF Step, Continues, Pass

LEMMA RowsStep ==
  ASSUME IInv, NEW p \in Passes, Step(p)
  PROVE  NoArtifactForgotten' /\ TodoComplete'
<1> USE DEF IInv, TypeOK, NoArtifactForgotten, TodoComplete, AllRows, NoRows, At, Goto, Leave,
            stored, local, Passes, AfterPass
<1>1. CASE Retry(p)
  BY <1>1 DEF Retry, Outstanding
<1>2. CASE ReadPrior(p)
  <2>1. AllRows \/ Held = {}
    BY DEF Held
  <2>2. todo'[p] = todo[p] \/ AllRows
    BY <1>2, <2>1 DEF ReadPrior
  <2>3. QED
    BY <1>2, <2>2 DEF ReadPrior
<1>3. CASE WriteRows(p)
  BY <1>3 DEF WriteRows, Upsert
<1>4. CASE Record(p) \/ WriteStatus(p) \/ ReadSource(p) \/ Kill(p)
  BY <1>4 DEF Record, WriteStatus, ReadSource, Kill
<1>5. CASE Fetch(p) \/ Reread(p) \/ WriteRollUp(p)
  BY <1>5 DEF Fetch, Reread, WriteRollUp
<1>6. CASE FindPackage(p) \/ InsertPackage(p) \/ UpdatePackage(p)
  BY <1>6 DEF FindPackage, InsertPackage, UpdatePackage
<1>7. QED
  BY <1>1, <1>2, <1>3, <1>4, <1>5, <1>6 DEF Step, Continues, Pass

LEMMA HeldLeftAloneStep == ASSUME IInv, NEW p \in Passes, Step(p) PROVE HeldLeftAlone'
<1> USE DEF IInv, TypeOK, HeldLeftAlone, At, Goto, Leave, stored, local, Passes, AfterPass
<1>1. CASE ReadPrior(p)
  BY <1>1 DEF ReadPrior
<1>2. CASE Record(p) \/ Retry(p) \/ WriteStatus(p) \/ ReadSource(p) \/ Kill(p)
  BY <1>2 DEF Record, Retry, WriteStatus, ReadSource, Kill
<1>3. CASE Fetch(p) \/ WriteRows(p) \/ Reread(p) \/ WriteRollUp(p)
  BY <1>3 DEF Fetch, WriteRows, Reread, WriteRollUp
<1>4. CASE FindPackage(p) \/ InsertPackage(p) \/ UpdatePackage(p)
  BY <1>4 DEF FindPackage, InsertPackage, UpdatePackage
<1>5. QED
  BY <1>1, <1>2, <1>3, <1>4 DEF Step, Continues, Pass

-----------------------------------------------------------------------------
(***************************************************************************)
(* The theorems.                                                           *)
(***************************************************************************)
LEMMA InitInvariant == Init => IInv
<1> SUFFICES ASSUME Init PROVE IInv
  OBVIOUS
<1>1. packages \in 0..Cardinality(Attempts)
  BY FS_CardinalityType DEF Init
<1>2. TypeOK
  <2>1. recorded \in BOOLEAN /\ objects \subseteq Artifacts /\ overtaken \subseteq Artifacts
    BY DEF Init
  <2>2. /\ rollUp \in {"none", "incomplete", "complete"} /\ readiness \in {"pending", "partial"}
        /\ rows \in [Artifacts -> {"none", "missing", "held"}] /\ faults \in 0..MaxFaults
    BY DEF Init
  <2>3. /\ todo \in [Passes -> SUBSET Artifacts] /\ got \in [Passes -> SUBSET Artifacts]
        /\ began \in [Passes -> SUBSET Artifacts] /\ claim \in [Passes -> {"pending", "partial"}]
    BY DEF Init
  <2>4. QED
    BY <1>1, <2>1, <2>2, <2>3 DEF Init, TypeOK
<1>3. RolesKept /\ OneHandler /\ PackageNeedsSuccess /\ OnePackage
  BY DEF Init, RolesKept, OneHandler, Handling, PackageNeedsSuccess, OnePackage, Passes
<1>4. ObjectsKept /\ ClaimsBacked
  BY DEF Init, ObjectsKept, Held, ClaimsBacked
<1>5. NoArtifactForgotten /\ TodoComplete /\ HeldLeftAlone
  BY DEF Init, NoArtifactForgotten, NoRows, TodoComplete, HeldLeftAlone
<1>6. QED
  BY <1>2, <1>3, <1>4, <1>5 DEF IInv

LEMMA StepInvariant == IInv /\ [Next]_vars => IInv'
<1> SUFFICES ASSUME IInv, [Next]_vars PROVE IInv'
  OBVIOUS
<1>1. CASE Next
  <2>1. PICK p \in Passes : Step(p)
    BY <1>1 DEF Next, Step
  <2>2. QED
    BY <2>1, TypeStep, RolesStep, OneHandlerStep, PackageStep, ObjectsStep, ClaimsStep,
       RowsStep, HeldLeftAloneStep DEF IInv
<1>2. CASE UNCHANGED vars
  BY <1>2 DEF vars, IInv, TypeOK, RolesKept, OneHandler, Handling, PackageNeedsSuccess, OnePackage,
              ObjectsKept, Held, ClaimsBacked, Backed, NoArtifactForgotten, NoRows, TodoComplete,
              AllRows, HeldLeftAlone
<1>3. QED
  BY <1>1, <1>2

\* The invariant holds of every state of a job's custody, under every order of
\* its deliveries, retries and failures.
THEOREM Invariant == Spec => []IInv
BY InitInvariant, StepInvariant, PTL DEF Spec

\* Whatever the callback route, the retries and the passes do, every variable
\* keeps its type.
THEOREM TypeCorrect == Spec => []TypeOK
<1>1. IInv => TypeOK
  BY DEF IInv
<1>2. QED
  BY <1>1, Invariant, PTL

\* However often the worker delivers its success, the callback route makes one
\* evidence package.
THEOREM PackageIsUnique == Spec => []OnePackage
<1>1. IInv => OnePackage
  BY DEF IInv
<1>2. QED
  BY <1>1, Invariant, PTL

\* What the package and the job claim of custody stands on a record and an
\* object of every artifact, but for records another pass wrote over.
THEOREM ClaimsAreTrue == Spec => []ClaimIsBacked
<1>1. IInv => ClaimIsBacked
  BY DEF IInv, ClaimIsBacked, ClaimsBacked, Backed
<1>2. QED
  BY <1>1, Invariant, PTL

\* A pass writes the records of all artifacts or none, so that the retry route
\* finds each that is outstanding.
THEOREM NoneForgotten == Spec => []NoArtifactForgotten
<1>1. IInv => NoArtifactForgotten
  BY DEF IInv
<1>2. QED
  BY <1>1, Invariant, PTL

\* A pass takes no record back that it found held when it read them.
THEOREM HeldIsKept == Spec => HeldIsKeptByLaterPasses
<1> DEFINE Keeps ==
    \A a \in Held : rows'[a] = "held" \/ \E p \in Passes : At(p, "write") /\ a \notin began[p]
<1>1. ASSUME IInv, Next PROVE Keeps
  <2>1. PICK p \in Passes : Step(p)
    BY <1>1 DEF Next, Step
  <2>2. CASE WriteRows(p)
    BY <1>1, <2>2 DEF WriteRows, Upsert, Held, IInv, TypeOK, HeldLeftAlone, At
  <2>3. CASE rows' = rows
    BY <2>3 DEF Held
  <2>4. QED
    BY <2>1, <2>2, <2>3 DEF Step, Continues, Pass, Record, Retry, WriteStatus, ReadSource, ReadPrior,
       Fetch, Reread, WriteRollUp, FindPackage, InsertPackage, UpdatePackage, Kill, stored
<1>2. ASSUME UNCHANGED vars PROVE Keeps
  BY <1>2 DEF vars, Held
<1>3. IInv /\ [Next]_vars => [Keeps]_vars
  BY <1>1, <1>2
<1>4. QED
  BY <1>3, Invariant, PTL DEF Spec, HeldIsKeptByLaterPasses
=============================================================================
