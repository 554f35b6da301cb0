----------------------------- MODULE MCModelRuns -----------------------------
\* The instances of ModelRuns that TLC checks.
EXTENDS ModelRuns, TLC

CONSTANTS t1, t2, t3   \* worker threads
ASSUME Cardinality({t1, t2, t3}) = 3

\* Two replicas of one worker, each with a poll loop.
Replicas == (t1 :> "a") @@ (t2 :> "b")
\* A worker in AEQ_WORKER_MODE=both, poll loop and push drain in one process,
\* and a worker of the other kind.
BothAndOther == (t1 :> "a") @@ (t2 :> "a") @@ (t3 :> "b")

OwnAll == [t \in Threads |-> Ords]
\* The ActivitySim worker t3 owns one stage in the middle.
OwnSplit == [t \in Threads |-> IF t = t3 THEN {2} ELSE Ords \ {2}]
=============================================================================
