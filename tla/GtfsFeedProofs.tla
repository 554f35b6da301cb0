--------------------------- MODULE GtfsFeedProofs ---------------------------
(***************************************************************************)
(* Type correctness of GtfsFeed, that the version in use is ready and      *)
(* complete, that a closed ingest left no rows, that the version in use    *)
(* has its bytes, that a collapsed refetch is withheld, and that the feed  *)
(* implements FeedInUse: for every set of ingests, refreshes, sweeps and   *)
(* removals, every size of their versions and every number of faults.      *)
(***************************************************************************)
EXTENDS GtfsFeed, TLAPS

USE FeedAssumption

-----------------------------------------------------------------------------
(***************************************************************************)
(* What the operators shared by the actions do to the types.               *)
(***************************************************************************)
LEMMA GotoType ==
  ASSUME TypeOK, NEW p \in Procs, NEW step \in Steps, Goto(p, step)
  PROVE  pc' \in [Procs -> Steps]
BY DEF TypeOK, Goto

LEMMA WorksType == TypeOK /\ Works => faults' \in 0..MaxFaults /\ uncleared' \subseteq Ingests
BY DEF TypeOK, Works

LEMMA FailsType == TypeOK /\ Fails => faults' \in 0..MaxFaults /\ uncleared' \subseteq Ingests
BY DEF TypeOK, Fails

LEMMA SetStatusType ==
  ASSUME TypeOK, NEW v \in Ingests, NEW to \in NonTerminal \cup {"ready", "failed"}, SetStatus(v, to)
  PROVE  /\ status' \in [Ingests -> NonTerminal \cup {"absent", "ready", "failed"}]
         /\ flagged' \subseteq Ingests /\ paths' \subseteq Ingests
BY DEF TypeOK, SetStatus

LEMMA PathType ==
  ASSUME TypeOK, NEW i \in Closers, NEW v \in Ingests,
         task' = [task EXCEPT ![i].path = v]
  PROVE  task' \in [Closers -> [version : Ingests \cup {None}, path : Ingests \cup {None}]]
<1>1. task[i] \in [version : Ingests \cup {None}, path : Ingests \cup {None}]
  BY DEF TypeOK
<1>2. [task[i] EXCEPT !.path = v] \in [version : Ingests \cup {None}, path : Ingests \cup {None}]
  BY <1>1
<1>3. QED
  BY <1>2 DEF TypeOK

LEMMA RowsType ==
  ASSUME TypeOK, NEW v \in Ingests, NEW t \in Tables, NEW part \in {"none", "some", "all"},
         rows' = [rows EXCEPT ![v][t] = part]
  PROVE  rows' \in [Ingests -> [Tables -> {"none", "some", "all"}]]
<1>1. [rows[v] EXCEPT ![t] = part] \in [Tables -> {"none", "some", "all"}]
  BY DEF TypeOK
<1>2. QED
  BY <1>1 DEF TypeOK

-----------------------------------------------------------------------------
(***************************************************************************)
(* The types, one lemma per group of actions.                              *)
(***************************************************************************)
LEMMA BeginType ==
  ASSUME TypeOK, NEW i \in Ingests,
         BeginFeed(i) \/ BeginRefresh(i) \/ InsertVersion(i)
  PROVE  TypeOK'
<1> i \in Procs
  BY DEF Procs, Closers
<1>1. pc' \in [Procs -> Steps]
  <2>1. "insertVersion" \in Steps /\ "done" \in Steps /\ "markFetching" \in Steps
    BY DEF Steps
  <2>2. QED
    BY <2>1, GotoType DEF BeginFeed, BeginRefresh, InsertVersion
<1>2. faults' \in 0..MaxFaults /\ uncleared' \subseteq Ingests
  BY WorksType, FailsType DEF BeginFeed, BeginRefresh, InsertVersion, TypeOK
<1>3. status' \in [Ingests -> NonTerminal \cup {"absent", "ready", "failed"}]
  BY DEF BeginFeed, BeginRefresh, InsertVersion, TypeOK, RecordVersion, NonTerminal, versions
<1>4. QED
  BY <1>1, <1>2, <1>3 DEF BeginFeed, BeginRefresh, InsertVersion, TypeOK, RegisterFeed, RecordVersion,
                          versions, feedRow

LEMMA MarkType ==
  ASSUME TypeOK, NEW i \in Ingests, MarkFetching(i) \/ MarkParsing(i) \/ RefuseFeed(i)
  PROVE  TypeOK'
<1> i \in Procs
  BY DEF Procs, Closers
<1>1. pc' \in [Procs -> Steps]
  <2>1. "store" \in Steps /\ "insertRoutes" \in Steps /\ "clearRoutes" \in Steps
    BY DEF Steps
  <2>2. QED
    BY <2>1, GotoType DEF MarkFetching, MarkParsing, Mark, RefuseFeed
<1>2. faults' \in 0..MaxFaults /\ uncleared' \subseteq Ingests
  BY WorksType, FailsType DEF MarkFetching, MarkParsing, Mark, RefuseFeed, TypeOK
<1>3. /\ status' \in [Ingests -> NonTerminal \cup {"absent", "ready", "failed"}]
      /\ flagged' \subseteq Ingests /\ paths' \subseteq Ingests
  BY SetStatusType DEF MarkFetching, MarkParsing, Mark, RefuseFeed, TypeOK, NonTerminal, versions
<1>4. QED
  BY <1>1, <1>2, <1>3 DEF MarkFetching, MarkParsing, Mark, RefuseFeed, TypeOK, versions, feedRow

LEMMA StoreType ==
  ASSUME TypeOK, NEW i \in Ingests, Store(i) \/ RecordObject(i)
  PROVE  TypeOK'
<1> i \in Procs /\ i \in Closers
  BY DEF Procs, Closers
<1>1. pc' \in [Procs -> Steps]
  <2>1. "recordObject" \in Steps /\ "markParsing" \in Steps /\ "clearRoutes" \in Steps
    BY DEF Steps
  <2>2. QED
    BY <2>1, GotoType DEF Store, RecordObject
<1>2. faults' \in 0..MaxFaults /\ uncleared' \subseteq Ingests
  BY WorksType, FailsType DEF Store, RecordObject
<1>3. task' \in [Closers -> [version : Ingests \cup {None}, path : Ingests \cup {None}]]
  BY PathType DEF Store, RecordObject, TypeOK
<1>4. QED
  BY <1>1, <1>2, <1>3 DEF Store, RecordObject, TypeOK, versions, feedRow

LEMMA InsertType ==
  ASSUME TypeOK, NEW i \in Ingests, InsertRoutes(i) \/ InsertStops(i)
  PROVE  TypeOK'
<1> i \in Procs /\ i \in Closers
  BY DEF Procs, Closers
<1>1. pc' \in [Procs -> Steps]
  <2>1. "insertStops" \in Steps /\ "finalize" \in Steps /\ "clearRoutes" \in Steps
    BY DEF Steps
  <2>2. QED
    BY <2>1, GotoType DEF InsertRoutes, InsertStops, Insert
<1>2. faults' \in 0..MaxFaults /\ uncleared' \subseteq Ingests
  BY WorksType, FailsType DEF InsertRoutes, InsertStops, Insert
<1>3. rows' \in [Ingests -> [Tables -> {"none", "some", "all"}]]
  <2>1. "routes" \in Tables /\ "stops" \in Tables
    BY DEF Tables
  <2>2. QED
    BY <2>1, RowsType DEF InsertRoutes, InsertStops, Insert, TypeOK
<1>4. QED
  BY <1>1, <1>2, <1>3 DEF InsertRoutes, InsertStops, TypeOK, versions, feedRow

LEMMA PromoteType ==
  ASSUME TypeOK, NEW i \in Ingests, Finalize(i) \/ ReadIncoming(i) \/ Compare(i) \/ Promote(i)
  PROVE  TypeOK'
<1> i \in Procs /\ i \in Closers
  BY DEF Procs, Closers
<1>1. pc' \in [Procs -> Steps]
  <2>1. /\ "readIncoming" \in Steps /\ "compare" \in Steps /\ "clearRoutes" \in Steps
        /\ "promote" \in Steps /\ "done" \in Steps
    BY DEF Steps
  <2>2. QED
    BY <2>1, GotoType DEF Finalize, ReadIncoming, Compare, Promote
<1>2. faults' \in 0..MaxFaults /\ uncleared' \subseteq Ingests
  BY WorksType, FailsType DEF Finalize, ReadIncoming, Compare, Promote
<1>3. status' \in [Ingests -> NonTerminal \cup {"absent", "ready", "failed"}]
  BY DEF Finalize, ReadIncoming, Compare, Promote, MadeReady, MovePointer, versions, TypeOK
<1>4. base' \in [Ingests -> Ingests \cup {None}]
  BY DEF Finalize, ReadIncoming, Compare, Promote, TypeOK
<1>5. QED
  BY <1>1, <1>2, <1>3, <1>4
     DEF Finalize, ReadIncoming, Compare, Promote, MadeReady, MovePointer, TypeOK, versions, feedRow

LEMMA CloseType ==
  ASSUME TypeOK, NEW p \in Closers, task[p].version \in Ingests, CloseStep(p)
  PROVE  TypeOK'
<1> p \in Procs
  BY DEF Procs
<1>1. pc' \in [Procs -> Steps]
  <2>1. /\ "clearStops" \in Steps /\ "removeObject" \in Steps /\ "markFailed" \in Steps
        /\ "readPointer" \in Steps /\ "markFeed" \in Steps /\ Resting(p) \in Steps
    BY DEF Steps, Resting
  <2>2. QED
    BY <2>1, GotoType DEF CloseStep, ClearRoutes, ClearStops, Clear, RemoveObject, MarkFailed,
                          ReadPointer, MarkFeed
<1>2. faults' \in 0..MaxFaults /\ uncleared' \subseteq Ingests
  <2>1. CASE ClearRoutes(p) \/ ClearStops(p)
    BY <2>1, WorksType DEF ClearRoutes, ClearStops, Clear, TypeOK
  <2>2. CASE RemoveObject(p) \/ MarkFailed(p) \/ ReadPointer(p) \/ MarkFeed(p)
    BY <2>2, WorksType, FailsType DEF RemoveObject, MarkFailed, ReadPointer, MarkFeed
  <2>3. QED
    BY <2>1, <2>2 DEF CloseStep
<1>3. CASE ClearRoutes(p) \/ ClearStops(p)
  <2>1. "routes" \in Tables /\ "stops" \in Tables
    BY DEF Tables
  <2>2. rows' \in [Ingests -> [Tables -> {"none", "some", "all"}]]
    BY <1>3, <2>1, RowsType DEF ClearRoutes, ClearStops, Clear, TypeOK
  <2>3. QED
    BY <1>1, <1>2, <1>3, <2>2 DEF ClearRoutes, ClearStops, Clear, TypeOK, versions, feedRow
<1>4. CASE RemoveObject(p)
  BY <1>1, <1>2, <1>4 DEF RemoveObject, TypeOK, versions, feedRow
<1>5. CASE MarkFailed(p)
  <2>1. /\ status' \in [Ingests -> NonTerminal \cup {"absent", "ready", "failed"}]
        /\ flagged' \subseteq Ingests /\ paths' \subseteq Ingests
    BY <1>5, SetStatusType DEF MarkFailed, TypeOK, versions
  <2>2. QED
    BY <1>1, <1>2, <1>5, <2>1 DEF MarkFailed, TypeOK, feedRow
<1>6. CASE ReadPointer(p)
  BY <1>1, <1>2, <1>6 DEF ReadPointer, TypeOK, versions, feedRow
<1>7. CASE MarkFeed(p)
  BY <1>1, <1>2, <1>7 DEF MarkFeed, TypeOK, versions, feedRow
<1>8. QED
  BY <1>3, <1>4, <1>5, <1>6, <1>7 DEF CloseStep

LEMMA KnownType ==
  ASSUME TypeOK, NEW v \in Ingests
  PROVE  Known(v) \in [version : Ingests, path : Ingests \cup {None}]
BY DEF Known

LEMMA ScanType ==
  ASSUME TypeOK, NEW k \in Sweeps, Scan(k)
  PROVE  TypeOK'
<1> k \in Procs
  BY DEF Procs, Closers
<1>1. pc' \in [Procs -> Steps]
  BY GotoType DEF Scan, Steps
<1>2. {Known(v) : v \in {u \in Ingests : Abandoned(u)}}
         \in SUBSET [version : Ingests, path : Ingests \cup {None}]
  BY KnownType
<1>3. todo' \in [Sweeps \cup Deletes -> SUBSET [version : Ingests, path : Ingests \cup {None}]]
  BY <1>2 DEF TypeOK, Scan
<1>4. QED
  BY <1>1, <1>3 DEF Scan, TypeOK, versions, feedRow

LEMMA ReapNextType ==
  ASSUME TypeOK, NEW k \in Sweeps, NEW next \in todo[k], ReapNext(k, next)
  PROVE  TypeOK'
<1> k \in Procs /\ k \in Closers
  BY DEF Procs, Closers
<1>1. pc' \in [Procs -> Steps]
  BY GotoType DEF ReapNext, Steps
<1>2. todo[k] \in SUBSET [version : Ingests, path : Ingests \cup {None}]
  BY DEF TypeOK
<1>3. todo[k] \ {next} \in SUBSET [version : Ingests, path : Ingests \cup {None}]
  BY <1>2
<1>4. todo' \in [Sweeps \cup Deletes -> SUBSET [version : Ingests, path : Ingests \cup {None}]]
  BY <1>3 DEF TypeOK, ReapNext
<1>5. next \in [version : Ingests \cup {None}, path : Ingests \cup {None}]
  BY <1>2
<1>6. task' \in [Closers -> [version : Ingests \cup {None}, path : Ingests \cup {None}]]
  BY <1>5 DEF TypeOK, ReapNext
<1>7. QED
  BY <1>1, <1>4, <1>6 DEF ReapNext, TypeOK, versions, feedRow

LEMMA NoTaskType == NoTask \in [version : Ingests \cup {None}, path : Ingests \cup {None}]
BY DEF NoTask

LEMMA SweepDoneType ==
  ASSUME TypeOK, NEW k \in Sweeps, SweepDone(k)
  PROVE  TypeOK'
<1> k \in Procs /\ k \in Closers
  BY DEF Procs, Closers
<1>1. pc' \in [Procs -> Steps]
  BY GotoType DEF SweepDone, Steps
<1>2. task' \in [Closers -> [version : Ingests \cup {None}, path : Ingests \cup {None}]]
  BY NoTaskType DEF TypeOK, SweepDone
<1>3. QED
  BY <1>1, <1>2 DEF SweepDone, TypeOK, versions, feedRow

LEMMA DeleteType ==
  ASSUME TypeOK, NEW d \in Deletes, DeleteStep(d)
  PROVE  TypeOK'
<1> d \in Procs
  BY DEF Procs
<1>1. pc' \in [Procs -> Steps]
  <2>1. "removeObjects" \in Steps /\ "deleteFeed" \in Steps /\ "done" \in Steps
    BY DEF Steps
  <2>2. QED
    BY <2>1, GotoType DEF DeleteStep, ListObjects, RemoveObjects, DeleteFeed
<1>2. faults' \in 0..MaxFaults /\ uncleared' \subseteq Ingests
  BY WorksType, FailsType DEF DeleteStep, ListObjects, RemoveObjects, DeleteFeed, TypeOK
<1>3. CASE ListObjects(d)
  <2>1. {Known(v) : v \in paths} \in SUBSET [version : Ingests, path : Ingests \cup {None}]
    BY KnownType DEF TypeOK
  <2>2. todo' \in [Sweeps \cup Deletes -> SUBSET [version : Ingests, path : Ingests \cup {None}]]
    BY <1>3, <2>1 DEF TypeOK, ListObjects
  <2>3. QED
    BY <1>1, <1>2, <1>3, <2>2 DEF ListObjects, TypeOK, versions, feedRow
<1>4. CASE RemoveObjects(d)
  BY <1>1, <1>2, <1>4 DEF RemoveObjects, TypeOK, versions, feedRow
<1>5. CASE DeleteFeed(d)
  <2>1. Empty \in [Tables -> {"none", "some", "all"}]
    BY DEF Empty
  <2>2. rows' \in [Ingests -> [Tables -> {"none", "some", "all"}]]
    BY <1>5, <2>1 DEF DeleteFeed, TypeOK
  <2>3. QED
    BY <1>1, <1>2, <1>5, <2>2 DEF DeleteFeed, TypeOK, versions, feedRow
<1>6. QED
  BY <1>3, <1>4, <1>5 DEF DeleteStep

LEMMA KillType ==
  ASSUME TypeOK, NEW p \in Procs, Kill(p)
  PROVE  TypeOK'
<1>1. pc' \in [Procs -> Steps]
  <2>1. "idle" \in Steps /\ "dead" \in Steps
    BY DEF Steps
  <2>2. QED
    BY <2>1, GotoType DEF Kill
<1>2. faults' \in 0..MaxFaults
  BY DEF Kill, TypeOK
<1>3. todo' \in [Sweeps \cup Deletes -> SUBSET [version : Ingests, path : Ingests \cup {None}]]
  BY DEF Kill, TypeOK
<1>4. task' \in [Closers -> [version : Ingests \cup {None}, path : Ingests \cup {None}]]
  BY NoTaskType DEF Kill, TypeOK, Closers
<1>5. QED
  BY <1>1, <1>2, <1>3, <1>4 DEF Kill, TypeOK, versions, feedRow
-----------------------------------------------------------------------------
(***************************************************************************)
(* The inductive invariant.                                                *)
(***************************************************************************)
Ended == {"done", "dead"}
ClosingSteps == {"clearRoutes", "clearStops", "removeObject", "markFailed", "readPointer", "markFeed"}
NotStored == {"begin", "insertVersion", "markFetching", "store"}
Storing == {"recordObject", "markParsing", "insertRoutes", "insertStops", "finalize"}
Promoting == {"readIncoming", "compare", "promote"}

\* An ingest works on its own version.
OwnTask == \A i \in Ingests : task[i].version = i

\* What a sweep has still to close, or is closing, belongs to an ingest that
\* ended before its version was ready, and names no other version's object.
Abandonable(known) ==
    /\ known.version \in Ingests
    /\ pc[known.version] \in Ended /\ status[known.version] # "ready"
    /\ known.path \in {known.version, None}
SweepsTheAbandoned ==
    \A k \in Sweeps : /\ \A known \in todo[k] : Abandonable(known)
                      /\ pc[k] \in ClosingSteps => Abandonable(task[k])
                      /\ pc[k] \in ClosingSteps \cup {"idle", "reap"}

\* How far an ingest has come with the rows of its version, while it exists.
WrittenSoFar ==
    \A i \in Ingests :
        /\ pc[i] \in {"insertStops", "finalize"} => status[i] = "absent" \/ rows[i]["routes"] = "all"
        /\ pc[i] = "finalize" => status[i] = "absent" \/ rows[i]["stops"] = "all"
        /\ pc[i] \in Promoting => status[i] = "absent" \/ rows[i] = Filled

\* The ingest of the version in use has ended.
InUseIsKept == \A v \in flagged : pc[v] \in Ended

\* How far the closing of a version has come.
ClearedSoFar ==
    \A p \in Closers : LET v == task[p].version IN
        /\ pc[p] = "clearStops" => v \in uncleared \/ rows[v]["routes"] = "none"
        /\ pc[p] \in {"removeObject", "markFailed"} => v \in uncleared \/ rows[v] = Empty
FailedHasEnded ==
    \A v \in Ingests : status[v] = "failed" => pc[v] \in Ended \cup {"readPointer", "markFeed"}

\* Nobody but the version's own closer removes its object.
Kept(i) == pc[i] \in Storing \cup Promoting /\ \A d \in Deletes : At(d, "idle")
PathSoFar ==
    \A i \in Ingests :
        /\ task[i].path \in {i, None}
        /\ pc[i] \in NotStored => i \notin paths /\ task[i].path = None
        /\ pc[i] = "recordObject" => task[i].path = i
        /\ Kept(i) /\ (i \in paths \/ task[i].path = i) => i \in objects

\* What an ingest remembers of its comparison.
ComparedSoFar ==
    \A i \in Ingests :
        /\ pc[i] \in NotStored \cup Storing \cup {"readIncoming", "compare"} => base[i] = None
        /\ pc[i] = "promote" /\ base[i] # None => 5 * Size[i] >= 4 * Size[base[i]]

IInv == /\ TypeOK /\ CurrentIsComplete /\ ClosedIngestIsEmpty /\ PathHasObject
        /\ OwnTask /\ SweepsTheAbandoned /\ WrittenSoFar /\ InUseIsKept /\ ClearedSoFar
        /\ FailedHasEnded /\ PathSoFar /\ ComparedSoFar

LEMMA RowsAreTables ==
  \A r \in [Tables -> {"none", "some", "all"}] :
     /\ r = Filled <=> r["routes"] = "all" /\ r["stops"] = "all"
     /\ r = Empty <=> r["routes"] = "none" /\ r["stops"] = "none"
BY DEF Filled, Empty, Tables

LEMMA SweepsUndisturbed ==
  ASSUME SweepsTheAbandoned,
         \A k \in Sweeps : pc'[k] = pc[k] /\ task'[k] = task[k] /\ todo'[k] = todo[k],
         \A v \in Ingests : pc[v] \in Ended /\ status[v] # "ready"
                              => pc'[v] \in Ended /\ status'[v] # "ready"
  PROVE  SweepsTheAbandoned'
BY DEF SweepsTheAbandoned, Abandonable

-----------------------------------------------------------------------------
\* The beginning of an ingest.
LEMMA BeginInv ==
  ASSUME IInv, NEW i \in Ingests,
         BeginFeed(i) \/ BeginRefresh(i) \/ InsertVersion(i)
  PROVE  IInv'
<1>1. TypeOK'
  BY BeginType DEF IInv
<1> USE DEF IInv, TypeOK, Procs, Closers, BeginFeed, BeginRefresh, InsertVersion,
            RegisterFeed, RecordVersion, Works, Fails, Goto, At, versions, feedRow
<1>2. CurrentIsComplete'
  BY DEF CurrentIsComplete, InUseIsKept, Ended
<1>3. InUseIsKept'
  BY DEF InUseIsKept, Ended
<1>4. OwnTask'
  BY DEF OwnTask
<1>5. SweepsTheAbandoned'
  <2>1. \A k \in Sweeps : pc'[k] = pc[k] /\ task'[k] = task[k] /\ todo'[k] = todo[k]
    OBVIOUS
  <2>2. \A v \in Ingests : pc[v] \in Ended /\ status[v] # "ready"
                          => pc'[v] \in Ended /\ status'[v] # "ready"
    BY DEF Ended
  <2>3. QED
    BY <2>1, <2>2, SweepsUndisturbed
<1>6. WrittenSoFar'
  BY DEF WrittenSoFar, Promoting
<1>7. ClearedSoFar'
  BY DEF ClearedSoFar
<1>8. FailedHasEnded'
  BY DEF FailedHasEnded, Ended
<1>9. ClosedIngestIsEmpty'
  BY DEF ClosedIngestIsEmpty
<1>10. PathSoFar'
  BY DEF PathSoFar, Kept, NotStored
<1>11. PathHasObject'
  BY DEF PathHasObject
<1>12. ComparedSoFar'
  BY DEF ComparedSoFar, NotStored
<1>13. QED
  BY <1>1, <1>2, <1>3, <1>4, <1>5, <1>6, <1>7, <1>8, <1>9, <1>10, <1>11,
     <1>12

\* Its marks, and the refusal.
LEMMA MarkInv ==
  ASSUME IInv, NEW i \in Ingests,
         MarkFetching(i) \/ MarkParsing(i) \/ RefuseFeed(i)
  PROVE  IInv'
<1>1. TypeOK'
  BY MarkType DEF IInv
<1> USE DEF IInv, TypeOK, Procs, Closers, MarkFetching, MarkParsing, Mark, RefuseFeed,
            SetStatus, Present, Works, Fails, Goto, At, versions, feedRow
<1>2. CurrentIsComplete'
  BY DEF CurrentIsComplete, InUseIsKept, Ended
<1>3. InUseIsKept'
  BY DEF InUseIsKept, Ended
<1>4. OwnTask'
  BY DEF OwnTask
<1>5. SweepsTheAbandoned'
  <2>1. \A k \in Sweeps : pc'[k] = pc[k] /\ task'[k] = task[k] /\ todo'[k] = todo[k]
    OBVIOUS
  <2>2. \A v \in Ingests : pc[v] \in Ended /\ status[v] # "ready"
                          => pc'[v] \in Ended /\ status'[v] # "ready"
    BY DEF Ended
  <2>3. QED
    BY <2>1, <2>2, SweepsUndisturbed
<1>6. WrittenSoFar'
  BY DEF WrittenSoFar, Promoting
<1>7. ClearedSoFar'
  BY DEF ClearedSoFar, SweepsTheAbandoned, ClosingSteps, OwnTask
<1>8. FailedHasEnded'
  <2>1. \A v \in Ingests : status'[v] = "failed" => status[v] = "failed"
    OBVIOUS
  <2>2. \A v \in Ingests \ {i} : pc'[v] = pc[v]
    OBVIOUS
  <2>3. status[i] # "failed"
    BY DEF FailedHasEnded, Ended
  <2>4. QED
    BY <2>1, <2>2, <2>3 DEF FailedHasEnded
<1>9. ClosedIngestIsEmpty'
  BY DEF ClosedIngestIsEmpty
<1>10. PathSoFar'
  BY DEF PathSoFar, Kept, NotStored, Storing
<1>11. PathHasObject'
  BY DEF PathHasObject
<1>12. ComparedSoFar'
  BY DEF ComparedSoFar, NotStored, Storing
<1>13. QED
  BY <1>1, <1>2, <1>3, <1>4, <1>5, <1>6, <1>7, <1>8, <1>9, <1>10, <1>11,
     <1>12

\* The object and its path.
LEMMA StoreInv ==
  ASSUME IInv, NEW i \in Ingests,
         Store(i) \/ RecordObject(i)
  PROVE  IInv'
<1>1. TypeOK'
  BY StoreType DEF IInv
<1> USE DEF IInv, TypeOK, Procs, Closers, Store, RecordObject, Present, Works, Fails,
            Goto, At, versions, feedRow
<1>2. CurrentIsComplete'
  BY DEF CurrentIsComplete
<1>3. InUseIsKept'
  BY DEF InUseIsKept, Ended
<1>4. OwnTask'
  BY DEF OwnTask
<1>5. SweepsTheAbandoned'
  <2>1. \A k \in Sweeps : pc'[k] = pc[k] /\ task'[k] = task[k] /\ todo'[k] = todo[k]
    OBVIOUS
  <2>2. \A v \in Ingests : pc[v] \in Ended /\ status[v] # "ready"
                          => pc'[v] \in Ended /\ status'[v] # "ready"
    BY DEF Ended
  <2>3. QED
    BY <2>1, <2>2, SweepsUndisturbed
<1>6. WrittenSoFar'
  BY DEF WrittenSoFar, Promoting
<1>7. ClearedSoFar'
  <2>1. \A c \in Closers : task'[c].version = task[c].version
    <3>1. task[i] \in [version : Ingests \cup {None}, path : Ingests \cup {None}]
      OBVIOUS
    <3>2. [task[i] EXCEPT !.path = i].version = task[i].version
      BY <3>1
    <3>3. task' = task \/ task' = [task EXCEPT ![i] = [task[i] EXCEPT !.path = i]]
      OBVIOUS
    <3>4. QED
      BY <3>2, <3>3
  <2>2. QED
    BY <2>1 DEF ClearedSoFar
<1>8. FailedHasEnded'
  BY DEF FailedHasEnded, Ended
<1>9. ClosedIngestIsEmpty'
  BY DEF ClosedIngestIsEmpty
<1>10. PathSoFar'
  BY DEF PathSoFar, Kept, NotStored, Storing, Promoting
<1>11. PathHasObject'
  BY DEF PathHasObject, InUseIsKept, Ended, SweepsTheAbandoned, Abandonable, ClosingSteps
<1>12. ComparedSoFar'
  BY DEF ComparedSoFar, NotStored, Storing
<1>13. QED
  BY <1>1, <1>2, <1>3, <1>4, <1>5, <1>6, <1>7, <1>8, <1>9, <1>10, <1>11,
     <1>12

\* The rows.
LEMMA InsertInv ==
  ASSUME IInv, NEW i \in Ingests,
         InsertRoutes(i) \/ InsertStops(i)
  PROVE  IInv'
<1>1. TypeOK'
  BY InsertType DEF IInv
<1> USE DEF IInv, TypeOK, Procs, Closers, InsertRoutes, InsertStops, Insert, Present,
            Tables, Works, Fails, Goto, At, versions, feedRow
<1>2. CurrentIsComplete'
  BY DEF CurrentIsComplete, InUseIsKept, Ended
<1>3. InUseIsKept'
  BY DEF InUseIsKept, Ended
<1>4. OwnTask'
  BY DEF OwnTask
<1>5. SweepsTheAbandoned'
  <2>1. \A k \in Sweeps : pc'[k] = pc[k] /\ task'[k] = task[k] /\ todo'[k] = todo[k]
    OBVIOUS
  <2>2. \A v \in Ingests : pc[v] \in Ended /\ status[v] # "ready"
                          => pc'[v] \in Ended /\ status'[v] # "ready"
    BY DEF Ended
  <2>3. QED
    BY <2>1, <2>2, SweepsUndisturbed
<1>6. WrittenSoFar'
  BY DEF WrittenSoFar, Promoting
<1>7. ClearedSoFar'
  <2>1. \A v \in Ingests \ {i} : rows'[v] = rows[v]
    OBVIOUS
  <2>2. \A c \in Closers \ {i} : pc'[c] = pc[c]
    OBVIOUS
  <2>3. \A c \in Sweeps : pc[c] \in ClosingSteps => task[c].version \in Ingests \ {i}
    BY DEF SweepsTheAbandoned, Abandonable, Ended
  <2>4. pc'[i] \notin {"clearStops", "removeObject", "markFailed"}
    OBVIOUS
  <2>5. task' = task /\ uncleared' = uncleared
    OBVIOUS
  <2>6. QED
    BY <2>1, <2>2, <2>3, <2>4, <2>5 DEF ClearedSoFar, ClosingSteps, OwnTask
<1>8. FailedHasEnded'
  BY DEF FailedHasEnded, Ended
<1>9. ClosedIngestIsEmpty'
  <2>1. \A v \in Ingests \ {i} : rows'[v] = rows[v]
    OBVIOUS
  <2>2. status' = status /\ uncleared' = uncleared
    OBVIOUS
  <2>3. status[i] # "failed"
    BY DEF FailedHasEnded, Ended
  <2>4. QED
    BY <2>1, <2>2, <2>3 DEF ClosedIngestIsEmpty
<1>10. PathSoFar'
  BY DEF PathSoFar, Kept, NotStored, Storing, Promoting
<1>11. PathHasObject'
  BY DEF PathHasObject
<1>12. ComparedSoFar'
  BY DEF ComparedSoFar, Storing
<1>13. QED
  BY <1>1, <1>2, <1>3, <1>4, <1>5, <1>6, <1>7, <1>8, <1>9, <1>10, <1>11,
     <1>12

\* The version is ready.
LEMMA FinalizeInv ==
  ASSUME IInv, NEW i \in Ingests,
         Finalize(i) \/ ReadIncoming(i) \/ Compare(i)
  PROVE  IInv'
<1>1. TypeOK'
  BY PromoteType DEF IInv
<1> USE DEF IInv, TypeOK, Procs, Closers, Finalize, MadeReady, ReadIncoming, Compare,
            Present, Works, Fails, Goto, At, versions, feedRow
<1>2. CurrentIsComplete'
  BY DEF CurrentIsComplete
<1>3. InUseIsKept'
  BY DEF InUseIsKept, Ended
<1>4. OwnTask'
  BY DEF OwnTask
<1>5. SweepsTheAbandoned'
  <2>1. \A k \in Sweeps : pc'[k] = pc[k] /\ task'[k] = task[k] /\ todo'[k] = todo[k]
    OBVIOUS
  <2>2. \A v \in Ingests : pc[v] \in Ended /\ status[v] # "ready"
                          => pc'[v] \in Ended /\ status'[v] # "ready"
    BY DEF Ended
  <2>3. QED
    BY <2>1, <2>2, SweepsUndisturbed
<1>6. WrittenSoFar'
  <2>1. rows' = rows
    OBVIOUS
  <2>2. \A v \in Ingests \ {i} : pc'[v] = pc[v] /\ status'[v] = status[v]
    OBVIOUS
  <2>3. pc'[i] \notin {"insertStops", "finalize"}
    OBVIOUS
  <2>4. pc'[i] \in Promoting => status[i] = "absent" \/ rows[i] = Filled
    BY RowsAreTables DEF WrittenSoFar, Promoting
  <2>5. pc'[i] \in Promoting /\ status[i] = "absent" => status'[i] = "absent"
    OBVIOUS
  <2>6. QED
    BY <2>1, <2>2, <2>3, <2>4, <2>5 DEF WrittenSoFar
<1>7. ClearedSoFar'
  BY DEF ClearedSoFar
<1>8. FailedHasEnded'
  BY DEF FailedHasEnded, Ended, SweepsTheAbandoned, Abandonable, ClosingSteps, OwnTask
<1>9. ClosedIngestIsEmpty'
  BY DEF ClosedIngestIsEmpty
<1>10. PathSoFar'
  BY DEF PathSoFar, Kept, NotStored, Storing, Promoting
<1>11. PathHasObject'
  BY DEF PathHasObject, InUseIsKept, Ended, OwnTask
<1>12. ComparedSoFar'
  BY DEF ComparedSoFar, NotStored, Storing, Collapsed, CurrentIsComplete
<1>13. QED
  BY <1>1, <1>2, <1>3, <1>4, <1>5, <1>6, <1>7, <1>8, <1>9, <1>10, <1>11,
     <1>12

\* The promotion.
LEMMA PromoteInv ==
  ASSUME IInv, NEW i \in Ingests,
         Promote(i)
  PROVE  IInv'
<1>1. TypeOK'
  BY PromoteType DEF IInv
<1> USE DEF IInv, TypeOK, Procs, Closers, Promote, MovePointer, Works, Fails, Goto, At,
            versions, feedRow
<1>2. CurrentIsComplete'
  BY DEF CurrentIsComplete, WrittenSoFar, Promoting
<1>3. InUseIsKept'
  BY DEF InUseIsKept, Ended
<1>4. OwnTask'
  BY DEF OwnTask
<1>5. SweepsTheAbandoned'
  BY DEF SweepsTheAbandoned, Abandonable, Ended
<1>6. WrittenSoFar'
  BY DEF WrittenSoFar, Promoting
<1>7. ClearedSoFar'
  BY DEF ClearedSoFar
<1>8. FailedHasEnded'
  BY DEF FailedHasEnded, Ended
<1>9. ClosedIngestIsEmpty'
  BY DEF ClosedIngestIsEmpty
<1>10. PathSoFar'
  BY DEF PathSoFar, Kept, NotStored, Promoting
<1>11. PathHasObject'
  BY DEF PathHasObject, PathSoFar, Kept, Promoting
<1>12. ComparedSoFar'
  BY DEF ComparedSoFar
<1>13. QED
  BY <1>1, <1>2, <1>3, <1>4, <1>5, <1>6, <1>7, <1>8, <1>9, <1>10, <1>11,
     <1>12

\* The closing of a version.
LEMMA CloseInv ==
  ASSUME IInv, NEW p \in Closers,
         CloseStep(p)
  PROVE  IInv'
<1>1. TypeOK'
  <2>1. task[p].version \in Ingests
    BY DEF IInv, OwnTask, SweepsTheAbandoned, Abandonable, Closers, CloseStep, ClearRoutes, ClearStops,
           RemoveObject, MarkFailed, ReadPointer, MarkFeed, At, ClosingSteps
  <2>2. QED
    BY <2>1, CloseType DEF IInv
<1> USE DEF IInv, TypeOK, Procs, Closers, CloseStep, ClearRoutes, ClearStops, Clear,
            RemoveObject, MarkFailed, SetStatus, ReadPointer, MarkFeed, KnowsFeed,
            Resting, Present, Tables, Works, Fails, Goto, At, versions, feedRow
<1>2. task' = task /\ uncleared \subseteq uncleared'
  OBVIOUS
<1>3. \A c \in Closers : pc[c] \in ClosingSteps => task[c].version \in Ingests
  BY DEF OwnTask, SweepsTheAbandoned, Abandonable
<1>4. \A c \in Closers \ {p} : pc'[c] = pc[c]
  OBVIOUS
<1>5. pc[p] \in ClosingSteps
  BY DEF ClosingSteps
<1>6. \A v \in Ingests, t \in Tables : rows'[v][t] = rows[v][t] \/ rows'[v][t] = "none"
  <2>1. CASE ClearRoutes(p) \/ ClearStops(p)
    <3>1. rows' = rows \/ \E t \in Tables :
             rows' = [rows EXCEPT ![task[p].version] = [rows[task[p].version] EXCEPT ![t] = "none"]]
      BY <2>1
    <3>2. ASSUME NEW t \in Tables, NEW u \in Tables, NEW v \in Ingests,
                 rows' = [rows EXCEPT ![task[p].version] = [rows[task[p].version] EXCEPT ![t] = "none"]]
          PROVE  rows'[v][u] = rows[v][u] \/ rows'[v][u] = "none"
      <4>1. rows'[v] = rows[v] \/ rows'[v] = [rows[v] EXCEPT ![t] = "none"]
        BY <3>2
      <4>2. QED
        BY <4>1
    <3>3. QED
      BY <3>1, <3>2
  <2>2. CASE RemoveObject(p) \/ MarkFailed(p) \/ ReadPointer(p) \/ MarkFeed(p)
    BY <2>2
  <2>3. QED
    BY <2>1, <2>2
<1>7. \A v \in Ingests : rows[v] = Empty => rows'[v] = Empty
  BY <1>1, <1>6, RowsAreTables
<1>8. CurrentIsComplete'
  BY DEF CurrentIsComplete, InUseIsKept, Ended, SweepsTheAbandoned, Abandonable, OwnTask, ClosingSteps
<1>9. InUseIsKept'
  BY DEF InUseIsKept, Ended
<1>10. OwnTask'
  BY DEF OwnTask
<1>11. SweepsTheAbandoned'
  <2>1. \A k \in Sweeps : task'[k] = task[k] /\ todo'[k] = todo[k]
    OBVIOUS
  <2>2. CASE p \in Ingests
    <3>1. \A k \in Sweeps : pc'[k] = pc[k]
      BY <2>2
    <3>2. \A v \in Ingests : pc[v] \in Ended /\ status[v] # "ready"
                            => pc'[v] \in Ended /\ status'[v] # "ready"
      BY <2>2 DEF Ended
    <3>3. QED
      BY <2>1, <3>1, <3>2, SweepsUndisturbed
  <2>3. CASE p \in Sweeps
    <3>2. \A known : Abandonable(known) => Abandonable(known)'
      BY <2>3 DEF Abandonable, Ended
    <3>3. \A k \in Sweeps \ {p} : pc'[k] = pc[k]
      OBVIOUS
    <3>4. pc[p] \in ClosingSteps /\ pc'[p] \in ClosingSteps \cup {"reap"}
      BY <2>3 DEF ClosingSteps
    <3>5. QED
      BY <2>1, <3>2, <3>3, <3>4 DEF SweepsTheAbandoned
  <2>4. QED
    BY <2>2, <2>3
<1>12. WrittenSoFar'
  BY DEF WrittenSoFar, Promoting, SweepsTheAbandoned, Abandonable, Ended, OwnTask
<1>13. ClearedSoFar'
  <2>1. CASE ClearRoutes(p)
    <3>1. pc'[p] = "clearStops" => rows'[task[p].version]["routes"] = "none"
      BY <2>1, <1>3, <1>5
    <3>2. pc'[p] # "clearStops" => task[p].version \in uncleared' /\ pc'[p] = "removeObject"
      BY <2>1
    <3>3. QED
      BY <3>1, <3>2, <1>2, <1>3, <1>4, <1>6, <1>7 DEF ClearedSoFar, ClosingSteps
  <2>2. CASE ClearStops(p)
    <3>1. /\ pc'[p] = "removeObject"
          /\ task[p].version \in uncleared' \/ rows'[task[p].version]["stops"] = "none"
      BY <2>2, <1>3, <1>5
    <3>2. task[p].version \in uncleared \/ rows[task[p].version]["routes"] = "none"
      BY <2>2 DEF ClearedSoFar
    <3>3. task[p].version \in uncleared' \/ rows'[task[p].version] = Empty
      BY <3>1, <3>2, <1>1, <1>2, <1>3, <1>5, <1>6, RowsAreTables
    <3>4. QED
      BY <3>1, <3>3, <1>2, <1>3, <1>4, <1>6, <1>7 DEF ClearedSoFar, ClosingSteps
  <2>3. CASE RemoveObject(p) \/ MarkFailed(p) \/ ReadPointer(p) \/ MarkFeed(p)
    <3>1. rows' = rows /\ uncleared' = uncleared
      BY <2>3
    <3>2. pc'[p] # "clearStops" /\ (pc'[p] \in {"removeObject", "markFailed"} => pc[p] = "removeObject")
      BY <2>3
    <3>3. QED
      BY <3>1, <3>2, <1>2, <1>4 DEF ClearedSoFar
  <2>4. QED
    BY <2>1, <2>2, <2>3
<1>14. FailedHasEnded'
  BY DEF FailedHasEnded, Ended, SweepsTheAbandoned, Abandonable, ClosingSteps, OwnTask
<1>15. ClosedIngestIsEmpty'
  <2>1. \A v \in Ingests : status'[v] = "failed"
                          => status[v] = "failed" \/ (v = task[p].version /\ pc[p] = "markFailed")
    OBVIOUS
  <2>2. QED
    BY <2>1, <1>2, <1>7 DEF ClosedIngestIsEmpty, ClearedSoFar
<1>16. PathSoFar'
  BY DEF PathSoFar, Kept, NotStored, Storing, Promoting, SweepsTheAbandoned, Abandonable, Ended, ClosingSteps
<1>17. PathHasObject'
  BY DEF PathHasObject, PathSoFar, CurrentIsComplete, InUseIsKept, Ended, SweepsTheAbandoned, Abandonable
<1>18. ComparedSoFar'
  BY DEF ComparedSoFar, NotStored, Storing
<1>19. QED
  BY <1>1, <1>2, <1>3, <1>4, <1>5, <1>6, <1>7, <1>8, <1>9, <1>10, <1>11,
     <1>12, <1>13, <1>14, <1>15, <1>16, <1>17, <1>18

\* The sweep.
LEMMA SweepInv ==
  ASSUME IInv, NEW k \in Sweeps,
         Scan(k) \/ (\E next \in todo[k] : ReapNext(k, next)) \/ SweepDone(k)
  PROVE  IInv'
<1>1. TypeOK'
  BY ScanType, ReapNextType, SweepDoneType DEF IInv
<1> USE DEF IInv, TypeOK, Procs, Closers, Scan, ReapNext, SweepDone, Known, Abandoned,
            NonTerminal, NoTask, Goto, At, versions, feedRow
<1>2. CurrentIsComplete'
  BY DEF CurrentIsComplete
<1>3. InUseIsKept'
  BY DEF InUseIsKept
<1>4. OwnTask'
  BY DEF OwnTask
<1>5. SweepsTheAbandoned'
  <2>1. \A known : Abandonable(known)' <=> Abandonable(known)
    BY DEF Abandonable, Ended
  <2>2. CASE Scan(k)
    <3>1. \A v \in Ingests : Abandoned(v) => Abandonable(Known(v))
      BY DEF Abandonable, Ended
    <3>2. QED
      BY <2>1, <2>2, <3>1 DEF SweepsTheAbandoned, ClosingSteps
  <2>3. ASSUME NEW next \in todo[k], ReapNext(k, next)
        PROVE  SweepsTheAbandoned'
    BY <2>1, <2>3 DEF SweepsTheAbandoned, ClosingSteps
  <2>4. CASE SweepDone(k)
    BY <2>1, <2>4 DEF SweepsTheAbandoned, ClosingSteps
  <2>5. QED
    BY <2>2, <2>3, <2>4
<1>6. WrittenSoFar'
  BY DEF WrittenSoFar
<1>7. ClearedSoFar'
  BY DEF ClearedSoFar, OwnTask
<1>8. FailedHasEnded'
  BY DEF FailedHasEnded
<1>9. ClosedIngestIsEmpty'
  BY DEF ClosedIngestIsEmpty
<1>10. PathSoFar'
  BY DEF PathSoFar, Kept
<1>11. PathHasObject'
  BY DEF PathHasObject
<1>12. ComparedSoFar'
  BY DEF ComparedSoFar, NotStored, Storing
<1>13. QED
  BY <1>1, <1>2, <1>3, <1>4, <1>5, <1>6, <1>7, <1>8, <1>9, <1>10, <1>11,
     <1>12

\* The removal of the feed.
LEMMA DeleteInv ==
  ASSUME IInv, NEW d \in Deletes,
         DeleteStep(d)
  PROVE  IInv'
<1>1. TypeOK'
  BY DeleteType DEF IInv
<1> USE DEF IInv, TypeOK, Procs, Closers, DeleteStep, ListObjects, RemoveObjects,
            DeleteFeed, Works, Fails, Goto, At, versions, feedRow
<1>2. CurrentIsComplete'
  BY DEF CurrentIsComplete
<1>3. InUseIsKept'
  BY DEF InUseIsKept
<1>4. OwnTask'
  BY DEF OwnTask
<1>5. SweepsTheAbandoned'
  <2>1. \A k \in Sweeps : pc'[k] = pc[k] /\ task'[k] = task[k] /\ todo'[k] = todo[k]
    OBVIOUS
  <2>2. \A v \in Ingests : pc[v] \in Ended /\ status[v] # "ready"
                          => pc'[v] \in Ended /\ status'[v] # "ready"
    BY DEF Ended
  <2>3. QED
    BY <2>1, <2>2, SweepsUndisturbed
<1>6. WrittenSoFar'
  BY DEF WrittenSoFar
<1>7. ClearedSoFar'
  <2>1. pc'[d] \in {"removeObjects", "deleteFeed", "done"}
    OBVIOUS
  <2>2. \A c \in Closers : pc'[c] = pc[c] /\ task'[c] = task[c]
    OBVIOUS
  <2>3. uncleared' = uncleared
    OBVIOUS
  <2>4. \A c \in Closers : pc[c] \in ClosingSteps => task[c].version \in Ingests
    BY DEF OwnTask, SweepsTheAbandoned, Abandonable
  <2>5. rows' = rows \/ \A v \in Ingests : rows'[v] = Empty
    OBVIOUS
  <2>6. QED
    BY <2>2, <2>3, <2>4, <2>5 DEF ClearedSoFar, ClosingSteps, Empty, Tables
<1>8. FailedHasEnded'
  BY DEF FailedHasEnded, Ended
<1>9. ClosedIngestIsEmpty'
  BY DEF ClosedIngestIsEmpty
<1>10. PathSoFar'
  BY DEF PathSoFar, Kept
<1>11. PathHasObject'
  BY DEF PathHasObject
<1>12. ComparedSoFar'
  BY DEF ComparedSoFar, NotStored
<1>13. QED
  BY <1>1, <1>2, <1>3, <1>4, <1>5, <1>6, <1>7, <1>8, <1>9, <1>10, <1>11,
     <1>12

\* A killed process.
LEMMA KillInv ==
  ASSUME IInv, NEW p \in Procs,
         Kill(p)
  PROVE  IInv'
<1>1. TypeOK'
  BY KillType DEF IInv
<1> USE DEF IInv, TypeOK, Procs, Closers, Kill, NoTask, Goto, At, versions, feedRow
<1>2. CurrentIsComplete'
  BY DEF CurrentIsComplete
<1>3. InUseIsKept'
  BY DEF InUseIsKept, Ended
<1>4. OwnTask'
  BY DEF OwnTask
<1>5. SweepsTheAbandoned'
  BY DEF SweepsTheAbandoned, Abandonable, Ended, ClosingSteps
<1>6. WrittenSoFar'
  BY DEF WrittenSoFar, Promoting
<1>7. ClearedSoFar'
  BY DEF ClearedSoFar
<1>8. FailedHasEnded'
  BY DEF FailedHasEnded, Ended
<1>9. ClosedIngestIsEmpty'
  BY DEF ClosedIngestIsEmpty
<1>10. PathSoFar'
  BY DEF PathSoFar, Kept, NotStored, Storing, Promoting
<1>11. PathHasObject'
  BY DEF PathHasObject
<1>12. ComparedSoFar'
  BY DEF ComparedSoFar, NotStored, Storing
<1>13. QED
  BY <1>1, <1>2, <1>3, <1>4, <1>5, <1>6, <1>7, <1>8, <1>9, <1>10, <1>11,
     <1>12

-----------------------------------------------------------------------------
LEMMA EmptyType == Empty \in [Tables -> {"none", "some", "all"}]
BY DEF Empty

\* The first state, and a step of none of the processes.
LEMMA InitInv == Init => IInv
<1> SUFFICES ASSUME Init PROVE IInv
  OBVIOUS
<1>1. TypeOK
  <2>1. task \in [Closers -> [version : Ingests \cup {None}, path : Ingests \cup {None}]]
    <3>1. \A i \in Ingests : [NoTask EXCEPT !.version = i]
                            \in [version : Ingests \cup {None}, path : Ingests \cup {None}]
      BY DEF NoTask
    <3>2. QED
      BY <3>1, NoTaskType DEF Init
  <2>2. QED
    BY <2>1, EmptyType DEF Init, TypeOK, Steps, NonTerminal
<1>2. OwnTask /\ \A i \in Ingests : task[i].path = None
  BY DEF Init, OwnTask, NoTask, Closers
<1>3. \A i \in Ingests : pc[i] = "begin"
  BY DEF Init, Procs, Closers
<1>4. \A k \in Sweeps : pc[k] = "idle" /\ todo[k] = {}
  BY DEF Init, Procs, Closers
<1>5. CurrentIsComplete /\ ClosedIngestIsEmpty /\ PathHasObject /\ InUseIsKept /\ FailedHasEnded
  BY DEF Init, CurrentIsComplete, ClosedIngestIsEmpty, PathHasObject, InUseIsKept, FailedHasEnded
<1>6. SweepsTheAbandoned
  BY <1>4 DEF SweepsTheAbandoned, ClosingSteps
<1>7. WrittenSoFar
  BY <1>3 DEF WrittenSoFar, Promoting
<1>8. ClearedSoFar
  BY <1>3, <1>4 DEF ClearedSoFar, Closers
<1>9. PathSoFar
  BY <1>2, <1>3 DEF PathSoFar, Kept, Storing, Promoting, Init
<1>10. ComparedSoFar
  BY <1>3 DEF ComparedSoFar, Init
<1>11. QED
  BY <1>1, <1>2, <1>5, <1>6, <1>7, <1>8, <1>9, <1>10 DEF IInv

LEMMA StutterInv == IInv /\ UNCHANGED vars => IInv'
<1> SUFFICES ASSUME IInv, UNCHANGED vars PROVE IInv'
  OBVIOUS
<1> USE DEF vars
<1>1. TypeOK' /\ CurrentIsComplete' /\ ClosedIngestIsEmpty' /\ PathHasObject'
  BY DEF IInv, TypeOK, CurrentIsComplete, ClosedIngestIsEmpty, PathHasObject, At
<1>2. OwnTask' /\ SweepsTheAbandoned' /\ WrittenSoFar' /\ InUseIsKept'
  BY DEF IInv, OwnTask, SweepsTheAbandoned, Abandonable, WrittenSoFar, InUseIsKept
<1>3. ClearedSoFar' /\ FailedHasEnded' /\ PathSoFar' /\ ComparedSoFar'
  BY DEF IInv, ClearedSoFar, FailedHasEnded, PathSoFar, Kept, At, ComparedSoFar
<1>4. QED
  BY <1>1, <1>2, <1>3 DEF IInv

LEMMA NextInv == IInv /\ [Next]_vars => IInv'
<1> SUFFICES ASSUME IInv, [Next]_vars PROVE IInv'
  OBVIOUS
<1>1. ASSUME NEW i \in Ingests, BeginFeed(i) \/ BeginRefresh(i) \/ IngestStep(i)
      PROVE  IInv'
  <2>1. CASE CloseStep(i)
    BY <2>1, CloseInv DEF Closers
  <2>2. QED
    BY <1>1, <2>1, BeginInv, MarkInv, StoreInv, InsertInv, FinalizeInv, PromoteInv DEF IngestStep
<1>2. ASSUME NEW k \in Sweeps, SweepStep(k)
      PROVE  IInv'
  BY <1>2, CloseInv, SweepInv DEF SweepStep, Closers
<1>3. ASSUME NEW d \in Deletes, DeleteStep(d)
      PROVE  IInv'
  BY <1>3, DeleteInv
<1>4. ASSUME NEW p \in Procs, Kill(p)
      PROVE  IInv'
  BY <1>4, KillInv
<1>5. CASE UNCHANGED vars
  BY <1>5, StutterInv
<1>6. QED
  BY <1>1, <1>2, <1>3, <1>4, <1>5 DEF Next

LEMMA Invariance == Spec => []IInv
BY InitInv, NextInv, PTL DEF Spec

-----------------------------------------------------------------------------
(***************************************************************************)
(* The theorems.                                                           *)
(***************************************************************************)
\* Every variable keeps its type, whatever is answered, lost or killed.
THEOREM TypeCorrect == Spec => []TypeOK
<1>1. IInv => TypeOK
  BY DEF IInv
<1>2. QED
  BY <1>1, Invariance, PTL

\* Readers of the feed find no version or a ready one with all of its rows, and
\* the pointer and the flag agree: promote_gtfs_feed_version moves both in one
\* transaction, after the rows are written, and no sweep closes a version that
\* is ready.
THEOREM CurrentVersionIsComplete == Spec => []CurrentIsComplete
<1>1. IInv => CurrentIsComplete
  BY DEF IInv
<1>2. QED
  BY <1>1, Invariance, PTL

\* A version that says failed has no derived rows, or a delete of them was
\* refused: failGtfsFeedVersion clears the tables before it marks the version, and a
\* process killed between the two is finished by the sweep.
THEOREM ClosedIngestsAreEmpty == Spec => []ClosedIngestIsEmpty
<1>1. IInv => ClosedIngestIsEmpty
  BY DEF IInv
<1>2. QED
  BY <1>1, Invariance, PTL

\* The path of the version in use names an object in the bucket until the feed
\* is removed: the object is stored before its path is recorded, and only the
\* closing of that version removes it.
THEOREM PathsHaveObjects == Spec => []PathHasObject
<1>1. IInv => PathHasObject
  BY DEF IInv
<1>2. QED
  BY <1>1, Invariance, PTL

\* Only a promotion names another version, and it names its own.
LEMMA PointerMoves ==
  ASSUME IInv, [Next]_vars, NEW i \in Ingests, pointer' = i, pointer # i
  PROVE  pc[i] = "promote"
<1>1. ASSUME NEW j \in Ingests, BeginFeed(j) \/ BeginRefresh(j) \/ IngestStep(j)
      PROVE  pointer' = pointer \/ (pointer' = j /\ pc[j] = "promote")
  BY <1>1 DEF BeginFeed, RegisterFeed, BeginRefresh, IngestStep, InsertVersion, MarkFetching, MarkParsing,
     Mark, RefuseFeed, Store, RecordObject, InsertRoutes, InsertStops, Finalize, ReadIncoming, Compare,
     Promote, MovePointer, CloseStep, ClearRoutes, ClearStops, Clear, RemoveObject, MarkFailed,
     ReadPointer, MarkFeed, feedRow, At
<1>2. ASSUME NEW k \in Sweeps, SweepStep(k)
      PROVE  pointer' = pointer
  BY <1>2 DEF SweepStep, Scan, ReapNext, SweepDone, CloseStep, ClearRoutes, ClearStops, Clear,
     RemoveObject, MarkFailed, ReadPointer, MarkFeed, feedRow
<1>3. ASSUME NEW d \in Deletes, DeleteStep(d)
      PROVE  pointer' \in {pointer, None}
  BY <1>3 DEF DeleteStep, ListObjects, RemoveObjects, DeleteFeed, feedRow
<1>4. ASSUME NEW p \in Procs, Kill(p)
      PROVE  pointer' = pointer
  BY <1>4 DEF Kill, feedRow
<1>5. QED
  BY <1>1, <1>2, <1>3, <1>4 DEF Next, vars

\* A promotion that was compared with the version it replaces kept four fifths
\* of its routes, although the comparison and the promotion are calls of their
\* own; another version promoted in between is not compared.
THEOREM CollapsesAreWithheld == Spec => CollapseIsWithheld
<1> DEFINE NoCollapse == \A i \in Ingests : /\ pointer' = i /\ pointer \notin {i, None}
                                            /\ base[i] = pointer
                                           => 5 * Size[i] >= 4 * Size[pointer]
<1>1. IInv /\ [Next]_vars => [NoCollapse]_vars
  <2> SUFFICES ASSUME IInv, [Next]_vars, NEW i \in Ingests,
                      pointer' = i, pointer \notin {i, None}, base[i] = pointer
               PROVE  5 * Size[i] >= 4 * Size[pointer]
    OBVIOUS
  <2>1. pc[i] = "promote"
    BY PointerMoves
  <2>2. QED
    BY <2>1 DEF IInv, ComparedSoFar
<1>2. QED
  BY <1>1, Invariance, PTL DEF Spec, CollapseIsWithheld

\* What the readers see of the feed implements FeedInUse: each step of each
\* process adopts one complete version, removes the feed, or shows nothing new.
THEOREM Refinement == Spec => ImplementsFeedInUse
<1>1. Init => InUseSpec!Init
  BY DEF Init, InUseSpec!Init, RowsInUse
<1>2. ASSUME IInv, IInv', [Next]_vars
      PROVE  [InUseSpec!Next]_<<pointer, RowsInUse>>
  <2>1. CASE pointer' \in Ingests
    <3>1. rows'[pointer'] = Filled /\ pointer' # None
      BY <1>2, <2>1 DEF IInv, CurrentIsComplete
    <3>2. InUseSpec!Adopt(pointer')
      BY <3>1 DEF InUseSpec!Adopt, RowsInUse
    <3>3. QED
      BY <2>1, <3>2 DEF InUseSpec!Next
  <2>2. CASE pointer' = None
    BY <2>2 DEF InUseSpec!Next, InUseSpec!Remove, RowsInUse
  <2>3. QED
    BY <1>2, <2>1, <2>2 DEF IInv, TypeOK
<1>3. QED
  BY <1>1, <1>2, Invariance, PTL DEF Spec, ImplementsFeedInUse, InUseSpec!Spec
=============================================================================
