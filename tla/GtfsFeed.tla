----------------------------- MODULE GtfsFeed -----------------------------
(***************************************************************************)
(* The ingests of one transit feed: lib/gtfs/ingest.ts and persist.ts, the *)
(* promotion procedure of migration 20260805000008, the sweep that closes  *)
(* abandoned ingests, and the removal of the feed.  Every action is one    *)
(* call to the database or to the storage bucket; between two of them      *)
(* anybody else may come, and the process may be killed.                   *)
(*                                                                         *)
(* A version is named by the ingest that wrote it.                         *)
(***************************************************************************)
EXTENDS Naturals, FiniteSets

CONSTANTS
    Ingests,         \* runs of runGtfsIngest: the first of a feed and its refreshes
    Creator,         \* the one that registers the feed
    Uploads,         \* those whose bytes a planner handed in
    Size,            \* [Ingests -> Nat]: how many routes the archive has
    Sweeps, Deletes, \* invocations of the cron route and of DELETE
    None,
    MaxFaults,       \* bound on failed calls and killed processes together
    MaxFailures      \* a call fails only while there were fewer faults than this

Closers == Ingests \cup Sweeps
Procs == Closers \cup Deletes
Tables == {"routes", "stops"}
Filled == [t \in Tables |-> "all"]
Empty == [t \in Tables |-> "none"]
NonTerminal == {"pending", "fetching", "parsing"}

ASSUME FeedAssumption ==
    /\ Creator \in Ingests /\ Uploads \subseteq Ingests
    /\ Size \in [Ingests -> Nat] /\ MaxFaults \in Nat /\ MaxFailures \in 0..MaxFaults
    /\ None \notin Ingests
    /\ Ingests \cap Sweeps = {} /\ Closers \cap Deletes = {}

VARIABLES
    feed,      \* gtfs_feeds.status
    pointer,   \* gtfs_feeds.current_version_id
    status,    \* gtfs_feed_versions.status
    flagged,   \* the versions that say is_current
    paths,     \* the versions that have a storage_path
    rows,      \* how much of a version each derived table holds
    objects,   \* the archives in the bucket
    pc,        \* the next step of each process
    task,      \* the version a process works on, and the path it knows of
    todo,      \* the versions a sweep has still to close, the paths DELETE read
    base,      \* history: the version an ingest was compared with, until it promotes
    uncleared, \* history: the versions whose rows could not be deleted
    faults

feedRow == <<feed, pointer>>
versions == <<status, flagged, paths>>
vars == <<feed, pointer, status, flagged, paths, rows, objects, pc, task, todo, base,
          uncleared, faults>>

Present(v) == status[v] # "absent"
NoTask == [version |-> None, path |-> None]

Init ==
    /\ feed = "absent" /\ pointer = None
    /\ status = [v \in Ingests |-> "absent"]
    /\ flagged = {} /\ paths = {}
    /\ rows = [v \in Ingests |-> Empty]
    /\ objects = {}
    /\ pc = [p \in Procs |-> IF p \in Ingests THEN "begin" ELSE "idle"]
    /\ task = [p \in Closers |-> IF p \in Ingests THEN [NoTask EXCEPT !.version = p] ELSE NoTask]
    /\ todo = [p \in Sweeps \cup Deletes |-> {}]
    /\ base = [i \in Ingests |-> None]
    /\ uncleared = {}
    /\ faults = 0

At(p, step) == pc[p] = step
Goto(p, step) == pc' = [pc EXCEPT ![p] = step]
Works == UNCHANGED <<uncleared, faults>>
Fails == faults < MaxFailures /\ faults' = faults + 1 /\ UNCHANGED uncleared

SetStatus(v, to) ==
    /\ status' = IF Present(v) THEN [status EXCEPT ![v] = to] ELSE status
    /\ UNCHANGED <<flagged, paths>>

-----------------------------------------------------------------------------
(***************************************************************************)
(* beginGtfsFeedVersion.                                                   *)
(***************************************************************************)
RegisterFeed == feed' = "pending" /\ UNCHANGED pointer
RecordVersion(i) == /\ feed # "absent" /\ status' = [status EXCEPT ![i] = "pending"]
                    /\ UNCHANGED <<flagged, paths>>

BeginFeed(i) ==
    /\ At(i, "begin") /\ i = Creator
    /\ \/ Works /\ RegisterFeed /\ Goto(i, "insertVersion")
       \/ Fails /\ (RegisterFeed \/ UNCHANGED feedRow) /\ Goto(i, "done")
    /\ UNCHANGED <<versions, rows, objects, task, todo, base>>

\* The refresh route, or an upload that names the feed.
BeginRefresh(i) ==
    /\ At(i, "begin") /\ i # Creator /\ feed # "absent"
    /\ Goto(i, "insertVersion")
    /\ UNCHANGED <<feedRow, versions, rows, objects, task, todo, base, uncleared, faults>>

InsertVersion(i) ==
    /\ At(i, "insertVersion")
    /\ \/ Works /\ RecordVersion(i) /\ Goto(i, "markFetching")
       \/ Fails /\ (RecordVersion(i) \/ UNCHANGED versions) /\ Goto(i, "done")
       \/ feed = "absent" /\ Works /\ UNCHANGED versions /\ Goto(i, "done")
    /\ UNCHANGED <<feedRow, rows, objects, task, todo, base>>

\* markGtfsFeedVersionStage: a miss is passed over.
Mark(i, step, to, next) ==
    /\ At(i, step)
    /\ \/ Works /\ SetStatus(i, to)
       \/ Fails /\ UNCHANGED versions
    /\ Goto(i, next)
    /\ UNCHANGED <<feedRow, rows, objects, task, todo, base>>

MarkFetching(i) == Mark(i, "markFetching", "fetching", "store")
MarkParsing(i) == Mark(i, "markParsing", "parsing", "insertRoutes")

\* The bytes are refused before anything is stored, or the archive does not
\* parse or has no usable service: runGtfsIngest's refuse.
RefuseFeed(i) ==
    /\ pc[i] \in {"store", "insertRoutes"}
    /\ Goto(i, "clearRoutes")
    /\ UNCHANGED <<feedRow, versions, rows, objects, task, todo, base, uncleared, faults>>

\* Variant: the path is kept when the upload failed.
StoreKeepsPath(i) ==
    /\ At(i, "store")
    /\ \/ Works /\ objects' = objects \cup {i} /\ Goto(i, "recordObject")
       \/ Fails /\ Goto(i, "markParsing") /\ UNCHANGED objects
    /\ task' = [task EXCEPT ![i].path = i]
    /\ UNCHANGED <<feedRow, versions, rows, todo, base>>

\* The object goes first, then the row that points at it.
Store(i) ==
    /\ At(i, "store")
    /\ \/ /\ Works
          /\ objects' = objects \cup {i}
          /\ task' = [task EXCEPT ![i].path = i]
          /\ Goto(i, "recordObject")
       \/ /\ Fails
          /\ Goto(i, IF i \in Uploads THEN "clearRoutes" ELSE "markParsing")
          /\ UNCHANGED <<objects, task>>
    /\ UNCHANGED <<feedRow, versions, rows, todo, base>>

RecordObject(i) ==
    /\ At(i, "recordObject")
    /\ \/ /\ Works /\ UNCHANGED <<status, flagged>>
          /\ paths' = IF Present(i) THEN paths \cup {i} ELSE paths
       \/ Fails /\ UNCHANGED versions
    /\ Goto(i, "markParsing")
    /\ UNCHANGED <<feedRow, rows, objects, task, todo, base>>

\* insertInBatches.  The rows refer to their version: without it, or when a
\* batch fails, the ingest is refused with whatever was stored before.
Insert(i, t, next) ==
    \/ /\ Present(i) /\ Works
       /\ rows' = [rows EXCEPT ![i][t] = "all"]
       /\ Goto(i, next)
    \/ /\ Present(i) /\ Fails
       /\ \E part \in {"none", "some", "all"} : rows' = [rows EXCEPT ![i][t] = part]
       /\ Goto(i, "clearRoutes")
    \/ /\ ~Present(i) /\ Works
       /\ Goto(i, "clearRoutes")
       /\ UNCHANGED rows

InsertRoutes(i) ==
    /\ At(i, "insertRoutes") /\ Insert(i, "routes", "insertStops")
    /\ UNCHANGED <<feedRow, versions, objects, task, todo, base>>
InsertStops(i) ==
    /\ At(i, "insertStops") /\ Insert(i, "stops", "finalize")
    /\ UNCHANGED <<feedRow, versions, objects, task, todo, base>>

\* Ready and the counts in one statement; a failed answer may hide that it
\* was carried out.
MadeReady(i) == /\ status' = [status EXCEPT ![i] = "ready"]
                /\ paths' = IF task[i].path = i THEN paths \cup {i} ELSE paths \ {i}
                /\ UNCHANGED flagged

Finalize(i) ==
    /\ At(i, "finalize")
    /\ \/ Present(i) /\ Works /\ MadeReady(i) /\ Goto(i, "readIncoming")
       \/ Present(i) /\ Fails /\ (MadeReady(i) \/ UNCHANGED versions) /\ Goto(i, "clearRoutes")
       \/ ~Present(i) /\ Works /\ UNCHANGED versions /\ Goto(i, "clearRoutes")
    /\ UNCHANGED <<feedRow, rows, objects, task, todo, base>>

-----------------------------------------------------------------------------
(***************************************************************************)
(* promoteGtfsFeedVersion.  Whatever becomes of it, the version is kept.   *)
(***************************************************************************)
\* A refresh may have been sent with adoptDespiteCollapse.
ReadIncoming(i) ==
    /\ At(i, "readIncoming")
    /\ \/ status[i] # "ready" /\ Works /\ Goto(i, "done")
       \/ status[i] = "ready" /\ Works /\ Goto(i, "compare")
       \/ status[i] = "ready" /\ i # Creator /\ Works /\ Goto(i, "promote")
       \/ Fails /\ Goto(i, "done")
    /\ UNCHANGED <<feedRow, versions, rows, objects, task, todo, base>>

\* assessFeedVersionCollapse: a fifth less than the version in use.
\* Variant: a feed that halved is let through.
HalvedOnly(i, v) == 2 * Size[i] < Size[v]

Collapsed(i, v) == 5 * Size[i] < 4 * Size[v]

Compare(i) ==
    /\ At(i, "compare")
    /\ \/ /\ Works
          /\ base' = [base EXCEPT ![i] = pointer]
          /\ Goto(i, IF \E v \in flagged : Collapsed(i, v) THEN "done" ELSE "promote")
       \/ Fails /\ Goto(i, "done") /\ UNCHANGED base
    /\ UNCHANGED <<feedRow, versions, rows, objects, task, todo>>

\* promote_gtfs_feed_version, one transaction.
\* Variant: the outgoing version keeps its flag.
MovePointerOnly(i) ==
    /\ flagged' = flagged \cup {i} /\ UNCHANGED <<status, paths>>
    /\ feed' = "ready" /\ pointer' = i

MovePointer(i) ==
    /\ flagged' = {i} /\ UNCHANGED <<status, paths>>
    /\ feed' = "ready" /\ pointer' = i

\* Variant: an ingest whose promotion failed is cleaned up.
PromoteOrRefuse(i) ==
    /\ At(i, "promote")
    /\ \/ status[i] = "ready" /\ Works /\ MovePointer(i) /\ Goto(i, "done")
       \/ status[i] # "ready" /\ Works /\ Goto(i, "clearRoutes") /\ UNCHANGED <<feedRow, versions>>
       \/ /\ Fails /\ Goto(i, "clearRoutes")
          /\ ((status[i] = "ready" /\ MovePointer(i)) \/ UNCHANGED <<feedRow, versions>>)
    /\ UNCHANGED <<rows, objects, task, todo, base>>

Promote(i) ==
    /\ At(i, "promote")
    /\ \/ status[i] = "ready" /\ Works /\ MovePointer(i)
       \/ status[i] # "ready" /\ Works /\ UNCHANGED <<feedRow, versions>>
       \/ Fails /\ ((status[i] = "ready" /\ MovePointer(i)) \/ UNCHANGED <<feedRow, versions>>)
    /\ base' = [base EXCEPT ![i] = None]
    /\ Goto(i, "done")
    /\ UNCHANGED <<rows, objects, task, todo>>

-----------------------------------------------------------------------------
(***************************************************************************)
(* failGtfsFeedVersion, called by an ingest for its own version and by the *)
(* sweep for an abandoned one.                                             *)
(***************************************************************************)
Resting(p) == IF p \in Sweeps THEN "reap" ELSE "done"

Clear(p, t, next) ==
    /\ \/ Works /\ rows' = [rows EXCEPT ![task[p].version][t] = "none"] /\ Goto(p, next)
       \/ /\ faults < MaxFailures /\ faults' = faults + 1
          /\ uncleared' = uncleared \cup {task[p].version}
          /\ UNCHANGED rows /\ Goto(p, "removeObject")
    /\ UNCHANGED <<feedRow, versions, objects, task, todo, base>>

\* Variant: the second table is forgotten.
ClearRoutesOnly(p) == At(p, "clearRoutes") /\ Clear(p, "routes", "removeObject")

ClearRoutes(p) == At(p, "clearRoutes") /\ Clear(p, "routes", "clearStops")
ClearStops(p) == At(p, "clearStops") /\ Clear(p, "stops", "removeObject")

RemoveObject(p) ==
    /\ At(p, "removeObject")
    /\ \/ Works /\ objects' = objects \ {task[p].path}
       \/ Fails /\ task[p].path # None /\ UNCHANGED objects
    /\ Goto(p, "markFailed")
    /\ UNCHANGED <<feedRow, versions, rows, task, todo, base>>

\* The feed is known to a sweep, and to the ingest that registered it.
KnowsFeed(p) == p \in Sweeps \/ p = Creator

MarkFailed(p) ==
    LET v == task[p].version IN
    /\ At(p, "markFailed")
    /\ \/ Works /\ SetStatus(v, "failed")
       \/ Fails /\ UNCHANGED versions
    /\ Goto(p, IF KnowsFeed(p) /\ Present(v) THEN "readPointer" ELSE Resting(p))
    /\ UNCHANGED <<feedRow, rows, objects, task, todo, base>>

ReadPointer(p) ==
    /\ At(p, "readPointer")
    /\ \/ Works /\ Goto(p, IF feed # "absent" /\ pointer = None
                           THEN "markFeed" ELSE Resting(p))
       \/ Fails /\ Goto(p, Resting(p))
    /\ UNCHANGED <<feedRow, versions, rows, objects, task, todo, base>>

\* Variant: a word the feed's vocabulary does not have.
MarkFeedRefused(p) ==
    /\ At(p, "markFeed")
    /\ Works /\ UNCHANGED pointer
    /\ feed' = IF feed = "absent" THEN feed ELSE "refused"
    /\ Goto(p, Resting(p))
    /\ UNCHANGED <<versions, rows, objects, task, todo, base>>

MarkFeed(p) ==
    /\ At(p, "markFeed")
    /\ \/ /\ Works /\ UNCHANGED pointer
          /\ feed' = IF feed = "absent" THEN feed ELSE "failed"
       \/ Fails /\ UNCHANGED feedRow
    /\ Goto(p, Resting(p))
    /\ UNCHANGED <<versions, rows, objects, task, todo, base>>

-----------------------------------------------------------------------------
(***************************************************************************)
(* reapAbandonedGtfsIngests.  Its cutoff is three times what the platform  *)
(* lets an ingest run: a version it finds belongs to a process that ended. *)
(***************************************************************************)
Known(v) == [version |-> v, path |-> IF v \in paths THEN v ELSE None]

\* Variant: a version that reached its parse is left alone.
AbandonedEarly(v) == status[v] \in {"pending", "fetching"} /\ pc[v] \in {"dead", "done"}

Abandoned(v) == status[v] \in NonTerminal /\ pc[v] \in {"dead", "done"}

Scan(k) ==
    /\ At(k, "idle")
    /\ todo' = [todo EXCEPT ![k] = {Known(v) : v \in {u \in Ingests : Abandoned(u)}}]
    /\ Goto(k, "reap")
    /\ UNCHANGED <<feedRow, versions, rows, objects, task, base, uncleared, faults>>

ReapNext(k, next) ==
    /\ At(k, "reap")
    /\ todo' = [todo EXCEPT ![k] = @ \ {next}]
    /\ task' = [task EXCEPT ![k] = next]
    /\ Goto(k, "clearRoutes")
    /\ UNCHANGED <<feedRow, versions, rows, objects, base, uncleared, faults>>

SweepDone(k) ==
    /\ At(k, "reap") /\ todo[k] = {}
    /\ Goto(k, "idle")
    /\ task' = [task EXCEPT ![k] = NoTask]
    /\ UNCHANGED <<feedRow, versions, rows, objects, todo, base, uncleared, faults>>

-----------------------------------------------------------------------------
(***************************************************************************)
(* DELETE of the feed: objects first, then the row and all that hangs on it. *)
(***************************************************************************)
ListObjects(d) ==
    /\ At(d, "idle") /\ feed # "absent"
    /\ todo' = [todo EXCEPT ![d] = {Known(v) : v \in paths}]
    /\ Goto(d, "removeObjects")
    /\ UNCHANGED <<feedRow, versions, rows, objects, task, base, uncleared, faults>>

RemoveObjects(d) ==
    /\ At(d, "removeObjects")
    /\ \/ Works /\ objects' = objects \ {known.path : known \in todo[d]}
       \/ Fails /\ UNCHANGED objects
    /\ Goto(d, "deleteFeed")
    /\ UNCHANGED <<feedRow, versions, rows, task, todo, base>>

DeleteFeed(d) ==
    /\ At(d, "deleteFeed")
    /\ \/ /\ Works
          /\ feed' = "absent" /\ pointer' = None
          /\ status' = [v \in Ingests |-> "absent"]
          /\ flagged' = {} /\ paths' = {}
          /\ rows' = [v \in Ingests |-> Empty]
       \/ Fails /\ UNCHANGED <<feedRow, versions, rows>>
    /\ Goto(d, "done")
    /\ UNCHANGED <<objects, task, todo, base>>

\* The process is killed, by a crash or at maxDuration.
Kill(p) ==
    /\ pc[p] \notin {"begin", "idle", "done", "dead"}
    /\ faults < MaxFaults /\ faults' = faults + 1
    /\ Goto(p, IF p \in Sweeps THEN "idle" ELSE "dead")
    /\ todo' = IF p \in Sweeps THEN [todo EXCEPT ![p] = {}] ELSE todo
    /\ task' = IF p \in Sweeps THEN [task EXCEPT ![p] = NoTask] ELSE task
    /\ UNCHANGED <<feedRow, versions, rows, objects, base, uncleared>>

-----------------------------------------------------------------------------
CloseStep(p) == \/ ClearRoutes(p) \/ ClearStops(p) \/ RemoveObject(p)
                \/ MarkFailed(p) \/ ReadPointer(p) \/ MarkFeed(p)

IngestStep(i) ==
    \/ InsertVersion(i) \/ MarkFetching(i) \/ RefuseFeed(i) \/ Store(i) \/ RecordObject(i)
    \/ MarkParsing(i) \/ InsertRoutes(i) \/ InsertStops(i) \/ Finalize(i)
    \/ ReadIncoming(i) \/ Compare(i) \/ Promote(i) \/ CloseStep(i)

SweepStep(k) == Scan(k) \/ (\E next \in todo[k] : ReapNext(k, next)) \/ SweepDone(k) \/ CloseStep(k)
DeleteStep(d) == ListObjects(d) \/ RemoveObjects(d) \/ DeleteFeed(d)

Next == \/ \E i \in Ingests : BeginFeed(i) \/ BeginRefresh(i) \/ IngestStep(i)
        \/ \E k \in Sweeps : SweepStep(k)
        \/ \E d \in Deletes : DeleteStep(d)
        \/ \E p \in Procs : Kill(p)

Spec == Init /\ [][Next]_vars

\* A request that was begun goes on unless it is killed; cron comes again.
Fairness == /\ \A i \in Ingests : WF_vars(IngestStep(i))
            /\ \A k \in Sweeps : WF_vars(SweepStep(k))
FairSpec == Spec /\ Fairness

-----------------------------------------------------------------------------
(***************************************************************************)
(* Properties.                                                             *)
(***************************************************************************)

Steps == {"begin", "idle", "done", "dead", "insertVersion", "markFetching", "store",
          "recordObject", "markParsing", "insertRoutes", "insertStops", "finalize",
          "readIncoming", "compare", "promote", "clearRoutes", "clearStops", "removeObject",
          "markFailed", "readPointer", "markFeed", "reap", "removeObjects", "deleteFeed"}

\* Every variable has its type.
TypeOK ==
    /\ feed \in {"absent", "pending", "ready", "failed"} /\ pointer \in Ingests \cup {None}
    /\ status \in [Ingests -> NonTerminal \cup {"absent", "ready", "failed"}]
    /\ flagged \subseteq Ingests /\ paths \subseteq Ingests
    /\ rows \in [Ingests -> [Tables -> {"none", "some", "all"}]]
    /\ objects \subseteq Ingests
    /\ pc \in [Procs -> Steps]
    /\ task \in [Closers -> [version : Ingests \cup {None}, path : Ingests \cup {None}]]
    /\ todo \in [Sweeps \cup Deletes -> SUBSET [version : Ingests, path : Ingests \cup {None}]]
    /\ base \in [Ingests -> Ingests \cup {None}]
    /\ uncleared \subseteq Ingests
    /\ faults \in 0..MaxFaults

\* Whoever reads the version in use (the map, the corridor score, the model's
\* hand-off) finds a ready one with all of its rows, and the feed's pointer
\* agrees with the version's flag: no refused, killed, reaped or half-answered
\* ingest shows through.
CurrentIsComplete ==
    /\ flagged = {pointer} \ {None}
    /\ \A v \in flagged : status[v] = "ready" /\ rows[v] = Filled

\* The same as a promise to the reader: the feed goes from one complete version
\* to another in one step.
RowsInUse == IF pointer = None THEN None ELSE rows[pointer]
InUseSpec == INSTANCE FeedInUse WITH Versions <- Ingests, Complete <- Filled,
                                     inUse <- pointer, shown <- RowsInUse
ImplementsFeedInUse == InUseSpec!Spec

\* "leave nothing half-written behind it": an ingest that says failed has no
\* derived rows, wherever the process that closed it was killed, unless the
\* deletes themselves were refused.
ClosedIngestIsEmpty == \A v \in Ingests : status[v] = "failed" => rows[v] = Empty \/ v \in uncleared

\* "The object goes first, then the row that points at it": the version in use,
\* whose bytes the model's hand-off takes, never names bytes that are not in the
\* bucket, until somebody removes the feed.
PathHasObject ==
    (\A d \in Deletes : At(d, "idle"))
        => \A v \in flagged : v \in paths => v \in objects

\* A refetch that lost a fifth of its routes does not replace the version it
\* was compared with; only a person who asked for it skips the comparison.
CollapseIsWithheld ==
    [][\A i \in Ingests : /\ pointer' = i /\ pointer \notin {i, None}
                          /\ base[i] = pointer
                         => 5 * Size[i] >= 4 * Size[pointer]]_vars

\* No ingest stays on the planner's screen as fetching or parsing for ever,
\* wherever its process or the sweep was killed.
EveryIngestResolves ==
    \A v \in Ingests : status[v] \in NonTerminal ~> status[v] \notin NonTerminal

\* What the test gtfs-feed-status-mirrors-its-current-version says: the card's
\* status is that of the version in use.
StatusMirrorsCurrent == pointer # None => feed = status[pointer]
=============================================================================
