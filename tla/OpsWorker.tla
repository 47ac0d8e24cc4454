------------------------------ MODULE OpsWorker ------------------------------
(***************************************************************************)
(* OpsWorker and OpsSnapshotCache: the background loop, while the requests *)
(* of OpsService and OpsArchive run.  A tick closes the records that have  *)
(* been active without a write for seven days, each through a transition   *)
(* of its own that names the revision it saw, then refreshes the cache and *)
(* prunes the audit trail:                                                 *)
(*                                                                         *)
(*   idle -> scan -> next <-> (move -> update -> audit)                    *)
(*                    |                                                    *)
(*                    +--> list -> refresh -> prune -> idle                *)
(***************************************************************************)
EXTENDS OpsArchive

CONSTANTS
  Keep,         \* events that a prune leaves in the trail (2000 in tick)
  MaxTimeouts   \* bound: deadlines that the worker's calls miss

ASSUME WorkerAssumption == Keep \in Nat /\ MaxTimeouts \in Nat

VARIABLES
  old,        \* live records whose UpdatedAt is seven days ago or more
  wpc,        \* what the worker does next
  due,        \* record id -> the copy to close, of the tick's first List
  todo,       \* those of them that the loop has not come to yet
  target,     \* the record of the transition under way
  wread,      \* the transition's copy `record`
  cut,        \* the tick's five seconds are over
  missed,     \* records whose transition's three seconds ran out
  timeouts,   \* how many deadlines were missed
  latest,     \* the tick's second List
  cache,      \* OpsSnapshotCache: record id -> the record in the snapshot
  fresh       \* the cache was refreshed, and within its TTL

loopVars == <<wpc, due, todo, target, wread, cut, missed, timeouts, latest>>
cacheVars == <<cache, fresh>>
workerVars == <<old, loopVars, cacheVars>>
everyVar == <<allVars, workerVars>>

NoRecords == [i \in RawId |-> Absent]

-----------------------------------------------------------------------------
(***************************************************************************)
(* Time.                                                                   *)
(***************************************************************************)

\* Put and Update stamp the record they store; a deleted record has no stamp.
Stamps == old' = old \ {i \in RawId : items'[i] # items[i]}

\* Seven days after its last write a record is old.  No request and no tick
\* lives that long, so a record that turns old while one runs was written
\* before it began and might as well be old from the start.
Ages(i) ==
  /\ Stored(i) /\ i \notin old
  /\ wpc = "idle"
  /\ \A r \in Request : pc[r] \in {"put", "get", "done"}
  /\ \A a \in Archiver : apc[a] \in {"get", "done"}
  /\ old' = old \cup {i}
  /\ UNCHANGED <<allVars, loopVars, cacheVars>>

\* The last refresh is further back than the TTL.
CacheExpires ==
  /\ fresh
  /\ fresh' = FALSE
  /\ UNCHANGED <<allVars, old, loopVars, cache>>

\* The tick's context is done; every later call that looks at it fails.
TickExpires ==
  /\ wpc \in {"scan", "next", "update", "list"} /\ ~cut
  /\ timeouts < MaxTimeouts
  /\ cut' = TRUE /\ timeouts' = timeouts + 1
  /\ UNCHANGED <<allVars, old, wpc, due, todo, target, wread, missed, latest, cacheVars>>

-----------------------------------------------------------------------------
(***************************************************************************)
(* The tick.                                                               *)
(***************************************************************************)

TickBegins ==
  /\ wpc = "idle"
  /\ wpc' = "scan"
  /\ UNCHANGED <<allVars, old, due, todo, target, wread, cut, missed, timeouts,
                 latest, cacheVars>>

Stalled(i) == Stored(i) /\ items[i].status = "active" /\ i \in old

\* Mutant of Due: records that the last snapshot has already are not new.
MutantDueIfChanged(i) == Stalled(i) /\ cache[i] # items[i]

\* closeStaleActive picks the records to close by the List it starts with.
Due(i) == Stalled(i)

WorkerScan ==
  /\ wpc = "scan"
  /\ IF cut
       THEN wpc' = "list" /\ UNCHANGED <<due, todo>>
       ELSE /\ wpc' = "next"
            /\ todo' = {i \in RawId : Due(i)}
            /\ due' = [i \in RawId |-> IF Due(i) THEN items[i] ELSE Absent]
  /\ UNCHANGED <<allVars, old, target, wread, cut, missed, timeouts, latest, cacheVars>>

\* The loop is done, or finds the tick's context done.
WorkerLeavesLoop ==
  /\ wpc = "next" /\ (cut \/ todo = {})
  /\ wpc' = "list" /\ todo' = {}
  /\ UNCHANGED <<allVars, old, due, target, wread, cut, missed, timeouts, latest, cacheVars>>

\* Transition reads the next record and compares its revision with the listed
\* one.  The loop goes by id; here the order is open.
WorkerGet ==
  /\ wpc = "next" /\ ~cut
  /\ \E i \in todo :
       /\ todo' = todo \ {i}
       /\ IF CanUpdate(i, due[i].revision)
            THEN wpc' = "move" /\ target' = i /\ wread' = items[i]
            ELSE UNCHANGED <<wpc, target, wread>>
  /\ UNCHANGED <<allVars, old, due, cut, missed, timeouts, latest, cacheVars>>

\* Transition returns; the loop ignores what.
TransitionEnds == wpc' = "next" /\ target' = Absent /\ wread' = Absent

WorkerMove ==
  /\ wpc = "move"
  /\ IF CanMove(wread.status, "closed")
       THEN /\ wpc' = "update" /\ UNCHANGED <<target, wread>>
            /\ history' = IF wread.status = "closed" THEN history
                          ELSE Append(history, [from |-> wread.status, to |-> "closed"])
       ELSE TransitionEnds /\ UNCHANGED history
  /\ UNCHANGED <<items, events, notes, requestVars, archiveVars, old, due, todo,
                 cut, missed, timeouts, latest, cacheVars>>

WorkerWrites ==
  /\ Update(target, [wread EXCEPT !.status = "closed"])
  /\ wpc' = "audit" /\ UNCHANGED <<target, wread>>

\* Mutant of WorkerUpdate: the worker names no revision when it writes.
MutantWorkerUnguarded ==
  /\ wpc = "update"
  /\ IF ~cut /\ CanUpdate(target, 0) THEN WorkerWrites
     ELSE TransitionEnds /\ UNCHANGED items
  /\ Stamps
  /\ UNCHANGED <<history, events, notes, requestVars, archiveVars, due, todo, cut,
                 missed, timeouts, latest, cacheVars>>

WorkerUpdate ==
  /\ wpc = "update"
  /\ IF ~cut /\ CanUpdate(target, due[target].revision)
       THEN WorkerWrites
       ELSE TransitionEnds /\ UNCHANGED items
  /\ Stamps
  /\ UNCHANGED <<history, events, notes, requestVars, archiveVars, due, todo, cut,
                 missed, timeouts, latest, cacheVars>>

\* The transition's own three seconds are over, the tick's five are not.
WorkerTransitionExpires ==
  /\ timeouts < MaxTimeouts /\ timeouts' = timeouts + 1
  /\ \/ /\ wpc = "next" /\ ~cut
        /\ \E i \in todo : todo' = todo \ {i} /\ missed' = missed \cup {i}
     \/ /\ wpc = "update" /\ missed' = missed \cup {target} /\ UNCHANGED todo
  /\ TransitionEnds
  /\ UNCHANGED <<allVars, old, due, cut, latest, cacheVars>>

WorkerAudit ==
  /\ wpc = "audit"
  /\ events' = Append(events, [by |-> "worker", record |-> target,
                               type |-> "status_changed"])
  /\ TransitionEnds
  /\ UNCHANGED <<items, history, notes, requestVars, archiveVars, old, due, todo,
                 cut, missed, timeouts, latest, cacheVars>>

\* Mutant of WorkerList: what the tick listed first is not listed again.
MutantListReused ==
  /\ wpc = "list"
  /\ IF cut THEN wpc' = "prune" /\ UNCHANGED latest
     ELSE /\ wpc' = "refresh"
          /\ latest' = [i \in RawId |-> IF due[i] # Absent THEN due[i] ELSE items[i]]
  /\ UNCHANGED <<allVars, old, due, todo, target, wread, cut, missed, timeouts, cacheVars>>

\* refreshCache lists the store again; a tick out of time leaves the cache.
WorkerList ==
  /\ wpc = "list"
  /\ IF cut THEN wpc' = "prune" /\ UNCHANGED latest
            ELSE wpc' = "refresh" /\ latest' = items
  /\ UNCHANGED <<allVars, old, due, todo, target, wread, cut, missed, timeouts, cacheVars>>

\* Mutant of WorkerRefresh: a snapshot that has not changed is not refreshed.
MutantRefreshIfChanged ==
  /\ wpc = "refresh"
  /\ wpc' = "prune"
  /\ cache' = latest /\ fresh' = (fresh \/ cache # latest)
  /\ latest' = NoRecords
  /\ UNCHANGED <<allVars, old, due, todo, target, wread, cut, missed, timeouts>>

WorkerRefresh ==
  /\ wpc = "refresh"
  /\ wpc' = "prune"
  /\ cache' = latest /\ fresh' = TRUE
  /\ latest' = NoRecords
  /\ UNCHANGED <<allVars, old, due, todo, target, wread, cut, missed, timeouts>>

\* Mutant of Pruned: the trail is cut only when it has doubled.
MutantPrunedLate(trail) ==
  IF Len(trail) <= 2 * Keep THEN trail
  ELSE SubSeq(trail, Len(trail) - Keep + 1, Len(trail))

\* OpsAudit.Prune: the newest events stay.
Pruned(trail) ==
  IF Len(trail) <= Keep THEN trail
  ELSE SubSeq(trail, Len(trail) - Keep + 1, Len(trail))

\* A tick prunes also when its time is over; then its local state is gone.
WorkerPrune ==
  /\ wpc = "prune"
  /\ events' = Pruned(events)
  /\ wpc' = "idle" /\ due' = NoRecords /\ cut' = FALSE /\ missed' = {}
  /\ UNCHANGED <<items, history, notes, requestVars, archiveVars, old, todo, target,
                 wread, timeouts, latest, cacheVars>>

-----------------------------------------------------------------------------
(***************************************************************************)
(* What readers are given.                                                 *)
(***************************************************************************)

\* OpsSnapshotCache.Get: copies of the cached records, while they are fresh.
Seen(i) == IF fresh THEN cache[i] ELSE Absent

\* OpsDashboard.Build answers not_found from a cache that is not fresh.
DashboardAnswers == fresh

-----------------------------------------------------------------------------

WorkerInit ==
  /\ ArchiveInit
  /\ old \in SUBSET {i \in RawId : Stored(i)}
  /\ wpc = "idle"
  /\ due = NoRecords /\ todo = {}
  /\ target = Absent /\ wread = Absent
  /\ cut = FALSE /\ missed = {} /\ timeouts = 0
  /\ latest = NoRecords
  /\ cache = NoRecords /\ fresh = FALSE

Tick ==
  \/ TickBegins \/ WorkerScan \/ WorkerLeavesLoop \/ WorkerGet \/ WorkerMove
  \/ WorkerUpdate \/ WorkerTransitionExpires \/ WorkerAudit
  \/ WorkerList \/ WorkerRefresh \/ WorkerPrune

OthersStep ==
  /\ \/ \E r \in Request : Handle(r) /\ UNCHANGED archiveVars
     \/ \E a \in Archiver : Archive(a)
  /\ Stamps
  /\ UNCHANGED <<loopVars, cacheVars>>

WorkerNext ==
  \/ Tick \/ TickExpires \/ CacheExpires
  \/ \E i \in RawId : Ages(i)
  \/ OthersStep

WorkerSpec == WorkerInit /\ [][WorkerNext]_everyVar

\* The ticker ticks, and the worker's goroutine runs; nothing is assumed of
\* the requests or of time.
WorkerFairSpec == WorkerSpec /\ WF_everyVar(Tick)

-----------------------------------------------------------------------------
(***************************************************************************)
(* Properties.                                                             *)
(***************************************************************************)

WorkerTypeOK ==
  /\ ArchiveTypeOK
  /\ old \in SUBSET {i \in RawId : Stored(i)}
  /\ wpc \in {"idle", "scan", "next", "move", "update", "audit", "list",
              "refresh", "prune"}
  /\ {due, latest, cache} \subseteq [RawId -> Record \cup {Absent}]
  /\ todo \subseteq {i \in RawId : due[i] # Absent}
  /\ target \in RawId \cup {Absent}
  /\ wread \in Record \cup {Absent}
  /\ {cut, fresh} \subseteq BOOLEAN
  /\ missed \subseteq RawId
  /\ timeouts \in 0..MaxTimeouts

\* The worker "closes stale active records" (ops_worker.go:10): at the moment
\* it writes, the record is still active and has not been written for seven
\* days, whatever ran since the tick listed it.  Only for an id that has been
\* archived, where revisions start at 1 again, can another record be taken for
\* the one that was listed.
WorkerClosesOnlyStalled ==
  [][wpc = "update" /\ wpc' = "audit" =>
       Stalled(target) \/ closed[target] # Absent]_everyVar

\* "The next snapshot reflects the updated statuses instead of the stalled
\* ones" (ops_worker.go:70-71): every record that the tick found stalled has
\* been written since, by the worker or by whoever beat it, when the snapshot
\* is taken; unless a deadline was missed or the id archived.
SnapshotShowsNoStalled ==
  wpc = "refresh" /\ ~cut =>
    \A i \in {j \in RawId : due[j] # Absent /\ closed[j] = Absent} \ missed :
      latest[i].revision > due[i].revision

\* The snapshot that readers see is a past of the store: as long as its id has
\* not been archived, a record in it is never ahead of the live one, and with
\* the same revision it is the live one.
CacheIsPast ==
  \A i \in RawId :
    Seen(i) # Absent /\ closed[i] = Absent =>
      /\ Stored(i)
      /\ Seen(i).revision <= items[i].revision
      /\ Seen(i).revision = items[i].revision => Seen(i) = items[i]

\* How many steps a tick has left at most, once it has listed the store: up to
\* four for each record that it has yet to come to, and the ones that end it.
TickLeft ==
  LET rank == [next |-> 4, move |-> 7, update |-> 6, audit |-> 5, list |-> 3,
               refresh |-> 2, prune |-> 1, idle |-> 0]
  IN 4 * Cardinality(todo) + rank[wpc]

\* A tick comes to its end: it comes to no record twice, also when a transition
\* fails or misses its deadline, and nobody else gives it more to do.
TicksRunOut ==
  [][wpc \notin {"idle", "scan"} =>
       TickLeft' <= TickLeft /\ (Tick => TickLeft' < TickLeft)]_everyVar

\* A stalled record does not stay stalled: a tick that loses its race to a
\* request or runs out of time is followed by one that does not.
StalledIsClosed == \A i \in RawId : Stalled(i) ~> ~Stalled(i)

\* The dashboard, which has nothing but the cache, answers again and again: the
\* worker refreshes it also when nothing has changed.
DashboardAnswersAgain == []<>DashboardAnswers

\* The audit trail "stays bounded" (ops_worker.go:11, ops_audit.go:62): however
\* long it has grown, it comes back to Keep events.
TrailIsPruned == []<>(Len(events) <= Keep)

=============================================================================
