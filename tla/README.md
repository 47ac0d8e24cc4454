# museum-conservation-service: specifications and proofs

TLA+ models of the Go service in this repository (one package, in-memory), the
TLC runs that check them on small instances, and TLAPS proofs of the results
that matter most for every instance.

## The system

`main.go` builds an `OpsApp` (`ops_app.go`), starts the worker and the
heartbeat, and serves HTTP until a signal arrives. Every request runs in a
goroutine of its own; shared state lives in components that each have a mutex.
A component's method is atomic; a handler that calls several is not.

| component | state | operations | what makes it correct |
|---|---|---|---|
| OpsStore (`ops_store.go`) | map id -> record | Get, List, Put, Update (compare-and-swap on the revision), Delete | no write lost or counted twice |
| OpsStateMachine (`ops_state.go`) | history of granted moves | Move | moves follow the transition table |
| OpsService (`ops_service.go`) | none of its own | Create, Transition, AddNote; Get, Search, Snapshot | the interleaved handlers behave like atomic changes; what they answer matches what they did |
| OpsAudit, OpsNoteStore | events; notes per record | Add, Prune; Add | the trail explains the records |
| OpsArchive (`ops_archive.go`) | map id -> archived record | Archive, Lookup, Prune | no record is lost on its way; only closed ones go |
| OpsBatchProcessor, OpsManifestRegistry | pool of work units; manifests | Apply; Claim, Progress, Release | units and manifests balance on every path; only what was asked for is moved |
| OpsSessionManager (`ops_sessions.go`) | sessions, open session per record | Open, Complete, Abort, BulkComplete | one open session per record; each completed once |
| OpsWorker (`ops_worker.go`) | - | tick: close stale records, refresh cache, prune audit | closes only what is stale; state stays bounded |
| OpsSnapshotCache, OpsDashboard, OpsSearchIndex | snapshot; index | Refresh, Get; Build; Rebuild, Search | readers see one consistent, recent snapshot |
| OpsScheduleService, OpsAlertEngine | schedule items | Plan, Move; Evaluate | items follow the schedule's table |
| OpsMetrics (`ops_metrics.go`) | window of latencies; errors | Record, Snapshot | the counts say what was answered |
| OpsTelemetry | window of samples | Record | none: nothing reads it |
| OpsHeartbeat, main, runtime | goroutines, stop channels | Start, Stop, serve, shut down | the process ends, with everything stopped, and its exit status tells what was answered |
| Artifact API (`store.go`, `service.go`), page (`web/app.js`) | map id -> artifact; the table a tab shows | UpdateStatus, List; click, load | a page at rest shows what was confirmed to it |
| query (`ops_query.go`, `OpsService.Search`) | none | match, sort, cut a page | a walk through the pages misses and repeats nothing it need not |
| rules (`ops_rules_01.go` to `14.go`) | 112 constant rules | filter | a catalogue without gaps |
| export, errors, clock, config | none | pure functions | codes and bounds |

The behaviour that is hard to test is in the handlers that take several locks
one after the other (transition, note, archive, batch, worker tick), in the
fan-out of `BulkComplete`, in the pool of work units, in contexts that expire
between two steps, in answers that overtake each other on their way to the
page, and in starting and stopping. `PROJECT.json` lists each
hazard at its line.

## Modules

| module | models | state and steps |
|---|---|---|
| `OpsModel` | `ops_model.go`, `ops_state.go` | constants: requests, spellings of ids and their normal form; statuses, table, records |
| `OpsStore` | `ops_store.go` | `items`; one operator per method, each one step of its caller |
| `OpsHttp` | `ops_errors.go`, `opsWriteError` | constants: errors, their codes and HTTP statuses |
| `OpsService` | `ops_service.go`, `ops_audit.go`, `ops_notes.go` | `pc`, `call`, `read`, `answer` per request; `history`, `events`, `notes`; one action per locked call |
| `RecordLedger` | the promise of the records API | `ledger`; `Create` and `Change`, each in one step |
| `OpsArchive` | `ops_archive.go` | extends `OpsService` with archive requests: get, save, delete |
| `ArchiveLedger` | the promise of the records API and the archive together | extends `RecordLedger` with `archive`, and the ids that are `freed` or `overwritten`; `Save`, `Remove`, `Overwrite`, `Replace` |
| `OpsBatch` | `ops_batch.go`, `ops_manifest.go` | extends `OpsArchive` with batches: claim, then per item take, get, move, update, progress, give; then release |
| `OpsMetrics` | `ops_metrics.go` | `latency`, `errors`; `Record`, `Snapshot` |
| `OpsSessions` | `ops_sessions.go`, `ops_sessions_http.go`, the count in `createRecord` | extends `OpsMetrics`: sessions, `byRecord`, the goroutines and channel of each bulk completion, and the handlers that have yet to count |
| `SessionLedger` | the promise of the session manager | `held`; `Open`, `Complete`, `Abort`, each in one step and with the caller it is credited to |
| `OpsWorker` | `ops_worker.go`, `ops_cache.go`, `ops_audit.go` (`Prune`) | extends `OpsArchive` with the worker's loop: scan, per stale record get, move, update, audit, then list, refresh, prune; `old`, `cache`, `fresh` |
| `OpsLifecycle` | `main.go`, `runtime.go`, `ops_heartbeat.go`, loop and stop of `ops_worker.go` | `mpc` of main, the server, its connections and handlers, signals, both loops and their channels |
| `OpsQuery` | `ops_query.go`, `Search`, `sortOpsRecords`, `ops_export.go` | `live` records, and `walk`, a client that asks for page after page |
| `OpsSchedule` | `ops_schedule.go`, `ops_alert.go` | `planned`, `order`; `Plan`, `MoveItem`; `Evaluate` |
| `OpsRules` | `ops_rules_*.go`, the filter in `ops_router.go` | a client that browses the rules by severity |
| `Artifacts` | `store.go`, `service.go`, `validation.go`, `http.go`, `web/app.js` | `artifacts`; per browser tab the `fetches` under way, the `table` shown, and what was `confirmed` |
| `OpsApp` | `NewRouter` | composes `OpsQuery`, `OpsSchedule`, `OpsRules` and `Artifacts`, which share nothing |
| `OpsServiceProofs`, `OpsArchiveProofs`, `OpsBatchProofs`, `OpsWorkerProofs`, `OpsSessionsProofs`, `OpsLifecycleProofs` | - | theorems about the modules they are named after; the batch's and the worker's build on the archive's, and those on the service's |
| `OpsQueryProofs`, `OpsAppProofs` | - | theorems about `OpsApp`: of the searching client, and of alerts and the artifact page |
| `MCOpsService`, `MCOpsArchive`, `MCOpsBatch`, `MCOpsSessions`, `MCOpsWorker`, `MCOpsLifecycle`, `MCOpsApp` | - | constants and symmetry for TLC |

Conventions. A record keeps its status and revision; `origin`, the request
that created it, stands for everything its creator wrote (subject, owner,
priority, labels), because every later write copies these together. A status is
one of the four named ones or `"unknown"`, which stands for any other string: a
creation request's status is stored unchecked. A lookup in a map without the
key yields `Absent`. The id of a creation is normalised, the id in a path is
not, so `RawId` has two spellings of one id. Whether a body decodes
(`BodyRefused`), whether a creation passes the policy, and whether a note has
author and text, is left open. A context may
expire at every call that looks at it: `CreateExpires`, `TransitionExpires`,
`ArchiveExpires`, `BatchExpires`, `GoExpires`.

Time appears where something depends on it. In `OpsWorker` it is the set `old`
of records whose last write is seven days back; a write takes a record out of
it, and `Ages` puts one in while nothing that holds a copy is under way, since
no request and no tick lives for days. The cache's TTL runs out at any time
(`CacheExpires`); the tick's and the transition's deadlines pass at any of the
calls that look at them (`TickExpires`, `WorkerTransitionExpires`). In
`OpsQuery` it is a clock of instants, `Fraction` to the second, whose fraction
is written with two digits. Stamps are compared as texts, and RFC 3339 leaves
trailing zeros out: `FirstDigit`, `SecondDigit` and `TextAfter` say where that
puts an instant among those of its second, since the "Z" that then stands in a
digit's place sorts after every digit.

A substring search is modelled by what it finds: a subject is the set of words
in it. A rule's code is its number in the catalogue, and the fourteen files
follow one pattern, `RuleGroup`, which was compared with every one of the 112
literals.

The models start with any records at revision 1, which is what earlier
creations leave behind (and what `newOpsStore(seed)` accepts).
Operators named `Mutant...` are plausible bugs: substituted for the definition
that follows them, each makes the property that `PROJECT.json` pairs it with
fail. No specification uses them.

## Runs

| run | cfg | shows | result |
|---|---|---|---|
| service | `OpsService.cfg` | three requests of every kind: well-formed records, normalised keys, one write per named revision, copies never ahead of the store, revisions explained by the audit trail, HTTP statuses that tell what became of a request, guarded moves on the table | passes |
| service_unguarded | `OpsServiceUnguarded.cfg` | a transition without a revision makes a closed record active again | violated |
| archive | `OpsArchive.cfg` | requests and archive requests implement `ArchiveLedger`: among other things, a record leaves the live store only when a closed copy of it is in the archive; each archiving that succeeds ends one life of a record; an unclosed record goes only if an archive request has freed its id before or a transition without a revision has written over it; a guarded write replaces another creator's record only across an archiving | passes |
| archive_recreated | `OpsArchiveRecreated.cfg` | a record created anew is deleted without being closed | violated |
| batch | `OpsBatch.cfg` | units and manifests balance, every write is tallied, notes belong to a record that is live or archived, batches move only what they read, unless its id was archived and created anew | passes |
| ledger | `OpsLedger.cfg` | if every transition names a revision and nothing is archived, requests and batches implement `RecordLedger`; every request and batch is answered, although the batches share one unit and no client ever needs to go away | passes |
| sessions | `OpsSessions.cfg` | the manager implements `SessionLedger`: one open session per record, each ended once, and credited to the one goroutine that ended it; a bulk that ends without an error counts right; in whatever order bulks, opened sessions and a creation are counted, the metrics' requests are all that were counted, up to a full window, and until it drops one their errors are the bulks that completed nothing; no goroutine waits to send; every bulk is answered | passes |
| sessions_reply | `OpsSessionsReply.cfg` | a bulk that ends with an error under-reports | violated |
| metrics_window | `OpsMetricsWindow.cfg` | once the window has dropped a failed request its error still counts: two errors are shown among one request | violated |
| worker | `OpsWorker.cfg` | the worker closes only what is still stalled; the next snapshot shows none of what it found stalled; the snapshot is a past of the store; stalled records get closed, the dashboard answers again, the audit trail is cut back | passes |
| lifecycle | `OpsLifecycle.cfg` | both loops end before main does; the worker outlives the requests; exit status 0 means that a signal asked for it and all were answered; a signal or a failing listener ends the process | passes |
| app | `OpsApp.cfg` | a client that walks the pages is shown every match once if nothing is written meanwhile, as the work sheet has it, and misses an untouched record only if another match left the list or was moved within the second of the missed record's stamp; the alerts of an inspection only advance; browsing shows every rule; a page at rest that shows its last list shows every confirmed treatment | passes |

Each violated run is a disagreement of code and comment, quoted under
`findings` in `PROJECT.json`.

Bounds. Three requests are the smallest number with which two of them race
while a third has been there before; every race known in this code needs two.
Expected revisions 0 (none), 1 and 2 let a request name a revision that is
current, past or still to come; records reach revision 4. One record id with a
misspelling of it suffices, since no operation touches two records: the
misspelling is the record that is never found. Two archive requests and two
requests are enough for a record to be archived, created anew and archived, or
written to, while one of them holds its old copy. Two batches with up to two
items each meet on one record before, between and after each other's items,
with one request that may create it anew and one that may archive it: enough
for a batch to take the new record for the one it read. `UnitLimit` is 2 in
`batch` and 1 in `ledger`, where waiting matters. Two sessions, on one of two
records or on both, let a late completion meet a record's next session and fill
the manager; one bulk names an id twice and meets its own work the second time,
the other names it and another. With a creation and two opened sessions five
requests are counted, which overfills the `Window` of 3; in `metrics_window`
two bulks overfill one of 1. The worker, which ticks for ever, meets one
request and one archive request, with a trail cut to one event (`Keep`) and two
missed deadlines (`MaxTimeouts`): enough to lose a whole tick and one more
transition, or two. Lifecycle: two requests that may hang, two signals
(`MaxSignals`), of which one can be dropped or kill the process. Three records,
in pages of one or two, are written twice (`MaxWrites`) while a client walks;
page sizes 0 and 3 exercise the default and the cap. With `Digit` 2 a second
has four instants, and the records that were there before are stamped at the
first of them, so that a later stamp can have the lesser text. One tab that
loads three lists (`MaxLoads`) has two clicks under way at once, with three
updates of the artifacts (`MaxChanges`) by it and by others between its posts
and its lists. What is proved does not depend on these numbers. No state
constraint is used: the models are finite because every request ends and the
bounds named above are guards. `MCOpsApp` lets a behaviour exercise one of its
four parts, which share no variable.

Revisions start at 1 again for an id that was archived and created anew, so a
guarded write can then take one record for another. The worker's properties and
`ForeignWritesNeedArchiving` say what holds short of that, and name it as the
only exception.

Fairness. `BatchFairSpec` and `OpsSessions!FairSpec` give weak fairness to each
request's own steps: Go's scheduler runs every goroutine that can run, handlers
have no loops except over their own finite input, and no lock is held across a
step. A batch's own steps are `Proceeds`: what `Apply` does but `BatchExpires`,
since a client may wait for ever and its context never end. A batch that waits
for a unit is therefore answered only if a unit comes back to the pool; that
every holder of one can run is what the property checks. Requests and the
goroutines of a bulk may end with an expired context, but only where they could
go on as well, so no answer depends on one that expires. Archive requests wait
for nothing, and nobody for them.

`WorkerFairSpec` adds only that the worker's loop runs; the requests need not.
That deadlines are missed `MaxTimeouts` times at most is an assumption of
`StalledIsClosed`: a store so slow that every tick times out closes nothing.
`OpsLifecycle!FairSpec` has weak fairness for main, the heartbeat and the end
of a tick (its context ends it), and strong fairness for the worker's stop:
`select` picks at random among ready channels, so a tick that is ready each
time does not win for ever. Requests may hang; the shutdown deadline is
`MainGivesUp`.

Deadlock is checked in every run. A finished instance may idle (`Idle`,
`AllAnswered`); the session manager can always refuse another request.

## Proofs

Everything here holds for any set of requests, archive requests, batches,
bulks, ids, tabs, queries and inputs, under the assumptions named in the
modules (`OpsModel`: normalising twice changes nothing, `Absent` is no record,
"seed" no request; `OpsService`, `OpsBatch`, `OpsSessions`, `OpsLifecycle`,
`OpsQuery`: inputs have their types, limits are natural numbers). Results that
count need finite sets: `AuditExplains` and `WritesCounted` assume finitely
many requests, `OneSuccessPerLife` requests and archive requests,
`RequestsCounted` bulks and creations, `OpsBatch` batches, `TicksEnd` and
`OpsQuery` record ids.

**Service** (`OpsServiceProofs`, for `Spec`).

* `TypeCorrect`, `KeysNormal`;
* `ReadsSound`: the invariant `ReadsAreSound`;
* `GuardedMoves`: a write that names a revision moves the *stored* record along
  the table, although the table was asked about a copy;
* `OneCommitPerRevision`: `NoDoubleCommit`;
* `AuditExplains`: a record's revision is one more than the transitions that
  the trail names or is about to;
* `GuardedRefinement`: if 0 is not among the expected revisions, `OpsService`
  implements `RecordLedger`.

The inductive invariant is `IInv`: types, `StepsFitCalls` (what the step a
request is at says of its kind, its copy and the checks passed so far) and
`ReadsAreSound`. The last is needed because the write depends on a copy: from
"no copy is ahead of the store, and equal revisions mean equal records" and
the comparison in `Update` it follows that a guarded write starts from the
record as it is, which is both the table property and the refinement.
`ItemsStep` and `RecordsStay` say once what any step can do to the live
records; `OneCommitPerRevision` adds that a committed transition has moved its
record past the revision it named (`CommitsAdvance`), and revisions only grow.
`AuditExplains` follows one record: a step adds a pending transition, or turns
one into an event, or does neither, and the sum stays.

`AnswersTellEffects` (`AnswersMatchEffects`) follows what a request leaves
behind: `EventFits`, `NoteFits` and `RecordFits` say at which of its steps it
has which event, note and record. The HTTP mapping is part of it: no error that
the code can answer maps to a 2xx.

**Archive** (`OpsArchiveProofs`, for `ArchiveSpec`). `Leaving`,
`UnclosedByRace` and `ForeignWrites` are the three action properties of
`OpsArchive` that say which races can hit a record. With archiving the
service's `ReadsAreSound` is false: a freed id starts again at revision 1.
`AInv` has it as an alternative (`SoundUntilArchived`: no copy is ahead of its
record, unless the id has been freed), and in the same form that the record an
archive request has seen closed is closed (`ClosedUntilRace`, with the
transitions that name no revision as the second exception). `CopiesAreClosed`
has what each archive request knows at each step.

`OneSuccessPerLife` (`OneArchivePerLife`) balances each id by itself: a
creation adds a life and a live record, an archiving turns the live record into
a success, and a step that does neither changes no count.

`ArchiveRefinement` (`RefinesArchiveLedger`) has what all of these amount to:
requests and archive requests of every kind implement `ArchiveLedger`, in which
a record is created, changed, kept and removed in one step each. The mapping
takes `freed` and `overwritten` from what requests were answered. `Archive`
saves what it read earlier, so a `Save` may store a copy that lacks changes; it
promises that the copy is closed and a past of the live record, with the
contents its creator wrote (`PastOf`). The invariant for it, `CopiesArePast`,
says so of every copy that is kept or about to be; `PastStays` is why a write
does not disturb it, and the worker's proofs use the same lemma.

`LedgerPromises` is about the ledger alone: whoever implements it loses no id
that names a record (`NothingIsLost`), keeps ids normalised, and until an id is
freed keeps what was archived a past of what is live (`KeptIsPast`). These hold
of `OpsArchive` (`ArchiveKeepsPromises`), and of batches and the worker as soon
as their refinement is proved.

**Batches** (`OpsBatchProofs`, for `BatchSpec`). `UnitsConserved`,
`ManifestsCover`, `BatchMoves`, `NotesKnown`. `BInv` adds to `AInv` the types,
what a batch knows at each step of an item (`StepsFitOrders`), and
`BatchSound`, which is to a batch's copy what `SoundUntilArchived` is to a
request's. A batch also disturbs what the requests rely on: its write is one
that names a revision (`ApplyAInv`, `ApplySound`).

`WritesCounted` (`EveryWriteIsCounted`) compares sizes of sets: `Rewrites` has
an element for every revision that a write has made, `AppliedItems` one for
every item counted, and each step adds to both sides or to neither
(`WritesAgree`). `BatchRefinement`: where every transition names a revision,
requests and batches together implement `RecordLedger`. An item's write needs
nothing else, since `processOne` always names the revision it has read. The
theorem assumes that there is no archive request, as the run `ledger` does:
`RecordLedger` has no step that removes a record. `BatchArchiveRefinement`
assumes neither: with archive requests, and requests that name no revision,
batches implement `ArchiveLedger`, where an item's write is a `Change` as long
as its id is not freed. No run checks this larger composition against the
ledger; `BatchKeepsPromises` is what follows from it.

`RunningOut` (`BatchesRunOut`) is the part of `EveryoneAnswered` that needs no
fairness, so the run `ledger` checks the whole and the theorem its core: the
number of steps that a batch has left at most (`StepsLeft`) is a natural number
that each of its steps makes smaller, and when the pool is empty some batch
holds a unit, at a step that waits for nothing.

**Worker** (`OpsWorkerProofs`, for `WorkerSpec`). `WorkerTypeCorrect`,
`ClosesStalled` (`WorkerClosesOnlyStalled`), `SnapshotCurrent`
(`SnapshotShowsNoStalled`) and `CachePast` (`CacheIsPast`). The worker holds
copies for longer than anybody: the list it works off, the snapshot it makes
and the one it has cached. `WInv` has of each that it is not ahead of the store
until the id is freed (`Past`); that what was listed stays old as long as its
revision is the listed one (`DueStalled`), which with the comparison in
`Update` is why only stalled records are closed; and that every listed record
that the loop owes nothing any more has a greater revision than the list has
(`LoopAdvances`), as long as no deadline was missed. `TicksEnd` (`TicksRunOut`)
shows that a tick ends if the worker's goroutine runs: each of its steps leaves
fewer, and nobody adds to them. `WorkerArchiveRefinement` is to the worker what
`BatchArchiveRefinement` is to batches: what it closes was active when it wrote
(`WorkerClosesListed`), so its write is a `Change` of the ledger, unless the id
was freed; `WorkerKeepsPromises` follows.

**Sessions** (`OpsSessionsProofs`, for `OpsSessions!Spec`). `SessionsTyped`
(the capacity is never exceeded), `OneOpenSession`, and `ContractRefined`: with
all its goroutines and aborts the manager implements `SessionLedger`. `SInv`
adds `AnswersFitSteps`: a goroutine that was told "ok" names a completed
session. The refinement needs it, since the ledger credits an end to the
goroutine that made it: a session that is still open has no goroutine that
claims it, so the one that completes it is the only one. `SuccessCounted`
follows the results from the goroutines through the channel into the count
(`BulksFit`), `RequestsCounted` (`MetricsCountRequests`) the counts into the
metrics (`MetricsFit`). `NoSenderWaits` (`SendersNeverWait`) counts the
channel's results against the goroutines that have sent (`ChannelFits`):
`BulkComplete` may wait for all of them before it reads.

**Lifecycle** (`OpsLifecycleProofs`, for `OpsLifecycle!Spec`). `TypeCorrect`,
`LoopsEnd`, `WorkerOutlives`, `CleanExit`, for any number of requests and
signals. What has to be carried from the shutdown to the exit is `StopIsClean`:
past `serveHTTP` without an error, nothing listens, no request runs, and no
connection is open on which one could come.

**Queries** (`OpsQueryProofs`, for `AppSpec`). Sorted lists come first: an
order of a finite set has a list (`SortedExists`), and an element's place in it
is one more than the number of those before it (`ListedOnce`); `BeforeOrders`
shows that the order of records is one, although it compares texts. `WalkFits`
then says, without naming a list, what the client has seen: as long as nothing
is written, the records at the places up to the next page (`ShownSoFar`); and
of a record that was there when the walk began, that it has been shown, or is
not before the next page (`StillAhead`), unless a match left or was moved
within its second. `StoreFits` is the step that matters: a match that is
written comes first among those of its weight and later stamps come before
earlier ones, so the number of those before an untouched record only grows.
`QuietWalkListsAll` (`QuietWalkListsMatches`) and `WalkMisses`
(`WalkMissesOnlyAfterLeaving`) follow.

The clause `moved` of that property is needed: a match that is moved within the
second in which an unread record was stamped may get the lesser text, and falls
back behind it, so that the record moves up to a page that the client is past.
It takes two digits of the fraction for that to happen.

**Alerts and page** (`OpsAppProofs`, for `AppSpec`). `AlertsGoForward`
(`AlertsOnlyAdvance`): the plan lists every planned record once
(`ScheduleFits`), so a record's alerts are those of its status, and statuses go
forward. `ConfirmedShown` (`ConfirmedIsShown`): `PagesFit` follows a treatment
from the store into the answer of the post, the number the tab notes, the
answer of the last list that it asks for, and its rows. A list that is not the
last one says nothing, in whatever order answers arrive.

Only model-checked: liveness (`EveryoneAnswered`, `EveryBulkAnswered`,
`StalledIsClosed`, `DashboardAnswersAgain`, `TrailIsPruned`, `ProcessEnds`),
which is out of TLAPS's reach but for what `RunningOut`, `TicksEnd` and
`NoSenderWaits` say of it; and `BrowsingShowsEveryRule`, whose lists are
filtered and flattened by operators that the provers do not expand. The
catalogue has no parameters, so the run covers all of it.

Only proved, and checked by no run: `LeavingIsArchiving`, which
`RefinesArchiveLedger` implies; `BatchesRunOut` and `TicksRunOut`, whose
liveness properties are run; the types of archive requests, batches and the
worker (`ArchiveTypeOK`, `BatchTypeOK`, `WorkerTypeOK`).

## Plan

Done, in order of importance: service, archive, batch, sessions, service
proofs, worker, lifecycle, the parts without shared state (queries, schedule,
rules), the composition of requests, archive requests and batches, the HTTP
mapping, the metrics, the export and the artifact page.

What is left to model is small: the bodies of answers (a transition answers
with the revision before its own write), and pages so far out that their offset
overflows. Neither has a promise in the repository to check against.

Every safety property of the passing runs but `BrowsingShowsEveryRule` is
proved. Batches and the worker are each composed with requests and archive
requests, but not with each other: both refine the same ledger by the same
lemmas, and one module of all four would be too large for TLC.

## Not modelled

Read-only operations change nothing and appear only where their result is used
later. `OpsStateMachine.Reset`, `OpsAudit.Clear`, `OpsArchive.Lookup`,
`OpsArchive.Prune`, `OpsMetrics.Reset`, `OpsSearchIndex.Rebuild`,
`ExportCount`, `opsDeadline`, `opsBackoff` and `opsDelay` have no caller.

* The search index is empty in every run of the program, because nothing
  rebuilds it, although `ops_search.go:10` says that it is rebuilt whenever
  records change; `search_hits` of the dashboard is always 0.
* Telemetry: the heartbeat appends samples to a window that nothing reads.
* The average and the percentile of `OpsMetrics`.
* Configuration, the health answer, the static files and the middleware's
  headers keep no state.
* A finished inspection cannot be cancelled, although `ops_schedule.go:30-31`
  lets any state be: `scheduleCanMove` has what the code does. A creation that
  meets a taken id is answered 500, since `opsWriteError` has no case for the
  code "create", although `ops_http.go:63` speaks of the matching status:
  `opsWriteError` in `OpsHttp` has it so. Both are plain from one function.
* The dashboard refuses when the cache is stale, although `ops_cache.go:70-71`
  tells callers to recompute: the model has what the code does, and
  `DashboardAnswersAgain` that a later tick ends it.
* No property judges that a record created anew shows the notes of the archived
  one of its id, or that a page an older list reached last may show less
  than was confirmed: the models have both, and the repository promises nothing
  else.
* Memory is never persisted, so there is no recovery to model.
