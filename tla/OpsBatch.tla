------------------------------- MODULE OpsBatch -------------------------------
(***************************************************************************)
(* OpsBatchProcessor and OpsManifestRegistry: batches that move a list of  *)
(* records from one status to another, while the requests of OpsService    *)
(* and OpsArchive run.  Every item is processed under a work unit out of a *)
(* shared pool, and the whole batch under a manifest:                      *)
(*                                                                         *)
(*   claim -> { take -> get -> move -> update -> progress -> give }        *)
(*         -> release -> done                                              *)
(*                                                                         *)
(* An item that is skipped or fails goes straight to give; a failed one    *)
(* ends the batch.                                                         *)
(***************************************************************************)
EXTENDS OpsArchive

CONSTANTS
  Batch,       \* requests to POST /api/ops/batch/apply
  BatchOrder,  \* what they ask for: [owned, from, to, ids]
  UnitLimit    \* work units in the pool (8 in newOpsApp)

ASSUME BatchAssumption ==
  /\ IsFiniteSet(Batch) /\ Absent \notin Nat
  /\ BatchOrder \subseteq [owned : BOOLEAN, from : Status, to : Status,
                           ids : Seq(RawId)]
  /\ UnitLimit \in Nat \ {0}

VARIABLES
  manifests,  \* batch -> Done of its manifest, or Absent
  units,      \* work units in the pool
  bpc,        \* what each batch does next
  order,      \* what each batch asks for; never changes
  at,         \* position of the item each batch is at
  bread,      \* the local copy `record` of each batch
  outcome,    \* how the current item ended: "applied", "skipped" or a code
  tally,      \* OpsBatchResult: items applied and skipped
  banswer     \* the error code or "ok" that each batch ended with

batchVars == <<manifests, units, bpc, order, at, bread, outcome, tally, banswer>>
\* What no step of a batch touches.
foreignVars == <<events, notes, requestVars, archiveVars>>
systemVars == <<allVars, batchVars>>

-----------------------------------------------------------------------------

Item(b) == order[b].ids[at[b]]
Items(b) == Len(order[b].ids)

BatchGoto(b, step) == bpc' = [bpc EXCEPT ![b] = step]

\* processOne returns: the deferred release gives the unit back.
ItemEnds(b, how) == /\ outcome' = [outcome EXCEPT ![b] = how]
                    /\ BatchGoto(b, "give")

\* Apply has its result or its error: the deferred Release is next.
BatchEnds(b, code) == /\ banswer' = [banswer EXCEPT ![b] = code]
                      /\ BatchGoto(b, "release")

\* Claim wants an owner and a positive scope.  The batch id has a number of
\* its own, so the registry has no manifest under it.
BatchClaim(b) ==
  /\ bpc[b] = "claim"
  /\ IF order[b].owned /\ Items(b) > 0
       THEN /\ manifests' = [manifests EXCEPT ![b] = 0]
            /\ BatchGoto(b, "take") /\ UNCHANGED banswer
       ELSE /\ banswer' = [banswer EXCEPT ![b] = "invalid"]
            /\ BatchGoto(b, "done") /\ UNCHANGED manifests
  /\ UNCHANGED <<allVars, units, order, at, bread, outcome, tally>>

\* The loop's head: the next item waits for a unit, unless there is none left.
BatchTake(b) ==
  /\ bpc[b] = "take"
  /\ \/ /\ at[b] <= Items(b) /\ units > 0
        /\ units' = units - 1
        /\ BatchGoto(b, "get") /\ UNCHANGED banswer
     \/ /\ at[b] > Items(b)
        /\ BatchEnds(b, "ok") /\ UNCHANGED units
  /\ UNCHANGED <<allVars, manifests, order, at, bread, outcome, tally>>

BatchGet(b) ==
  /\ bpc[b] = "get"
  /\ IF Stored(Item(b)) /\ items[Item(b)].status = order[b].from
       THEN /\ bread' = [bread EXCEPT ![b] = items[Item(b)]]
            /\ BatchGoto(b, "move") /\ UNCHANGED outcome
       ELSE ItemEnds(b, "skipped") /\ UNCHANGED bread
  /\ UNCHANGED <<allVars, manifests, units, order, at, tally, banswer>>

\* Mutant of BatchMove: a refused move returns without giving the unit back.
MutantMoveKeepsUnit(b) ==
  LET from == bread[b].status
      to   == order[b].to
  IN /\ bpc[b] = "move"
     /\ IF CanMove(from, to)
          THEN /\ history' = IF from = to THEN history
                             ELSE Append(history, [from |-> from, to |-> to])
               /\ BatchGoto(b, "update") /\ UNCHANGED banswer
          ELSE BatchEnds(b, "transition") /\ UNCHANGED history
     /\ UNCHANGED <<items, foreignVars, manifests, units, order,
                    at, bread, outcome, tally>>

\* OpsStateMachine.Move, as in TransitionMove.
BatchMove(b) ==
  LET from == bread[b].status
      to   == order[b].to
  IN /\ bpc[b] = "move"
     /\ IF CanMove(from, to)
          THEN /\ history' = IF from = to THEN history
                             ELSE Append(history, [from |-> from, to |-> to])
               /\ BatchGoto(b, "update") /\ UNCHANGED outcome
          ELSE ItemEnds(b, "transition") /\ UNCHANGED history
     /\ UNCHANGED <<items, foreignVars, manifests, units, order, at,
                    bread, tally, banswer>>

\* Mutant of BatchUpdate: the batch names no revision.
MutantUpdateUnguarded(b) ==
  /\ bpc[b] = "update"
  /\ IF Stored(Item(b))
       THEN /\ Update(Item(b), [bread[b] EXCEPT !.status = order[b].to])
            /\ BatchGoto(b, "progress") /\ UNCHANGED outcome
       ELSE ItemEnds(b, "not_found") /\ UNCHANGED items
  /\ UNCHANGED <<history, foreignVars, manifests, units, order, at, bread,
                 tally, banswer>>

\* Mutant of BatchUpdate: an item that lost its race is counted as skipped,
\* one that won it too.
MutantUpdateSkips(b) ==
  /\ bpc[b] = "update"
  /\ IF CanUpdate(Item(b), bread[b].revision)
       THEN Update(Item(b), [bread[b] EXCEPT !.status = order[b].to])
       ELSE UNCHANGED items
  /\ ItemEnds(b, "skipped")
  /\ UNCHANGED <<history, foreignVars, manifests, units, order, at, bread,
                 tally, banswer>>

\* The write names the revision that was read.
BatchUpdate(b) ==
  /\ bpc[b] = "update"
  /\ IF CanUpdate(Item(b), bread[b].revision)
       THEN /\ Update(Item(b), [bread[b] EXCEPT !.status = order[b].to])
            /\ BatchGoto(b, "progress") /\ UNCHANGED outcome
       ELSE ItemEnds(b, UpdateError(Item(b))) /\ UNCHANGED items
  /\ UNCHANGED <<history, foreignVars, manifests, units, order, at, bread,
                 tally, banswer>>

\* processOne has the manifest by value as Claim returned it, with Done = 0,
\* and asks for Done + 1.  The scope is at least 1, so Progress accepts it.
BatchProgress(b) ==
  /\ bpc[b] = "progress"
  /\ manifests' = [manifests EXCEPT ![b] = 1]
  /\ ItemEnds(b, "applied")
  /\ UNCHANGED <<allVars, units, order, at, bread, tally, banswer>>

\* The unit goes back into the pool; Apply counts the item or gives up.
BatchGive(b) ==
  /\ bpc[b] = "give"
  /\ units' = units + 1
  /\ IF outcome[b] \in {"applied", "skipped"}
       THEN /\ tally' = [tally EXCEPT ![b][outcome[b]] = @ + 1]
            /\ at' = [at EXCEPT ![b] = @ + 1]
            /\ BatchGoto(b, "take") /\ UNCHANGED banswer
       ELSE BatchEnds(b, outcome[b]) /\ UNCHANGED <<tally, at>>
  /\ UNCHANGED <<allVars, manifests, order, bread, outcome>>

\* Mutant of BatchRelease: the manifest is released on success only.
MutantReleaseOnSuccess(b) ==
  /\ bpc[b] = "release"
  /\ manifests' = IF banswer[b] # "ok" THEN manifests
                  ELSE [manifests EXCEPT ![b] = Absent]
  /\ BatchGoto(b, "done")
  /\ UNCHANGED <<allVars, units, order, at, bread, outcome, tally, banswer>>

BatchRelease(b) ==
  /\ bpc[b] = "release"
  /\ manifests' = [manifests EXCEPT ![b] = Absent]
  /\ BatchGoto(b, "done")
  /\ UNCHANGED <<allVars, units, order, at, bread, outcome, tally, banswer>>

\* The client is gone: the loop, the wait for a unit, and the store notice.
BatchExpires(b) ==
  /\ \/ /\ bpc[b] = "take" /\ at[b] <= Items(b)
        /\ BatchEnds(b, "internal") /\ UNCHANGED outcome
     \/ /\ bpc[b] \in {"get", "update"}
        /\ ItemEnds(b, "internal") /\ UNCHANGED banswer
  /\ UNCHANGED <<allVars, manifests, units, order, at, bread, tally>>

-----------------------------------------------------------------------------

BatchInit ==
  /\ ArchiveInit
  /\ manifests = [b \in Batch |-> Absent]
  /\ units = UnitLimit
  /\ bpc = [b \in Batch |-> "claim"]
  /\ order \in [Batch -> BatchOrder]
  /\ at = [b \in Batch |-> 1]
  /\ bread = [b \in Batch |-> Absent]
  /\ outcome = [b \in Batch |-> "none"]
  /\ tally = [b \in Batch |-> [applied |-> 0, skipped |-> 0]]
  /\ banswer = [b \in Batch |-> "none"]

\* What the goroutine of a batch does as long as its client stays.
Proceeds(b) ==
  \/ BatchClaim(b) \/ BatchTake(b) \/ BatchGet(b) \/ BatchMove(b)
  \/ BatchUpdate(b) \/ BatchProgress(b) \/ BatchGive(b) \/ BatchRelease(b)

Apply(b) == Proceeds(b) \/ BatchExpires(b)

EveryoneDone == AllAnswered /\ \A b \in Batch : bpc[b] = "done"

BatchNext ==
  \/ \E r \in Request : Handle(r) /\ UNCHANGED <<archiveVars, batchVars>>
  \/ \E a \in Archiver : Archive(a) /\ UNCHANGED batchVars
  \/ \E b \in Batch : Apply(b)
  \/ EveryoneDone /\ UNCHANGED systemVars

BatchSpec == BatchInit /\ [][BatchNext]_systemVars

\* Handlers hold no lock across a step: a goroutine that can run does run.  A
\* batch waits only for a unit, and no client goes away to end its wait: the
\* context has no deadline, so its end is not fair.  A request waits for nothing:
\* its context ends only where it could go on as well.
BatchFairSpec ==
  /\ BatchSpec
  /\ \A r \in Request : WF_systemVars(Handle(r) /\ UNCHANGED <<archiveVars, batchVars>>)
  /\ \A b \in Batch : WF_systemVars(Proceeds(b))

-----------------------------------------------------------------------------
(***************************************************************************)
(* Properties.                                                             *)
(***************************************************************************)

BatchTypeOK ==
  /\ ArchiveTypeOK
  /\ manifests \in [Batch -> Nat \cup {Absent}]
  /\ units \in 0..UnitLimit
  /\ bpc \in [Batch -> {"claim", "take", "get", "move", "update", "progress",
                        "give", "release", "done"}]
  /\ order \in [Batch -> BatchOrder]
  /\ at \in [Batch -> Nat]
  /\ \A b \in Batch : at[b] \in 1..(Items(b) + 1)
  /\ bread \in [Batch -> Record \cup {Absent}]
  /\ outcome \in [Batch -> Answer \cup {"applied", "skipped"}]
  /\ tally \in [Batch -> [applied : Nat, skipped : Nat]]
  /\ banswer \in [Batch -> Answer]

Holding(b) == bpc[b] \in {"get", "move", "update", "progress", "give"}

\* "The batch never accumulates open units" (ops_batch.go:64): whatever the
\* batches meet, the units in the pool and those held for one item each are
\* UnitLimit together, so no way of ending an item loses or doubles a unit.
UnitsAreConserved == units + Cardinality({b \in Batch : Holding(b)}) = UnitLimit

\* "A manifest must be claimed before a batch touches records and released
\* when the batch finishes" (ops_manifest.go:21-22), however it finishes.
ManifestsCoverBatches ==
  \A b \in Batch : manifests[b] # Absent <=> bpc[b] \notin {"claim", "done"}

BatchWrites(b) == bpc[b] = "update" /\ bpc'[b] = "progress"

\* A batch writes over the very record it read, and along the table, although
\* requests without a revision, other batches and archive requests write in
\* between; only a record that was archived and created anew since can be taken
\* for the one that was read, for its revisions start at 1 again.
BatchMovesWhatItRead ==
  [][\A b \in Batch : BatchWrites(b) =>
       \/ /\ items[Item(b)] = bread[b]
          /\ CanMove(order[b].from, items'[Item(b)].status)
       \/ Archived(Item(b))]_systemVars

\* A note is appended under another lock than the one its record was found
\* under; still every id with notes names a record, live or archived.
NotesHaveARecord ==
  \A i \in RawId : notes[i] # <<>> => Stored(i) \/ closed[i] # Absent

\* Every write over a live record, as the revision it made: a record is created
\* with revision 1.  Every item a batch has counted as applied, by its number.
Rewrites == UNION {{i} \X (2..items[i].revision) : i \in {j \in RawId : Stored(j)}}
AppliedItems == UNION {{b} \X (1..tally[b].applied) : b \in Batch}

\* Applied counts writes: the revisions of all records count the transitions
\* that wrote and the items that batches applied, those about to be tallied
\* included.  A batch that fails half-way still has its writes in its tally.
\* An archived record takes its revisions with it.
EveryWriteIsCounted ==
  (\A a \in Archiver : result[a] # "ok") =>
    Cardinality(Rewrites)
      = Cardinality({r \in Request : Committed(r)})
        + Cardinality(AppliedItems)
        + Cardinality({b \in Batch : \/ bpc[b] = "progress"
                                     \/ bpc[b] = "give" /\ outcome[b] = "applied"})

\* How many steps a batch has left at most: up to six for the item it is at and
\* for each one after it, and the ones that end the batch.
StepsLeft(b) ==
  LET rank == [claim |-> 9, take |-> 8, get |-> 7, move |-> 6, update |-> 5,
               progress |-> 4, give |-> 3, release |-> 1, done |-> 0]
  IN 6 * (Items(b) + 1 - at[b]) + rank[bpc[b]]

\* No batch runs for ever: whatever requests, archive requests and other batches
\* do to its records, conflicts included, each of its steps leaves it fewer
\* steps to take.  Apply neither retries an item nor comes back to one.
BatchesRunOut ==
  [][\A b \in Batch :
       StepsLeft(b) \in Nat /\ (bpc'[b] # bpc[b] => StepsLeft(b)' < StepsLeft(b))]_systemVars

\* Every request and every batch is answered, with clients that never go away
\* too: waiting for a unit never becomes waiting for ever, and no conflict,
\* refused move, missing record or expired context keeps a unit that another
\* batch waits for.
EveryoneAnswered ==
  /\ \A r \in Request : <>(pc[r] = "done")
  /\ \A b \in Batch : <>(bpc[b] = "done")

=============================================================================
