---------------------------- MODULE OpsBatchProofs ----------------------------
(***************************************************************************)
(* Proofs about OpsBatch, for any requests, archive requests, batches, ids *)
(* and work units.                                                         *)
(*                                                                         *)
(* BInv, the inductive invariant, adds to that of OpsArchive what a batch  *)
(* knows at each step of the item it is at, that the copy it holds is not  *)
(* ahead of the record unless the id has been freed, and the counts of     *)
(* units and manifests.                                                    *)
(***************************************************************************)
EXTENDS OpsBatch, OpsArchiveProofs, FiniteSetTheorems

BatchStep == {"claim", "take", "get", "move", "update", "progress", "give",
              "release", "done"}

\* What a batch's next step says of it: it is at an item, holds a copy with
\* the status it looks for, and has asked the table for the move.
StepsFitOrders ==
  \A b \in Batch :
    /\ Holding(b) => at[b] \in 1..Items(b)
    /\ bpc[b] \in {"move", "update"} =>
         bread[b] \in Record /\ bread[b].status = order[b].from
    /\ bpc[b] = "update" => CanMove(bread[b].status, order[b].to)

\* As long as the id has not been freed, a batch's copy is sound.
BatchSound(b) ==
  bpc[b] \in {"move", "update"} => Archived(Item(b)) \/ CopySound(bread[b], Item(b))

BInv == /\ BatchTypeOK /\ AInv /\ StepsFitOrders
        /\ \A b \in Batch : BatchSound(b)
        /\ UnitsAreConserved /\ ManifestsCoverBatches

-----------------------------------------------------------------------------
(***************************************************************************)
(* What a step of a batch does.                                            *)
(***************************************************************************)

\* An order has a list of record ids.
LEMMA OrderTyped ==
  ASSUME BatchTypeOK, NEW b \in Batch
  PROVE  /\ order[b] \in [owned : BOOLEAN, from : Status, to : Status, ids : Seq(RawId)]
         /\ Items(b) \in Nat
         /\ order[b].to \in Status /\ order[b].from \in Status
         /\ at[b] \in 1..Items(b) => Item(b) \in RawId
<1>1. order[b] \in [owned : BOOLEAN, from : Status, to : Status, ids : Seq(RawId)]
  BY BatchAssumption DEF BatchTypeOK
<1>2. order[b].ids \in Seq(RawId)
  BY <1>1
<1> QED
  BY <1>1, <1>2 DEF Items, Item

\* A step of one batch leaves the others' own state alone.
LEMMA ApplyIsLocal ==
  ASSUME BatchTypeOK, NEW b \in Batch, Apply(b)
  PROVE  /\ order' = order
         /\ UNCHANGED foreignVars
         /\ \A c \in Batch \ {b} :
              /\ bpc'[c] = bpc[c] /\ at'[c] = at[c] /\ bread'[c] = bread[c]
              /\ outcome'[c] = outcome[c] /\ tally'[c] = tally[c]
              /\ banswer'[c] = banswer[c] /\ manifests'[c] = manifests[c]
<1> USE DEF Apply, Proceeds, BatchClaim, BatchTake, BatchGet, BatchMove, BatchUpdate,
   BatchProgress, BatchGive, BatchRelease, BatchExpires, BatchGoto, BatchEnds, ItemEnds
<1>1. order' = order /\ UNCHANGED foreignVars
  BY DEF allVars, vars, foreignVars
<1> SUFFICES ASSUME NEW c \in Batch, c # b
             PROVE  /\ bpc'[c] = bpc[c] /\ at'[c] = at[c] /\ bread'[c] = bread[c]
                    /\ outcome'[c] = outcome[c] /\ tally'[c] = tally[c]
                    /\ banswer'[c] = banswer[c] /\ manifests'[c] = manifests[c]
  BY <1>1
<1>2. bpc'[c] = bpc[c] /\ at'[c] = at[c]
  BY DEF BatchTypeOK
<1>3. bread'[c] = bread[c] /\ outcome'[c] = outcome[c]
  BY DEF BatchTypeOK
<1>4. banswer'[c] = banswer[c] /\ manifests'[c] = manifests[c]
  BY DEF BatchTypeOK
<1>5. tally'[c] = tally[c]
  BY DEF BatchTypeOK
<1> QED
  BY <1>2, <1>3, <1>4, <1>5

\* The batch has replaced the record of its item.
BatchReplaces(b) ==
  /\ bpc[b] = "update" /\ bpc'[b] = "progress"
  /\ Item(b) \in RawId /\ Stored(Item(b))
  /\ items[Item(b)].revision = bread[b].revision
  /\ items'[Item(b)] \in Record
  /\ items'[Item(b)].revision = items[Item(b)].revision + 1
  /\ items'[Item(b)].origin = bread[b].origin
  /\ items'[Item(b)].status = order[b].to
  /\ \A i \in RawId \ {Item(b)} : items'[i] = items[i]

LEMMA BatchItems ==
  ASSUME BatchTypeOK, StepsFitOrders, NEW b \in Batch, Apply(b)
  PROVE  /\ items' = items \/ BatchReplaces(b)
         /\ BatchWrites(b) => BatchReplaces(b)
         /\ StoreTypeOK'
<1>1. StoreTypeOK
  BY DEF BatchTypeOK, ArchiveTypeOK, TypeOK
<1>2. CASE BatchUpdate(b) /\ CanUpdate(Item(b), bread[b].revision)
  <2>1. /\ bread[b] \in Record /\ Item(b) \in RawId /\ order[b].to \in Status
        /\ bpc[b] = "update"
    BY <1>2, OrderTyped DEF BatchUpdate, StepsFitOrders, Holding
  <2>2. bpc'[b] = "progress"
    BY <1>2 DEF BatchUpdate, BatchGoto, BatchTypeOK
  <2>3. Update(Item(b), [bread[b] EXCEPT !.status = order[b].to]) /\ Stored(Item(b))
    BY <1>2 DEF BatchUpdate, CanUpdate
  <2>4. bread[b].revision \in Nat /\ bread[b].revision # 0
    BY <2>1 DEF Record
  <2>5. items[Item(b)].revision = bread[b].revision
    BY <1>2, <2>4 DEF CanUpdate, RevisionAgrees
  <2> QED
    BY <1>1, <2>1, <2>2, <2>3, <2>5, UpdateReplaces DEF BatchReplaces
<1>3. CASE ~(BatchUpdate(b) /\ CanUpdate(Item(b), bread[b].revision))
  <2>1. items' = items
    BY <1>3 DEF Apply, Proceeds, BatchClaim, BatchTake, BatchGet, BatchMove, BatchUpdate,
       BatchProgress, BatchGive, BatchRelease, BatchExpires, allVars, vars
  <2>2. ~BatchWrites(b)
    BY <1>3 DEF BatchWrites, Apply, Proceeds, BatchClaim, BatchTake, BatchGet, BatchMove,
       BatchUpdate, BatchProgress, BatchGive, BatchRelease, BatchExpires, BatchGoto,
       BatchEnds, ItemEnds, BatchTypeOK
  <2> QED
    BY <1>1, <2>1, <2>2 DEF StoreTypeOK
<1> QED
  BY <1>2, <1>3

-----------------------------------------------------------------------------
(***************************************************************************)
(* Steps of batches: types, and what a step knows.                         *)
(***************************************************************************)

LEMMA ApplyFits ==
  ASSUME BatchTypeOK, StepsFitOrders, NEW b \in Batch, Apply(b)
  PROVE  StepsFitOrders'
<1> SUFFICES ASSUME NEW c \in Batch
             PROVE  /\ Holding(c)' => at'[c] \in 1..Items(c)
                    /\ bpc'[c] \in {"move", "update"} =>
                         bread'[c] \in Record /\ bread'[c].status = order[c].from
                    /\ bpc'[c] = "update" => CanMove(bread'[c].status, order[c].to)
  <2>1. order' = order
    BY ApplyIsLocal
  <2> QED
    BY <2>1 DEF StepsFitOrders, Items, CanMove
<1>1. CASE c # b
  BY <1>1, ApplyIsLocal DEF StepsFitOrders, Holding, CanMove
<1>2. CASE c = b
  <2>1. CASE bpc'[b] \in {"claim", "take", "release", "done"}
    BY <1>2, <2>1 DEF Holding
  <2>2. CASE BatchTake(b) /\ bpc'[b] = "get"
    <3>1. at'[b] = at[b] /\ at[b] <= Items(b)
      BY <2>2 DEF BatchTake, BatchGoto, BatchEnds, BatchTypeOK
    <3>2. at[b] \in 1..(Items(b) + 1) /\ Items(b) \in Nat
      BY OrderTyped DEF BatchTypeOK
    <3> QED
      BY <1>2, <2>2, <3>1, <3>2
  <2>3. CASE BatchGet(b)
    <3>1. at'[b] = at[b] /\ at[b] \in 1..Items(b) /\ bpc'[b] \in {"move", "give"}
      BY <2>3 DEF BatchGet, BatchGoto, ItemEnds, StepsFitOrders, Holding, BatchTypeOK
    <3>2. CASE bpc'[b] = "move"
      <4>1. Stored(Item(b)) /\ items[Item(b)].status = order[b].from
            /\ bread'[b] = items[Item(b)]
        BY <2>3, <3>2 DEF BatchGet, BatchGoto, ItemEnds, BatchTypeOK
      <4>2. items[Item(b)] \in Record
        BY <3>1, <4>1, OrderTyped DEF BatchTypeOK, ArchiveTypeOK, TypeOK, StoreTypeOK,
            Stored
      <4> QED
        BY <1>2, <3>1, <3>2, <4>1, <4>2
    <3> QED
      BY <1>2, <3>1, <3>2
  <2>4. CASE BatchMove(b)
    <3>1. /\ at'[b] = at[b] /\ at[b] \in 1..Items(b) /\ bpc'[b] \in {"update", "give"}
          /\ bread'[b] = bread[b] /\ bread[b] \in Record
          /\ bread[b].status = order[b].from
          /\ bpc'[b] = "update" => CanMove(bread[b].status, order[b].to)
      BY <2>4 DEF BatchMove, BatchGoto, ItemEnds, StepsFitOrders, Holding, BatchTypeOK
    <3> QED
      BY <1>2, <3>1 DEF CanMove
  <2>5. CASE BatchUpdate(b) \/ BatchProgress(b)
    <3>1. at'[b] = at[b] /\ at[b] \in 1..Items(b) /\ bpc'[b] \in {"progress", "give"}
      BY <2>5 DEF BatchUpdate, BatchProgress, BatchGoto, ItemEnds, StepsFitOrders,
         Holding, BatchTypeOK
    <3> QED
      BY <1>2, <3>1
  <2>6. CASE BatchExpires(b) /\ bpc'[b] = "give"
    <3>1. at'[b] = at[b] /\ at[b] \in 1..Items(b)
      BY <2>6 DEF BatchExpires, BatchEnds, BatchGoto, ItemEnds, StepsFitOrders, Holding,
         BatchTypeOK
    <3> QED
      BY <1>2, <2>6, <3>1
  <2>7. bpc'[b] \in {"claim", "take", "release", "done"}
        \/ (BatchTake(b) /\ bpc'[b] = "get") \/ BatchGet(b) \/ BatchMove(b)
        \/ BatchUpdate(b) \/ BatchProgress(b) \/ (BatchExpires(b) /\ bpc'[b] = "give")
    BY DEF Apply, Proceeds, BatchClaim, BatchTake, BatchGive, BatchRelease, BatchExpires,
       BatchGoto, BatchEnds, ItemEnds, BatchTypeOK
  <2> QED
    BY <2>1, <2>2, <2>3, <2>4, <2>5, <2>6, <2>7
<1> QED
  BY <1>1, <1>2

\* The units in the pool and the units held stay the limit together.
LEMMA ApplyUnits ==
  ASSUME BatchTypeOK, UnitsAreConserved, NEW b \in Batch, Apply(b)
  PROVE  UnitsAreConserved' /\ units' \in 0..UnitLimit
<1> DEFINE H == {c \in Batch : Holding(c)}
<1>0. IsFiniteSet(H) /\ Cardinality(H) \in Nat /\ units \in Nat /\ UnitLimit \in Nat
      /\ units + Cardinality(H) = UnitLimit
  <2>1. H \in SUBSET Batch
    OBVIOUS
  <2>2. units + Cardinality(H) = UnitLimit /\ units \in Nat
    BY DEF UnitsAreConserved, BatchTypeOK
  <2> HIDE DEF H
  <2> QED
    BY <2>1, <2>2, BatchAssumption, FS_Subset, FS_CardinalityType
<1>1. \A c \in Batch \ {b} : Holding(c)' <=> Holding(c)
  BY ApplyIsLocal DEF Holding
<1>2. CASE units' = units /\ (Holding(b)' <=> Holding(b))
  <2>1. H' = H
    BY <1>1, <1>2
  <2> QED
    BY <1>0, <1>2, <2>1 DEF UnitsAreConserved
<1>3. CASE units > 0 /\ units' = units - 1 /\ ~Holding(b) /\ Holding(b)'
  <2>1. H' = H \cup {b} /\ b \notin H
    BY <1>1, <1>3
  <2>2. Cardinality(H') = Cardinality(H) + 1
    <3> HIDE DEF H
    <3> QED
      BY <1>0, <2>1, FS_AddElement
  <2>3. Cardinality(H)' = Cardinality(H')
    OBVIOUS
  <2>4. units' + Cardinality(H)' = UnitLimit /\ units' \in 0..UnitLimit
    <3> HIDE DEF H
    <3> QED
      BY <1>0, <1>3, <2>2, <2>3
  <2> QED
    BY <2>4 DEF UnitsAreConserved
<1>4. CASE units' = units + 1 /\ Holding(b) /\ ~Holding(b)'
  <2>1. H' = H \ {b} /\ b \in H
    BY <1>1, <1>4
  <2>2. Cardinality(H') = Cardinality(H) - 1 /\ Cardinality(H') \in Nat
    <3> HIDE DEF H
    <3> QED
      BY <1>0, <2>1, FS_RemoveElement, FS_CardinalityType
  <2>3. Cardinality(H)' = Cardinality(H')
    OBVIOUS
  <2>4. units' + Cardinality(H)' = UnitLimit /\ units' \in 0..UnitLimit
    <3> HIDE DEF H
    <3> QED
      BY <1>0, <1>4, <2>2, <2>3
  <2> QED
    BY <2>4 DEF UnitsAreConserved
<1>5. \/ units' = units /\ (Holding(b)' <=> Holding(b))
      \/ units > 0 /\ units' = units - 1 /\ ~Holding(b) /\ Holding(b)'
      \/ units' = units + 1 /\ Holding(b) /\ ~Holding(b)'
  BY DEF Apply, Proceeds, BatchClaim, BatchTake, BatchGet, BatchMove, BatchUpdate,
     BatchProgress, BatchGive, BatchRelease, BatchExpires, BatchGoto, BatchEnds,
     ItemEnds, Holding, BatchTypeOK
<1> QED
  BY <1>2, <1>3, <1>4, <1>5

\* A batch has a manifest from its claim to its release.
LEMMA ApplyManifests ==
  ASSUME BatchTypeOK, ManifestsCoverBatches, NEW b \in Batch, Apply(b)
  PROVE  ManifestsCoverBatches'
<1>1. \A c \in Batch \ {b} : bpc'[c] = bpc[c] /\ manifests'[c] = manifests[c]
  BY ApplyIsLocal
<1>2. manifests'[b] # Absent <=> bpc'[b] \notin {"claim", "done"}
  <2>1. manifests[b] # Absent <=> bpc[b] \notin {"claim", "done"}
    BY DEF ManifestsCoverBatches
  <2>2. 0 # Absent /\ 1 # Absent
    BY BatchAssumption
  <2> QED
    BY <2>1, <2>2 DEF Apply, Proceeds, BatchClaim, BatchTake, BatchGet, BatchMove,
       BatchUpdate, BatchProgress, BatchGive, BatchRelease, BatchExpires, BatchGoto,
       BatchEnds, ItemEnds, BatchTypeOK
<1> QED
  BY <1>1, <1>2 DEF ManifestsCoverBatches

LEMMA ApplyTyped ==
  ASSUME BatchTypeOK, StepsFitOrders, UnitsAreConserved, NEW b \in Batch, Apply(b)
  PROVE  BatchTypeOK'
<1>1. order' = order /\ UNCHANGED <<events, notes, pc, call, read, answer, closed, apc, aid,
                                   copy, result>>
  BY ApplyIsLocal DEF foreignVars, requestVars, archiveVars
<1>2. StoreTypeOK'
  BY BatchItems
<1>3. history' \in Seq([from : Status, to : Status])
  <2>1. CASE BatchMove(b)
    <3> DEFINE move == [from |-> bread[b].status, to |-> order[b].to]
    <3>1. bread[b].status \in Status /\ order[b].to \in Status
      BY <2>1, OrderTyped DEF BatchMove, StepsFitOrders, Record
    <3>2. move \in [from : Status, to : Status]
      BY <3>1
    <3>3. history' = history \/ history' = Append(history, move)
      BY <2>1 DEF BatchMove
    <3>4. history \in Seq([from : Status, to : Status])
      BY DEF BatchTypeOK, ArchiveTypeOK, TypeOK
    <3> QED
      BY <3>2, <3>3, <3>4, AppendIsTyped
  <2>2. CASE ~BatchMove(b)
    <3>1. history' = history
      BY <2>2 DEF Apply, Proceeds, BatchClaim, BatchTake, BatchGet, BatchUpdate,
         BatchProgress, BatchGive, BatchRelease, BatchExpires, allVars, vars
    <3> QED
      BY <3>1 DEF BatchTypeOK, ArchiveTypeOK, TypeOK
  <2> QED
    BY <2>1, <2>2
<1>4. ArchiveTypeOK'
  BY <1>1, <1>2, <1>3 DEF BatchTypeOK, ArchiveTypeOK, TypeOK
<1> USE DEF Apply, Proceeds, BatchClaim, BatchTake, BatchGet, BatchMove, BatchUpdate,
   BatchProgress, BatchGive, BatchRelease, BatchExpires, BatchGoto, BatchEnds, ItemEnds
<1>5. manifests' \in [Batch -> Nat \cup {Absent}]
  BY DEF BatchTypeOK
<1>6. units' \in 0..UnitLimit
  BY ApplyUnits
<1>7. bpc' \in [Batch -> BatchStep]
  BY DEF BatchTypeOK, BatchStep
<1>8. at' \in [Batch -> Nat] /\ \A c \in Batch : at'[c] \in 1..(Items(c) + 1)
  <2>1. at' = at \/ (bpc[b] = "give" /\ at' = [at EXCEPT ![b] = at[b] + 1])
    OBVIOUS
  <2>2. bpc[b] = "give" => at[b] \in 1..Items(b)
    BY DEF StepsFitOrders, Holding
  <2> HIDE DEF Apply
  <2>3. /\ \A c \in Batch : Items(c) \in Nat /\ at[c] \in 1..(Items(c) + 1)
        /\ at \in [Batch -> Nat]
    BY OrderTyped DEF BatchTypeOK
  <2>4. CASE at' = at
    BY <2>3, <2>4
  <2>5. CASE bpc[b] = "give" /\ at' = [at EXCEPT ![b] = at[b] + 1]
    <3>1. at[b] \in Nat /\ at[b] + 1 \in 1..(Items(b) + 1)
      BY <2>2, <2>3, <2>5
    <3> QED
      BY <2>3, <2>5, <3>1
  <2> QED
    BY <2>1, <2>4, <2>5
<1>9. bread' \in [Batch -> Record \cup {Absent}]
  <2>1. CASE BatchGet(b)
    <3>1. Item(b) \in RawId
      BY <2>1, OrderTyped DEF StepsFitOrders, Holding
    <3>2. items[Item(b)] \in Record \cup {Absent}
      BY <3>1 DEF BatchTypeOK, ArchiveTypeOK, TypeOK, StoreTypeOK
    <3> QED
      BY <2>1, <3>2 DEF BatchTypeOK
  <2>2. CASE ~BatchGet(b)
    BY <2>2 DEF BatchTypeOK
  <2> QED
    BY <2>1, <2>2
<1>10. /\ outcome' \in [Batch -> Answer \cup {"applied", "skipped"}]
       /\ banswer' \in [Batch -> Answer]
  <2>1. UpdateError(Item(b)) \in Answer
    BY DEF UpdateError, Answer, Error, Refusal, Wrapped
  <2>2. {"ok", "invalid", "transition", "internal"} \subseteq Answer
    BY DEF Answer, Error, Refusal, Wrapped
  <2>3. outcome' \in [Batch -> Answer \cup {"applied", "skipped"}]
    <3>1. \/ outcome' = outcome
          \/ \E how \in {"applied", "skipped", "internal", "transition", UpdateError(Item(b))} :
                outcome' = [outcome EXCEPT ![b] = how]
      OBVIOUS
    <3> HIDE DEF Apply
    <3> QED
      BY <2>1, <2>2, <3>1 DEF BatchTypeOK
  <2>4. banswer' \in [Batch -> Answer]
    BY <2>1, <2>2 DEF BatchTypeOK
  <2> QED
    BY <2>3, <2>4
<1>11. tally' \in [Batch -> [applied : Nat, skipped : Nat]]
  <2>1. CASE tally' = tally
    BY <2>1 DEF BatchTypeOK
  <2>2. CASE tally' # tally
    <3>1. /\ outcome[b] \in {"applied", "skipped"}
          /\ tally' = [tally EXCEPT ![b][outcome[b]] = @ + 1]
      BY <2>2
    <3>2. tally[b] \in [applied : Nat, skipped : Nat]
      BY DEF BatchTypeOK
    <3> DEFINE tallied == [tally[b] EXCEPT ![outcome[b]] = @ + 1]
    <3>3. tallied \in [applied : Nat, skipped : Nat]
      BY <3>1, <3>2
    <3>4. tally' = [tally EXCEPT ![b] = tallied]
      BY <3>1
    <3> HIDE DEF tallied
    <3> QED
      BY <3>3, <3>4 DEF BatchTypeOK
  <2> QED
    BY <2>1, <2>2
<1>12. \A c \in Batch : Items(c)' = Items(c)
  BY <1>1 DEF Items
<1> HIDE DEF Apply, Proceeds, BatchClaim, BatchTake, BatchGet, BatchMove, BatchUpdate,
   BatchProgress, BatchGive, BatchRelease, BatchExpires, BatchGoto, BatchEnds, ItemEnds
<1> QED
  BY <1>1, <1>4, <1>5, <1>6, <1>7, <1>8, <1>9, <1>10, <1>11, <1>12
  DEF BatchTypeOK, BatchStep

-----------------------------------------------------------------------------
(***************************************************************************)
(* Steps of batches: what the requests and archive requests rely on.       *)
(***************************************************************************)

\* A batch's write makes a record advance, unless the id has been freed.
LEMMA ApplyAdvances ==
  ASSUME BatchTypeOK, StepsFitOrders, NEW b \in Batch, Apply(b), BatchSound(b),
         NEW i \in RawId, ~Archived(i)
  PROVE  /\ Advances(i)
         /\ Stored(i) /\ Terminal(items[i]) => Stored(i)' /\ Terminal(items'[i])
<1>1. CASE items' = items
  BY <1>1 DEF Advances, Stored, Terminal
<1>2. CASE BatchReplaces(b) /\ i = Item(b)
  <2>1. items[i] = bread[b] /\ items'[i].origin = items[i].origin
    BY <1>2 DEF BatchReplaces, BatchSound, CopySound
  <2>2. Advances(i) /\ Stored(i)'
    BY <1>2, <2>1, AbsentAssumption DEF BatchReplaces, Advances, Stored
  <2>3. CanMove(items[i].status, order[b].to) /\ items'[i].status = order[b].to
    BY <1>2, <2>1 DEF BatchReplaces, StepsFitOrders
  <2>4. items[i].status = "closed" => items'[i].status = "closed"
    BY <2>3 DEF CanMove, opsTransitionTable
  <2> QED
    BY <2>2, <2>4 DEF Terminal
<1>3. CASE BatchReplaces(b) /\ i # Item(b)
  BY <1>3 DEF BatchReplaces, Advances, Stored, Terminal
<1> QED
  BY <1>1, <1>2, <1>3, BatchItems

LEMMA ApplyAInv ==
  ASSUME BInv, NEW b \in Batch, Apply(b)
  PROVE  AInv'
<1>1. /\ BatchTypeOK /\ StepsFitOrders /\ BatchSound(b) /\ UnitsAreConserved /\ AInv
  BY DEF BInv
<1>2. UNCHANGED <<pc, call, read, answer, archiveVars>>
  BY <1>1, ApplyIsLocal DEF foreignVars, requestVars
<1>3. TypeOK'
  BY <1>1, ApplyTyped DEF BatchTypeOK, ArchiveTypeOK
<1>4. ASSUME NEW i \in RawId, Stored(i), ~Archived(i)
      PROVE  /\ Advances(i)
             /\ Terminal(items[i]) => Stored(i)' /\ Terminal(items'[i])
  BY <1>1, <1>4, ApplyAdvances
<1> QED
  BY <1>1, <1>2, <1>3, <1>4, OutsideStep

\* A batch's step leaves every batch's copy sound.
LEMMA ApplySound ==
  ASSUME BInv, NEW b \in Batch, Apply(b), NEW c \in Batch
  PROVE  BatchSound(c)'
<1>1. /\ BatchTypeOK /\ StepsFitOrders /\ BatchSound(b) /\ BatchSound(c) /\ StoreTypeOK
  BY DEF BInv, BatchTypeOK, ArchiveTypeOK, TypeOK
<1>2. UNCHANGED <<order, aid, result>> /\ \A i : Archived(i)' <=> Archived(i)
  BY <1>1, ApplyIsLocal DEF foreignVars, archiveVars, Archived
<1> SUFFICES ASSUME bpc'[c] \in {"move", "update"}, ~Archived(Item(c)')
             PROVE  CopySound(bread[c], Item(c))'
  BY <1>2 DEF BatchSound, Archived
<1>3. CASE bpc[c] \in {"move", "update"} /\ bread'[c] = bread[c] /\ at'[c] = at[c]
  <2>1. Item(c) \in RawId /\ Item(c)' = Item(c) /\ bread[c] \in Record
    BY <1>1, <1>2, <1>3, OrderTyped DEF StepsFitOrders, Holding, Item
  <2>2. PICK i \in RawId, r \in Record : i = Item(c) /\ r = bread[c]
    BY <2>1
  <2>3. CopySound(r, i) /\ ~Archived(i)
    BY <1>1, <1>3, <2>1, <2>2 DEF BatchSound
  <2>4. CopySound(r, i)'
    BY <1>1, <2>3, ApplyAdvances, CopyStaysSound
  <2> QED
    BY <1>3, <2>1, <2>2, <2>4 DEF CopySound, Stored
<1>4. CASE c = b /\ BatchGet(b)
  <2>1. /\ Stored(Item(b)) /\ items' = items /\ bread'[b] = items[Item(b)]
        /\ Item(b)' = Item(b) /\ Item(b) \in RawId
    BY <1>1, <1>2, <1>4, OrderTyped DEF BatchGet, BatchGoto, ItemEnds, BatchTypeOK, allVars,
       vars, StepsFitOrders, Holding, Item
  <2>2. items[Item(b)] \in Record
    BY <1>1, <2>1 DEF StoreTypeOK, Stored
  <2> QED
    BY <1>4, <2>1, <2>2 DEF CopySound, Stored, Record
<1>5. \/ bpc[c] \in {"move", "update"} /\ bread'[c] = bread[c] /\ at'[c] = at[c]
      \/ c = b /\ BatchGet(b)
  <2>1. CASE c # b
    BY <1>1, <2>1, ApplyIsLocal
  <2>2. CASE c = b
    BY <1>1, <2>2 DEF Apply, Proceeds, BatchClaim, BatchTake, BatchMove, BatchUpdate,
       BatchProgress, BatchGive, BatchRelease, BatchExpires, BatchGoto, BatchEnds,
       ItemEnds, BatchTypeOK
  <2> QED
    BY <2>1, <2>2
<1> QED
  BY <1>3, <1>4, <1>5

-----------------------------------------------------------------------------
(***************************************************************************)
(* The inductive invariant.                                                *)
(***************************************************************************)

LEMMA InitBInv == BatchInit => BInv
<1> SUFFICES ASSUME BatchInit PROVE BInv
  OBVIOUS
<1> USE BatchAssumption
<1>1. AInv
  BY InitAInv DEF BatchInit
<1>2. units = UnitLimit /\ UnitLimit \in Nat \ {0} /\ order \in [Batch -> BatchOrder]
  BY DEF BatchInit
<1>3. /\ manifests \in [Batch -> Nat \cup {Absent}]
      /\ bpc \in [Batch -> BatchStep]
      /\ bread \in [Batch -> Record \cup {Absent}]
      /\ outcome \in [Batch -> Answer \cup {"applied", "skipped"}]
      /\ tally \in [Batch -> [applied : Nat, skipped : Nat]]
      /\ banswer \in [Batch -> Answer]
  BY DEF BatchInit, BatchStep, Answer
<1>4. at \in [Batch -> Nat] /\ \A b \in Batch : at[b] \in 1..(Items(b) + 1)
  <2>1. ASSUME NEW b \in Batch PROVE Items(b) \in Nat
    <3>1. order[b].ids \in Seq(RawId)
      BY <1>2
    <3> QED
      BY <3>1 DEF Items
  <2> QED
    BY <2>1 DEF BatchInit
<1>5. BatchTypeOK
  BY <1>1, <1>2, <1>3, <1>4 DEF BatchTypeOK, BatchStep, AInv
<1>6. StepsFitOrders /\ ManifestsCoverBatches /\ \A b \in Batch : BatchSound(b)
  BY DEF BatchInit, StepsFitOrders, ManifestsCoverBatches, BatchSound, Holding
<1>7. UnitsAreConserved
  <2> DEFINE H == {b \in Batch : Holding(b)}
  <2>1. H = {}
    BY DEF BatchInit, Holding
  <2>2. Cardinality(H) = 0
    <3> HIDE DEF H
    <3> QED
      BY <2>1, FS_EmptySet
  <2>3. units + Cardinality(H) = UnitLimit
    <3> HIDE DEF H
    <3> QED
      BY <1>2, <2>2
  <2> QED
    BY <2>3 DEF UnitsAreConserved
<1> QED
  BY <1>1, <1>5, <1>6, <1>7 DEF BInv

\* What the steps of the others leave to the batches.
LEMMA OthersKeepBatches ==
  ASSUME BInv, AInv', UNCHANGED batchVars, \A b \in Batch : BatchSound(b)'
  PROVE  BInv'
<1>1. UNCHANGED <<manifests, units, bpc, order, at, bread, outcome, tally, banswer>>
  BY DEF batchVars
<1>2. BatchTypeOK'
  BY <1>1 DEF BInv, BatchTypeOK, AInv, Items
<1>3. StepsFitOrders' /\ ManifestsCoverBatches'
  BY <1>1 DEF BInv, StepsFitOrders, ManifestsCoverBatches, Holding, Items, CanMove
<1>4. UnitsAreConserved'
  BY <1>1 DEF BInv, UnitsAreConserved, Holding
<1> QED
  BY <1>2, <1>3, <1>4 DEF BInv

\* A sound copy stays so while its record advances.
LEMMA BatchStaysSound ==
  ASSUME BInv, UNCHANGED batchVars, NEW b \in Batch,
         Archived(Item(b)) => Archived(Item(b))',
         Item(b) \in RawId /\ Stored(Item(b)) /\ ~Archived(Item(b))' => Advances(Item(b))
  PROVE  BatchSound(b)'
<1>1. UNCHANGED <<bpc, bread>> /\ Item(b)' = Item(b)
  BY DEF batchVars, Item
<1> SUFFICES ASSUME bpc[b] \in {"move", "update"}, ~Archived(Item(b))'
             PROVE  CopySound(bread[b], Item(b))'
  BY <1>1 DEF BatchSound
<1>2. /\ Item(b) \in RawId /\ bread[b] \in Record /\ StoreTypeOK
      /\ CopySound(bread[b], Item(b))
  BY OrderTyped DEF BInv, BatchSound, StepsFitOrders, Holding, AInv, ArchiveTypeOK, TypeOK
<1>3. PICK i \in RawId, c \in Record : i = Item(b) /\ c = bread[b]
  BY <1>2
<1>4. CopySound(c, i) /\ Advances(i)
  BY <1>2, <1>3 DEF Advances, CopySound
<1>5. CopySound(c, i)'
  BY <1>2, <1>4, CopyStaysSound
<1> QED
  BY <1>1, <1>3, <1>5 DEF CopySound, Stored

LEMMA NextBInv == BInv /\ [BatchNext]_systemVars => BInv'
<1> SUFFICES ASSUME BInv, [BatchNext]_systemVars PROVE BInv'
  OBVIOUS
<1>0. AInv /\ TypeOK /\ StepsFitCalls
  BY DEF BInv, AInv, ArchiveTypeOK
<1>1. CASE UNCHANGED systemVars
  <2>1. UNCHANGED <<allVars, batchVars>>
    BY <1>1 DEF systemVars
  <2>2. AInv'
    BY <1>0, <2>1, NextAInv
  <2>3. ASSUME NEW b \in Batch PROVE BatchSound(b)'
    <3>1. items' = items /\ Item(b)' = Item(b) /\ UNCHANGED <<aid, result>>
      BY <2>1 DEF allVars, vars, archiveVars, batchVars, Item
    <3> QED
      BY <2>1, <3>1, BatchStaysSound DEF Archived, Advances
  <2> QED
    BY <2>1, <2>2, <2>3, OthersKeepBatches
<1>2. ASSUME NEW r \in Request, Handle(r), UNCHANGED <<archiveVars, batchVars>>
      PROVE  BInv'
  <2>1. AInv'
    BY <1>0, <1>2, HandleStep
  <2>2. ASSUME NEW b \in Batch PROVE BatchSound(b)'
    <3>1. Item(b)' = Item(b) /\ UNCHANGED <<aid, result>>
      BY <1>2 DEF archiveVars, batchVars, Item
    <3>2. Archived(Item(b))' <=> Archived(Item(b))
      BY <3>1 DEF Archived
    <3>3. ASSUME Item(b) \in RawId, Stored(Item(b)), ~Archived(Item(b))
          PROVE  Advances(Item(b))
      <4>1. PICK i \in RawId : i = Item(b)
        BY <3>3
      <4> QED
        BY <1>0, <1>2, <3>3, <4>1, HandleAdvances
    <3> QED
      BY <1>2, <3>2, <3>3, BatchStaysSound
  <2> QED
    BY <1>2, <2>1, <2>2, OthersKeepBatches
<1>3. ASSUME NEW a \in Archiver, Archive(a), UNCHANGED batchVars PROVE BInv'
  <2>1. AInv'
    BY <1>0, <1>3, ArchiveStep
  <2>2. ASSUME NEW b \in Batch, Item(b) \in RawId PROVE BatchSound(b)'
    <3>1. Item(b)' = Item(b)
      BY <1>3 DEF batchVars, Item
    <3>2. PICK i \in RawId : i = Item(b)
      BY <2>2
    <3>3. Archived(i) => Archived(i)'
      BY <1>0, <1>3, ArchivedStays
    <3>4. ~Archived(i)' => Advances(i)
      BY <1>0, <1>3, ArchiveAdvances
    <3> QED
      BY <1>3, <3>1, <3>2, <3>3, <3>4, BatchStaysSound DEF Archived, Advances
  <2>3. ASSUME NEW b \in Batch, Item(b) \notin RawId PROVE BatchSound(b)'
    <3>1. bpc[b] \notin {"move", "update"} /\ bpc' = bpc
      BY <1>3, <2>3, OrderTyped DEF BInv, StepsFitOrders, Holding, batchVars
    <3> QED
      BY <3>1 DEF BatchSound
  <2> QED
    BY <1>3, <2>1, <2>2, <2>3, OthersKeepBatches
<1>4. ASSUME NEW b \in Batch, Apply(b) PROVE BInv'
  <2>1. BatchTypeOK /\ StepsFitOrders /\ UnitsAreConserved /\ ManifestsCoverBatches
    BY DEF BInv
  <2>2. BatchTypeOK' /\ StepsFitOrders' /\ UnitsAreConserved' /\ ManifestsCoverBatches'
    BY <1>4, <2>1, ApplyTyped, ApplyFits, ApplyUnits, ApplyManifests
  <2> QED
    BY <1>4, <2>2, ApplyAInv, ApplySound DEF BInv
<1> QED
  BY <1>1, <1>2, <1>3, <1>4 DEF BatchNext

\* The inductive invariant holds in every reachable state.
THEOREM BInvAlways == BatchSpec => []BInv
BY InitBInv, NextBInv, PTL DEF BatchSpec

-----------------------------------------------------------------------------
(***************************************************************************)
(* Theorems.                                                               *)
(***************************************************************************)

\* No way for an item to end loses or doubles a work unit: processOne gives
\* back in a deferred call what Apply took for it.
THEOREM UnitsConserved == BatchSpec => []UnitsAreConserved
BY BInvAlways, PTL DEF BInv

\* Whatever becomes of a batch, its manifest is there while it works and gone
\* when it is answered.
THEOREM ManifestsCover == BatchSpec => []ManifestsCoverBatches
BY BInvAlways, PTL DEF BInv

\* A batch writes over the very record it read and along the table, whatever
\* requests without a revision, other batches and archive requests wrote since:
\* the write names the revision that was read, and no revision comes back
\* before the id is freed.
THEOREM BatchMoves == BatchSpec => BatchMovesWhatItRead
<1>1. BInv /\ [BatchNext]_systemVars =>
        [\A b \in Batch : BatchWrites(b) =>
           \/ /\ items[Item(b)] = bread[b]
              /\ CanMove(order[b].from, items'[Item(b)].status)
           \/ Archived(Item(b))]_systemVars
  <2> SUFFICES ASSUME BInv, BatchNext, NEW b \in Batch, BatchWrites(b),
                      ~Archived(Item(b))
               PROVE  /\ items[Item(b)] = bread[b]
                      /\ CanMove(order[b].from, items'[Item(b)].status)
    BY DEF BatchNext
  <2>1. Apply(b)
    <3>1. bpc'[b] # bpc[b]
      BY DEF BatchWrites
    <3> QED
      BY <3>1, ApplyIsLocal DEF BInv, BatchNext, batchVars, systemVars
  <2>2. BatchReplaces(b)
    BY <2>1, BatchItems DEF BInv
  <2>3. /\ items[Item(b)] = bread[b]
        /\ bread[b].status = order[b].from /\ CanMove(bread[b].status, order[b].to)
    BY <2>2 DEF BatchReplaces, BInv, BatchSound, CopySound, StepsFitOrders
  <2> QED
    BY <2>2, <2>3 DEF BatchReplaces
<1> QED
  BY <1>1, BInvAlways, PTL DEF BatchSpec, BatchMovesWhatItRead

\* Each step of a batch leaves it fewer steps, and a batch that waits for a unit
\* waits for one that another batch holds at a step that waits for nothing: of
\* EveryoneAnswered, this is all but that whoever can run does run.
THEOREM RunningOut ==
  BatchSpec => BatchesRunOut /\ [](units = 0 => \E b \in Batch : Holding(b))
<1>1. BInv /\ [BatchNext]_systemVars =>
        [\A b \in Batch :
           StepsLeft(b) \in Nat /\ (bpc'[b] # bpc[b] => StepsLeft(b)' < StepsLeft(b))]_systemVars
  <2> SUFFICES ASSUME BInv, BatchNext, NEW b \in Batch
               PROVE  /\ StepsLeft(b) \in Nat
                      /\ bpc'[b] # bpc[b] => StepsLeft(b)' < StepsLeft(b)
    BY DEF BatchNext
  <2> DEFINE n == Items(b) + 1 - at[b]
  <2>0. BatchTypeOK /\ StepsFitOrders
    BY DEF BInv
  <2>1. /\ Items(b) \in Nat /\ at[b] \in 1..(Items(b) + 1) /\ bpc[b] \in BatchStep
        /\ Holding(b) => at[b] \in 1..Items(b)
    BY <2>0, OrderTyped DEF BatchTypeOK, StepsFitOrders, BatchStep
  <2>2. n \in Nat
    BY <2>1
  <2>3. StepsLeft(b) \in Nat
    <3> HIDE DEF n
    <3> QED
      BY <2>1, <2>2 DEF StepsLeft, n, BatchStep
  <2>4. ASSUME bpc'[b] # bpc[b] PROVE StepsLeft(b)' < StepsLeft(b)
    <3>1. Apply(b)
      BY <2>0, <2>4, ApplyIsLocal DEF BatchNext, batchVars, systemVars
    <3>2. Items(b)' = Items(b)
      BY <2>0, <3>1, ApplyIsLocal DEF Items
    <3>3. \/ /\ at'[b] = at[b]
             /\ \/ bpc[b] = "claim" /\ bpc'[b] \in {"take", "done"}
                \/ bpc[b] = "take" /\ bpc'[b] \in {"get", "release"}
                \/ bpc[b] = "get" /\ bpc'[b] \in {"move", "give"}
                \/ bpc[b] = "move" /\ bpc'[b] \in {"update", "give"}
                \/ bpc[b] = "update" /\ bpc'[b] \in {"progress", "give"}
                \/ bpc[b] = "progress" /\ bpc'[b] = "give"
                \/ bpc[b] = "give" /\ bpc'[b] = "release"
                \/ bpc[b] = "release" /\ bpc'[b] = "done"
          \/ at'[b] = at[b] + 1 /\ bpc[b] = "give" /\ bpc'[b] = "take"
      BY <2>0, <2>1, <3>1 DEF Apply, Proceeds, BatchClaim, BatchTake, BatchGet,
         BatchMove, BatchUpdate, BatchProgress, BatchGive, BatchRelease, BatchExpires,
         BatchGoto, BatchEnds, ItemEnds, BatchTypeOK
    <3> QED
      BY <2>1, <2>2, <3>2, <3>3 DEF StepsLeft
  <2> QED
    BY <2>3, <2>4
<1>2. BInv => (units = 0 => \E b \in Batch : Holding(b))
  <2> SUFFICES ASSUME BInv, units = 0, \A b \in Batch : ~Holding(b) PROVE FALSE
    OBVIOUS
  <2>1. {b \in Batch : Holding(b)} = {}
    OBVIOUS
  <2>2. Cardinality({b \in Batch : Holding(b)}) = 0
    BY <2>1, FS_EmptySet
  <2> QED
    BY <2>2, BatchAssumption DEF BInv, UnitsAreConserved
<1> QED
  BY <1>1, <1>2, BInvAlways, PTL DEF BatchSpec, BatchesRunOut

\* The id names a record, live or archived.
Known(i) == Stored(i) \/ closed[i] # Absent

\* Once an id names a record it always does: Archive saves before it deletes,
\* and nothing leaves the archive.
LEMMA KnownStays ==
  ASSUME BInv, [BatchNext]_systemVars, NEW i \in RawId, Known(i)
  PROVE  Known(i)'
<1>0. AInv /\ TypeOK /\ StepsFitCalls /\ ArchiveTypeOK /\ BatchTypeOK /\ StepsFitOrders
  BY DEF BInv, AInv, ArchiveTypeOK
<1>1. CASE UNCHANGED systemVars
  BY <1>1 DEF systemVars, allVars, vars, archiveVars, Known, Stored
<1>2. ASSUME NEW r \in Request, Handle(r), UNCHANGED archiveVars PROVE Known(i)'
  BY <1>0, <1>2, RecordsStay DEF archiveVars, Known
<1>3. ASSUME NEW a \in Archiver, Archive(a) PROVE Known(i)'
  <2>1. closed[i] # Absent => closed'[i] # Absent
    BY <1>0, <1>3, AbsentAssumption DEF Archive, ArchiveGet, ArchiveSave, ArchiveDelete,
       ArchiveExpires, ArchiveTypeOK, AInv, CopiesAreClosed
  <2>2. Deletes(a) /\ i = aid[a] => closed[i] # Absent
    BY <1>0 DEF Deletes, AInv, CopiesAreClosed
  <2> QED
    BY <1>0, <1>3, <2>1, <2>2, ArchiveItems DEF Known, Deletes, Stored
<1>4. ASSUME NEW b \in Batch, Apply(b) PROVE Known(i)'
  <2>1. closed' = closed
    BY <1>0, <1>4, ApplyIsLocal DEF foreignVars, archiveVars
  <2>2. Stored(i) => Stored(i)'
    BY <1>0, <1>4, BatchItems, AbsentAssumption DEF BatchReplaces, Stored
  <2> QED
    BY <2>1, <2>2 DEF Known
<1> QED
  BY <1>1, <1>2, <1>3, <1>4 DEF BatchNext

\* Notes and records are under different locks, and records leave the live
\* store; still a note is only ever kept for an id that names a record.
THEOREM NotesKnown == BatchSpec => []NotesHaveARecord
<1> DEFINE Inv == /\ \A i \in RawId : notes[i] # <<>> => Known(i)
                  /\ \A r \in Request : pc[r] = "append" => Known(Key(r))
<1>1. BatchInit => Inv
  BY DEF BatchInit, ArchiveInit, Init
<1>2. BInv /\ Inv /\ [BatchNext]_systemVars => Inv'
  <2> SUFFICES ASSUME BInv, Inv, [BatchNext]_systemVars PROVE Inv'
    OBVIOUS
  <2>0. TypeOK /\ BatchTypeOK
    BY DEF BInv, BatchTypeOK, ArchiveTypeOK
  <2>1. call' = call /\ \A r \in Request : Key(r)' = Key(r) /\ Key(r) \in RawId
    <3>1. call' = call
      BY <2>0, CallsNeverChange, ArchiveItems, ApplyIsLocal DEF BInv, AInv, BatchNext, Next,
         systemVars, allVars, vars, requestVars, foreignVars
    <3> QED
      BY <2>0, <3>1, KeyIsId DEF Key, TypeOK
  <2>2. \A i \in RawId : Known(i) => Known(i)'
    BY KnownStays
  <2>3. CASE UNCHANGED <<notes, pc>>
    BY <2>1, <2>2, <2>3
  <2>4. ASSUME NEW r \in Request, Handle(r) PROVE Inv'
    <3>1. ASSUME NEW i \in RawId, notes'[i] # <<>> PROVE Known(i)
      BY <2>0, <2>1, <2>4, <3>1 DEF Handle, BodyRefused, CreateRefused, CreateTaken,
         CreateExpires, CreatePut, TransitionGet, TransitionMove, TransitionUpdate,
         TransitionExpires, NoteGet, NoteAppend, AuditAdd, TypeOK
    <3>2. ASSUME NEW s \in Request, pc'[s] = "append" PROVE Known(Key(s))
      <4>1. CASE s # r
        BY <2>0, <2>4, <3>2, <4>1, StepIsLocal
      <4>2. CASE s = r
        BY <2>0, <2>4, <3>2, <4>2 DEF Handle, BodyRefused, CreateRefused, CreateTaken,
           CreateExpires, CreatePut, TransitionGet, TransitionMove, TransitionUpdate,
           TransitionExpires, NoteGet, NoteAppend, AuditAdd, Goto, Finish, TypeOK, Known
      <4> QED
        BY <4>1, <4>2
    <3> QED
      BY <2>1, <2>2, <3>1, <3>2
  <2>5. UNCHANGED <<notes, pc>> \/ \E r \in Request : Handle(r)
    BY <2>0, ArchiveItems, ApplyIsLocal DEF BInv, AInv, BatchNext, systemVars, allVars,
       vars, requestVars, foreignVars
  <2> QED
    BY <2>3, <2>4, <2>5
<1>3. Inv => NotesHaveARecord
  BY DEF NotesHaveARecord, Known
<1> QED
  BY <1>1, <1>2, <1>3, BInvAlways, PTL DEF BatchSpec

-----------------------------------------------------------------------------
(***************************************************************************)
(* Writes and those who count them.                                        *)
(***************************************************************************)

\* The transitions that have written, and the batches whose current item is
\* written but not counted yet.
Commits == {r \in Request : Committed(r)}
Underway == {b \in Batch : \/ bpc[b] = "progress"
                           \/ bpc[b] = "give" /\ outcome[b] = "applied"}

\* The sets that are counted are finite, and their sizes agree.
WritesAgree ==
  /\ IsFiniteSet(Rewrites) /\ IsFiniteSet(AppliedItems)
  /\ Cardinality(Rewrites)
       = Cardinality(Commits) + Cardinality(AppliedItems) + Cardinality(Underway)

LEMMA CommitsAndUnderwayAreFinite ==
  ASSUME IsFiniteSet(Request)
  PROVE  IsFiniteSet(Commits) /\ IsFiniteSet(Underway)
<1>1. Commits \in SUBSET Request /\ Underway \in SUBSET Batch
  BY DEF Commits, Underway
<1> QED
  BY <1>1, BatchAssumption, FS_Subset

LEMMA SizesAreNaturals ==
  ASSUME IsFiniteSet(Request), WritesAgree
  PROVE  /\ Cardinality(Rewrites) \in Nat /\ Cardinality(Commits) \in Nat
         /\ Cardinality(AppliedItems) \in Nat /\ Cardinality(Underway) \in Nat
BY CommitsAndUnderwayAreFinite, FS_CardinalityType DEF WritesAgree

\* A record's next revision is one more write.
LEMMA NextRevisionRewrites ==
  ASSUME StoreTypeOK, NEW i \in RawId, Stored(i), items'[i] \in Record,
         items'[i].revision = items[i].revision + 1,
         \A j \in RawId \ {i} : items'[j] = items[j]
  PROVE  \E w : w \notin Rewrites /\ Rewrites' = Rewrites \cup {w}
<1> DEFINE n == items[i].revision
           w == <<i, n + 1>>
<1>1. n \in Nat \ {0}
  BY DEF StoreTypeOK, Stored, Record
<1>2. Stored(i)' /\ \A j \in RawId \ {i} : Stored(j)' <=> Stored(j)
  BY AbsentAssumption DEF Stored
<1>3. 2..(n + 1) = (2..n) \cup {n + 1} /\ n + 1 \notin 2..n
  BY <1>1
<1>4. w \notin Rewrites
  BY <1>3 DEF Rewrites
<1>5. ASSUME NEW p, NEW j \in RawId, j # i
      PROVE  p \in {j} \X (2..items'[j].revision) <=> p \in {j} \X (2..items[j].revision)
  BY <1>5
<1>6. \A p : p \in {i} \X (2..items'[i].revision)
               <=> p \in {i} \X (2..n) \/ p = w
  BY <1>3
<1>7. Rewrites' = Rewrites \cup {w}
  <2> HIDE DEF w, n
  <2>1. \A p : p \in Rewrites
                 <=> \E j \in RawId : Stored(j) /\ p \in {j} \X (2..items[j].revision)
    BY DEF Rewrites
  <2>2. \A p : p \in Rewrites'
                 <=> \E j \in RawId : Stored(j)' /\ p \in {j} \X (2..items'[j].revision)
    BY DEF Rewrites
  <2>3. \A p : p \in {i} \X (2..items[i].revision) <=> p \in {i} \X (2..n)
    BY DEF n
  <2>4. \A p : p \in Rewrites' <=> p \in Rewrites \/ p = w
    BY <1>2, <1>5, <1>6, <2>1, <2>2, <2>3
  <2> QED
    BY <2>4
<1> QED
  BY <1>4, <1>7

\* A creation is no write over a record: the new one has revision 1.
LEMMA CreationRewritesNothing ==
  ASSUME NEW r \in Request, TypeOK, Adds(r)
  PROVE  Rewrites' = Rewrites
<1>1. items'[Key(r)].revision = 1 /\ Key(r) \in RawId /\ ~Stored(Key(r))
  BY DEF Adds, NewRecord
<1>2. \A j \in RawId \ {Key(r)} : items'[j] = items[j] /\ (Stored(j)' <=> Stored(j))
  BY DEF Adds, Stored
<1>3. \A n : n \notin 2..1
  OBVIOUS
<1>4. \A p : p \in Rewrites
               <=> \E j \in RawId \ {Key(r)} :
                     Stored(j) /\ p \in {j} \X (2..items[j].revision)
  BY <1>1 DEF Rewrites
<1>5. \A p : p \notin {Key(r)} \X (2..items'[Key(r)].revision)
  BY <1>1, <1>3
<1>6. \A p : p \in Rewrites'
               <=> \E j \in RawId \ {Key(r)} :
                     Stored(j)' /\ p \in {j} \X (2..items'[j].revision)
  BY <1>1, <1>5 DEF Rewrites
<1>7. \A p : p \in Rewrites' <=> p \in Rewrites
  BY <1>2, <1>4, <1>6
<1> QED
  BY <1>7

\* A request that replaces a record is one more that has written; no other
\* step of a request writes over a record or makes it one that has.
LEMMA RequestWritesAgree ==
  ASSUME IsFiniteSet(Request), BInv, NEW r \in Request, Handle(r),
         UNCHANGED <<archiveVars, batchVars>>, WritesAgree
  PROVE  WritesAgree'
<1>1. /\ TypeOK /\ StepsFitCalls /\ StoreTypeOK
      /\ call' = call
  BY CallsNeverChange DEF BInv, AInv, ArchiveTypeOK, TypeOK, Next
<1>2. AppliedItems' = AppliedItems /\ Underway' = Underway
  BY DEF AppliedItems, Underway, batchVars
<1>3. \A s \in Request \ {r} : Committed(s)' <=> Committed(s)
  BY <1>1, StepIsLocal DEF Committed
<1>4. CASE Replaces(r) /\ call[r].kind = "transition" /\ answer' = answer
  <2>1. Stored(Key(r))
    BY <1>4 DEF Replaces, CanUpdate
  <2>2. PICK w : w \notin Rewrites /\ Rewrites' = Rewrites \cup {w}
    <3>1. PICK i \in RawId : i = Key(r)
      BY <1>4 DEF Replaces
    <3> QED
      BY <1>1, <1>4, <2>1, <3>1, NextRevisionRewrites DEF Replaces
  <2>3. r \notin Commits /\ Committed(r)'
    BY <1>1, <1>4, EffectStep DEF Commits, Committed, Replaces
  <2>4. Commits' = Commits \cup {r}
    BY <1>3, <2>3 DEF Commits
  <2>5. /\ Cardinality(Rewrites') = Cardinality(Rewrites) + 1
        /\ IsFiniteSet(Rewrites')
    BY <2>2, FS_AddElement DEF WritesAgree
  <2>6. Cardinality(Commits') = Cardinality(Commits) + 1
    BY <2>3, <2>4, CommitsAndUnderwayAreFinite, FS_AddElement
  <2> QED
    BY <1>2, <2>5, <2>6, SizesAreNaturals DEF WritesAgree
<1>5. ASSUME Rewrites' = Rewrites, Committed(r)' <=> Committed(r)
      PROVE  WritesAgree'
  <2>1. Commits' = Commits
    BY <1>3, <1>5 DEF Commits
  <2> QED
    BY <1>2, <1>5, <2>1 DEF WritesAgree
<1>6. CASE Adds(r) /\ call[r].kind = "create"
  BY <1>1, <1>5, <1>6, CreationRewritesNothing DEF Committed
<1>7. CASE items' = items /\ (call[r].kind = "transition" => (Effective(r)' <=> Effective(r)))
  BY <1>1, <1>5, <1>7 DEF Rewrites, Stored, Committed, Effective
<1>8. \/ Replaces(r) /\ call[r].kind = "transition" /\ answer' = answer
      \/ Adds(r) /\ call[r].kind = "create"
      \/ /\ items' = items
         /\ call[r].kind = "transition" => (Effective(r)' <=> Effective(r))
  BY <1>1, EffectStep DEF Effective
<1> QED
  BY <1>4, <1>6, <1>7, <1>8

\* A batch that replaces a record has its item under way until it counts it.
LEMMA BatchWritesAgree ==
  ASSUME IsFiniteSet(Request), BInv, NEW b \in Batch, Apply(b), WritesAgree
  PROVE  WritesAgree'
<1>1. BatchTypeOK /\ StepsFitOrders /\ StoreTypeOK
  BY DEF BInv, BatchTypeOK, ArchiveTypeOK, TypeOK
<1>2. Commits' = Commits
  BY <1>1, ApplyIsLocal DEF Commits, Committed, foreignVars, requestVars
<1>3. \A c \in Batch \ {b} : /\ bpc'[c] = bpc[c] /\ outcome'[c] = outcome[c]
                             /\ tally'[c] = tally[c]
  BY <1>1, ApplyIsLocal
<1>4. CASE BatchReplaces(b) /\ tally' = tally
  <2>1. PICK w : w \notin Rewrites /\ Rewrites' = Rewrites \cup {w}
    <3>1. PICK i \in RawId : i = Item(b)
      BY <1>4 DEF BatchReplaces
    <3> QED
      BY <1>1, <1>4, <3>1, NextRevisionRewrites DEF BatchReplaces
  <2>2. AppliedItems' = AppliedItems
    BY <1>4 DEF AppliedItems
  <2>3. b \notin Underway /\ Underway' = Underway \cup {b}
    BY <1>3, <1>4 DEF Underway, BatchReplaces
  <2>4. /\ Cardinality(Rewrites') = Cardinality(Rewrites) + 1
        /\ IsFiniteSet(Rewrites')
    BY <2>1, FS_AddElement DEF WritesAgree
  <2>5. Cardinality(Underway') = Cardinality(Underway) + 1
    BY <2>3, CommitsAndUnderwayAreFinite, FS_AddElement
  <2> QED
    BY <1>2, <2>2, <2>4, <2>5, SizesAreNaturals DEF WritesAgree
<1>5. CASE BatchGive(b) /\ outcome[b] = "applied"
  <2>1. PICK n \in Nat : n = tally[b].applied
    BY <1>1 DEF BatchTypeOK
  <2>2. tally'[b].applied = n + 1 /\ Rewrites' = Rewrites
    BY <1>1, <1>5, <2>1 DEF BatchGive, BatchTypeOK, Rewrites, Stored, allVars, vars
  <2>3. <<b, n + 1>> \notin AppliedItems
    BY <2>1 DEF AppliedItems
  <2>4. AppliedItems' = AppliedItems \cup {<<b, n + 1>>}
    <3>1. \A p : p \in {b} \X (1..(n + 1)) <=> p \in {b} \X (1..n) \/ p = <<b, n + 1>>
      OBVIOUS
    <3>2. \A p : p \in AppliedItems
                   <=> \E c \in Batch : p \in {c} \X (1..tally[c].applied)
      BY DEF AppliedItems
    <3>3. \A p : p \in AppliedItems'
                   <=> \E c \in Batch : p \in {c} \X (1..tally'[c].applied)
      BY DEF AppliedItems
    <3>4. /\ \A p : p \in {b} \X (1..tally[b].applied) <=> p \in {b} \X (1..n)
          /\ \A p : p \in {b} \X (1..tally'[b].applied) <=> p \in {b} \X (1..(n + 1))
          /\ \A c \in Batch \ {b} : \A p : p \in {c} \X (1..tally'[c].applied)
                                             <=> p \in {c} \X (1..tally[c].applied)
      BY <1>3, <2>1, <2>2
    <3>5. \A p : p \in AppliedItems' <=> p \in AppliedItems \/ p = <<b, n + 1>>
      BY <3>1, <3>2, <3>3, <3>4
    <3> QED
      BY <3>5
  <2>5. b \in Underway /\ Underway' = Underway \ {b}
    BY <1>1, <1>3, <1>5 DEF Underway, BatchGive, BatchGoto, BatchTypeOK
  <2>6. /\ Cardinality(AppliedItems') = Cardinality(AppliedItems) + 1
        /\ IsFiniteSet(AppliedItems')
    BY <2>3, <2>4, FS_AddElement DEF WritesAgree
  <2>7. Cardinality(Underway') = Cardinality(Underway) - 1
    BY <2>5, CommitsAndUnderwayAreFinite, FS_RemoveElement
  <2> QED
    BY <1>2, <2>2, <2>6, <2>7, SizesAreNaturals DEF WritesAgree
<1>6. CASE items' = items /\ tally'[b].applied = tally[b].applied
           /\ (b \in Underway' <=> b \in Underway)
  <2>1. Rewrites' = Rewrites
    BY <1>6 DEF Rewrites, Stored
  <2>2. AppliedItems' = AppliedItems
    <3>1. \A c \in Batch : tally'[c].applied = tally[c].applied
      BY <1>3, <1>6
    <3> QED
      BY <3>1 DEF AppliedItems
  <2>3. Underway' = Underway
    BY <1>3, <1>6 DEF Underway
  <2> QED
    BY <1>2, <2>1, <2>2, <2>3 DEF WritesAgree
<1>7. CASE BatchUpdate(b)
  <2>1. tally' = tally /\ bpc[b] = "update"
    BY <1>7 DEF BatchUpdate
  <2>2. BatchReplaces(b) \/ (items' = items /\ ~BatchWrites(b))
    BY <1>1, <1>7, BatchItems DEF BatchUpdate, BatchWrites, BatchGoto, BatchTypeOK, ItemEnds
  <2>3. ~BatchWrites(b) => b \notin Underway'
    BY <1>1, <1>7 DEF BatchUpdate, BatchWrites, Underway, BatchGoto, BatchTypeOK, ItemEnds,
       UpdateError
  <2> QED
    BY <1>4, <1>6, <2>1, <2>2, <2>3 DEF Underway
<1>8. CASE ~BatchUpdate(b) /\ ~(BatchGive(b) /\ outcome[b] = "applied")
  <2>1. items' = items
    BY <1>8 DEF Apply, Proceeds, BatchClaim, BatchTake, BatchGet, BatchMove,
       BatchProgress, BatchGive, BatchRelease, BatchExpires, allVars, vars
  <2>2. tally'[b].applied = tally[b].applied
    BY <1>1, <1>8 DEF Apply, Proceeds, BatchClaim, BatchTake, BatchGet, BatchMove,
       BatchProgress, BatchGive, BatchRelease, BatchExpires, BatchTypeOK
  <2>3. b \in Underway' <=> b \in Underway
    BY <1>1, <1>8 DEF Apply, Proceeds, BatchClaim, BatchTake, BatchGet, BatchMove,
       BatchProgress, BatchGive, BatchRelease, BatchExpires, BatchTypeOK,
       BatchGoto, BatchEnds, ItemEnds, Underway
  <2> QED
    BY <1>6, <2>1, <2>2, <2>3
<1> QED
  BY <1>5, <1>7, <1>8

\* Batches and requests together lose no write and count none twice, and a
\* batch that fails half-way has counted the writes it made: every revision
\* after a record's first belongs to one transition that wrote or to one item
\* that a batch counts or is about to count.
THEOREM WritesCounted ==
  ASSUME IsFiniteSet(Request)
  PROVE  BatchSpec => []EveryWriteIsCounted
<1> DEFINE Quiet == \A a \in Archiver : result[a] # "ok"
           Inv == Quiet => WritesAgree
<1>1. BatchInit => Inv
  <2> SUFFICES ASSUME BatchInit PROVE WritesAgree
    OBVIOUS
  <2>1. PICK S \in SUBSET {j \in RawId : Normal[j] = j} :
          \E status \in [S -> Status] :
            items = [j \in RawId |-> IF j \in S THEN NewRecord("seed", status[j])
                                                ELSE Absent]
    BY DEF BatchInit, ArchiveInit, Init, Seeded
  <2>2. \A i \in RawId : Stored(i) => items[i].revision = 1
    BY <2>1 DEF Stored, NewRecord
  <2>3. Rewrites = {}
    <3>1. \A n : n \notin 2..1
      OBVIOUS
    <3> QED
      BY <2>2, <3>1 DEF Rewrites
  <2>4. AppliedItems = {}
    <3>1. \A n : n \notin 1..0
      OBVIOUS
    <3> QED
      BY <3>1 DEF AppliedItems, BatchInit
  <2>5. Commits = {} /\ Underway = {}
    BY DEF BatchInit, ArchiveInit, Init, Commits, Committed, Underway
  <2> QED
    BY <2>3, <2>4, <2>5, FS_EmptySet DEF WritesAgree
<1>2. BInv /\ Inv /\ [BatchNext]_systemVars => Inv'
  <2> SUFFICES ASSUME BInv, Inv, [BatchNext]_systemVars, Quiet' PROVE WritesAgree'
    OBVIOUS
  <2>0. AInv /\ BatchTypeOK
    BY DEF BInv
  <2>1. CASE UNCHANGED systemVars
    BY <2>1 DEF WritesAgree, Rewrites, AppliedItems, Commits, Committed, Underway, Stored,
       systemVars, allVars, vars, requestVars, archiveVars, batchVars
  <2>2. ASSUME NEW r \in Request, Handle(r), UNCHANGED <<archiveVars, batchVars>>
        PROVE  WritesAgree'
    BY <2>2, RequestWritesAgree DEF archiveVars
  <2>3. ASSUME NEW a \in Archiver, Archive(a), UNCHANGED batchVars
        PROVE  WritesAgree'
    <3>1. items' = items /\ UNCHANGED requestVars /\ Quiet
      BY <2>0, <2>3, SuccessDeletes, ArchiveItems DEF AInv, Deletes
    <3> QED
      BY <2>3, <3>1 DEF WritesAgree, Rewrites, AppliedItems, Commits, Committed, Underway,
         Stored, requestVars, batchVars
  <2>4. ASSUME NEW b \in Batch, Apply(b) PROVE WritesAgree'
    <3>1. Quiet
      BY <2>0, <2>4, ApplyIsLocal DEF foreignVars, archiveVars
    <3> QED
      BY <2>4, <3>1, BatchWritesAgree
  <2> QED
    BY <2>1, <2>2, <2>3, <2>4 DEF BatchNext
<1>3. Inv => EveryWriteIsCounted
  BY DEF WritesAgree, EveryWriteIsCounted, Commits, Underway
<1> QED
  BY <1>1, <1>2, <1>3, BInvAlways, PTL DEF BatchSpec

-----------------------------------------------------------------------------
(***************************************************************************)
(* Refinement.                                                             *)
(***************************************************************************)

\* When every transition names a revision and nothing is archived, requests
\* and batches together still implement the atomic ledger: an item's write is
\* one Change of the record as it stands, for processOne names the revision it
\* read, and every other step of a batch is a stutter.
THEOREM BatchRefinement ==
  ASSUME 0 \notin Expected, Archiver = {}
  PROVE  BatchSpec => RefinesLedger
<1> DEFINE Given == call \in [Request -> Calls]
<1>1. BatchInit => Given /\ Ledger!Init
  BY InitRefines DEF BatchInit, ArchiveInit, Init
<1>2. BInv /\ Given /\ [BatchNext]_systemVars => Given'
  <2> SUFFICES ASSUME BInv, [BatchNext]_systemVars PROVE call' = call
    OBVIOUS
  <2> QED
    BY CallsNeverChange, ApplyIsLocal DEF BInv, BatchNext, Next, systemVars, allVars,
       vars, requestVars, foreignVars
<1>3. BInv /\ Given /\ [BatchNext]_systemVars => [Ledger!Next]_items
  <2> SUFFICES ASSUME BInv, Given, [BatchNext]_systemVars, items' # items
               PROVE  Ledger!Next
    OBVIOUS
  <2>1. /\ BatchTypeOK /\ StepsFitOrders /\ TypeOK /\ StepsFitCalls /\ StoreTypeOK
        /\ \A i : ~Archived(i)
    BY DEF BInv, BatchTypeOK, AInv, ArchiveTypeOK, TypeOK, Archived
  <2>2. ASSUME NEW r \in Request, Handle(r) PROVE Ledger!Next
    <3>1. Sound(r)
      BY <2>1 DEF BInv, AInv, SoundUntilArchived
    <3> QED
      BY <2>1, <2>2, <3>1, RevisionsNamed, HandleRefines
  <2>3. ASSUME NEW b \in Batch, Apply(b) PROVE Ledger!Next
    <3>1. BatchReplaces(b) /\ StoreTypeOK'
      BY <2>1, <2>3, BatchItems
    <3>2. items[Item(b)] = bread[b] /\ CanMove(bread[b].status, order[b].to)
      BY <2>1, <3>1 DEF BatchReplaces, BInv, BatchSound, CopySound, StepsFitOrders
    <3>3. order[b].to \in Status
      BY <2>1, OrderTyped
    <3> QED
      BY <2>1, <3>1, <3>2, <3>3, ReplacingRefines DEF BatchReplaces
  <2>4. (\E r \in Request : Handle(r)) \/ (\E b \in Batch : Apply(b))
    BY DEF BatchNext, systemVars, allVars, vars
  <2> QED
    BY <2>2, <2>3, <2>4
<1> QED
  BY <1>1, <1>2, <1>3, BInvAlways, PTL DEF BatchSpec, RefinesLedger, Ledger!Spec

-----------------------------------------------------------------------------
(***************************************************************************)
(* Refinement of the ledger with an archive, for every input.              *)
(***************************************************************************)

\* A batch's step leaves what was kept and is being kept behind the records.
LEMMA ApplyKeepsPast ==
  ASSUME BInv, CopiesArePast, NEW b \in Batch, Apply(b)
  PROVE  CopiesArePast'
<1>1. AInv /\ BatchTypeOK /\ StepsFitOrders /\ BatchSound(b)
  BY DEF BInv
<1>2. UNCHANGED archiveVars
  BY <1>1, ApplyIsLocal DEF foreignVars
<1>3. \A i : Archived(i)' <=> Archived(i)
  BY <1>2 DEF archiveVars, Archived
<1>4. StoreAdvances
  BY <1>1, <1>3, ApplyAdvances DEF StoreAdvances
<1> QED
  BY <1>1, <1>2, <1>4, OutsideKeepsPast

\* An item's write is a Change, or the write over a record that took the place
\* of the one the batch had read; nothing else a batch does shows.
LEMMA ApplyRefinesStores ==
  ASSUME BInv, NEW b \in Batch, Apply(b)
  PROVE  [Stores!ArchiveNext]_Stores!ledgerVars
<1>1. BatchTypeOK /\ StepsFitOrders /\ BatchSound(b) /\ StoreTypeOK
  BY DEF BInv, BatchTypeOK, ArchiveTypeOK, TypeOK
<1>2. UNCHANGED <<pc, call, answer, closed, aid, result>>
  BY <1>1, ApplyIsLocal DEF foreignVars, requestVars, archiveVars
<1>3. FreedIds' = FreedIds /\ OverwrittenIds' = OverwrittenIds
  BY <1>2, FreedSame DEF OverwrittenIds, Overwritten, Committed, Key
<1>4. CASE items' = items
  BY <1>2, <1>3, <1>4 DEF Stores!ledgerVars
<1>5. CASE BatchReplaces(b)
  <2>1. PICK i \in RawId : i = Item(b)
    BY <1>5 DEF BatchReplaces
  <2>2. i \notin FreedIds => items[i] = bread[b] /\ CanMove(bread[b].status, order[b].to)
    BY <1>1, <1>5, <2>1 DEF BatchReplaces, BatchSound, CopySound, StepsFitOrders, FreedIds
  <2>3. /\ Stored(i) /\ items'[i] \in Record
        /\ items'[i].revision = items[i].revision + 1
        /\ items'[i].origin = bread[b].origin /\ items'[i].status = order[b].to
        /\ \A j \in RawId \ {i} : items'[j] = items[j]
    BY <1>5, <2>1 DEF BatchReplaces
  <2>4. StoreTypeOK'
    BY <1>1, BatchItems
  <2> QED
    BY <1>1, <1>2, <1>3, <2>2, <2>3, <2>4, WriteRefines
<1> QED
  BY <1>1, <1>4, <1>5, BatchItems

\* Batches beside requests and archive requests of every kind, with or without
\* a named revision and whatever is archived meanwhile, implement the ledger
\* with an archive: unlike BatchRefinement this restricts no input.
THEOREM BatchArchiveRefinement == BatchSpec => RefinesArchiveLedger
<1>1. BatchInit => CopiesArePast /\ Stores!ArchiveInit
  BY InitPast, InitRefinesStores DEF BatchInit
<1>2. BInv /\ CopiesArePast /\ [BatchNext]_systemVars => CopiesArePast'
  <2> SUFFICES ASSUME BInv, CopiesArePast, [BatchNext]_systemVars PROVE CopiesArePast'
    OBVIOUS
  <2>0. AInv
    BY DEF BInv
  <2>1. CASE UNCHANGED systemVars
    <3>1. StoreAdvances /\ UNCHANGED archiveVars
      BY <2>1 DEF systemVars, allVars, vars, StoreAdvances, Advances, Archived, archiveVars
    <3> QED
      BY <2>0, <3>1, OutsideKeepsPast
  <2>2. ASSUME NEW r \in Request, Handle(r), UNCHANGED archiveVars PROVE CopiesArePast'
    <3>1. StoreAdvances
      BY <2>0, <2>2, HandleAdvances DEF StoreAdvances, Archived, archiveVars
    <3> QED
      BY <2>0, <2>2, <3>1, OutsideKeepsPast
  <2> QED
    BY <2>0, <2>1, <2>2, ArchivingKeepsPast, ApplyKeepsPast DEF BatchNext
<1>3. BInv /\ CopiesArePast /\ [BatchNext]_systemVars =>
        [Stores!ArchiveNext]_Stores!ledgerVars
  <2> SUFFICES ASSUME BInv, CopiesArePast, [BatchNext]_systemVars
               PROVE  [Stores!ArchiveNext]_Stores!ledgerVars
    OBVIOUS
  <2>0. AInv
    BY DEF BInv
  <2>1. CASE UNCHANGED systemVars
    BY <2>1 DEF systemVars, allVars, vars, requestVars, archiveVars, Stores!ledgerVars,
       FreedIds, Archived, OverwrittenIds, Overwritten, Committed, Key
  <2> QED
    BY <2>0, <2>1, HandleRefinesStores, ArchivingRefinesStores, ApplyRefinesStores
       DEF BatchNext
<1> QED
  BY <1>1, <1>2, <1>3, BInvAlways, PTL
     DEF BatchSpec, RefinesArchiveLedger, Stores!ArchiveSpec

\* So batches, too, lose no record and leave every kept copy a past of the live
\* record until its id is freed.
COROLLARY BatchKeepsPromises ==
  BatchSpec => [](KeysAreNormal /\ Stores!KeptIsPast) /\ Stores!NothingIsLost
BY BatchArchiveRefinement, LedgerPromises, LedgerInvGives, PTL

=============================================================================
