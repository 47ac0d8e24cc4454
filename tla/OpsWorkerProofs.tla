---------------------------- MODULE OpsWorkerProofs ----------------------------
(***************************************************************************)
(* Proofs about OpsWorker, for any requests, archive requests, ids and     *)
(* bounds.                                                                 *)
(*                                                                         *)
(* WInv, the inductive invariant, adds to that of OpsArchive that none of  *)
(* the worker's copies is ahead of the store (the listed records, the      *)
(* snapshot being made and the one in the cache), that what it listed was  *)
(* stalled and stays so until it is written, and that what the loop has    *)
(* dealt with has been written since; each until the id is freed.          *)
(***************************************************************************)
EXTENDS OpsWorker, OpsArchiveProofs, FiniteSetTheorems, SequenceTheorems

\* A transition under way is of a listed record, its copy is the listed one,
\* and outside the loop no record waits for it.
StepsFitTick ==
  /\ wpc \in {"move", "update", "audit"} => target \in RawId /\ due[target] # Absent
  /\ wpc \in {"move", "update"} =>
       /\ wread \in Record
       /\ Archived(target) \/ wread = due[target]
  /\ wpc \notin {"next", "move", "update", "audit"} => todo = {}

\* What was listed was active, and until it is written it is old.
DueStalled ==
  \A i \in RawId : due[i] # Absent /\ ~Archived(i) =>
    /\ due[i].status = "active"
    /\ due[i].revision = items[i].revision => i \in old

\* The loop still has to come to the record, or to the end of its transition.
Owed(i) == i \in todo \/ (wpc \in {"move", "update"} /\ i = target)

\* Every listed record that the loop owes nothing is further on in records.
Beaten(records) ==
  \A i \in RawId \ missed : due[i] # Absent /\ ~Archived(i) =>
    Owed(i) \/ records[i].revision > due[i].revision

\* As long as the tick has time, what the loop leaves behind has been written.
LoopAdvances ==
  ~cut =>
    /\ wpc \in {"next", "move", "update", "audit", "list"} => Beaten(items)
    /\ wpc = "refresh" => Beaten(latest)

WInv == /\ WorkerTypeOK /\ AInv
        /\ StepsFitTick
        /\ Past(due) /\ Past(latest) /\ Past(cache)
        /\ DueStalled /\ LoopAdvances

-----------------------------------------------------------------------------
(***************************************************************************)
(* What a step does to the store.                                          *)
(***************************************************************************)

\* The worker has closed the record of its target.
WorkerReplaces ==
  /\ wpc' = "audit"
  /\ target \in RawId /\ Stored(target)
  /\ items[target].revision = due[target].revision
  /\ items'[target] \in Record
  /\ items'[target].revision = items[target].revision + 1
  /\ items'[target].origin = wread.origin
  /\ items'[target].status = "closed"
  /\ \A i \in RawId \ {target} : items'[i] = items[i]

\* The transition of the worker ends without a write, for a reason.
WorkerYields ==
  /\ wpc' = "next"
  /\ cut \/ ~CanUpdate(target, due[target].revision)
  /\ items' = items

LEMMA WorkerUpdateStep ==
  ASSUME WInv, WorkerUpdate
  PROVE  (WorkerReplaces \/ WorkerYields) /\ StoreTypeOK'
<1>1. /\ StoreTypeOK /\ wpc = "update"
      /\ target \in RawId /\ wread \in Record /\ due[target] \in Record
  BY DEF WInv, WorkerTypeOK, AInv, ArchiveTypeOK, TypeOK, StepsFitTick, WorkerUpdate
<1>2. CASE ~cut /\ CanUpdate(target, due[target].revision)
  <2>1. /\ Update(target, [wread EXCEPT !.status = "closed"])
        /\ wpc' = "audit" /\ Stored(target)
    BY <1>2 DEF WorkerUpdate, WorkerWrites, CanUpdate
  <2>2. items[target].revision = due[target].revision
    BY <1>1, <1>2 DEF CanUpdate, RevisionAgrees, Record
  <2>3. "closed" \in Status
    BY DEF Status, NamedStatus
  <2> QED
    BY <1>1, <2>1, <2>2, <2>3, UpdateReplaces DEF WorkerReplaces
<1>3. CASE ~(~cut /\ CanUpdate(target, due[target].revision))
  BY <1>1, <1>3 DEF WorkerUpdate, TransitionEnds, WorkerYields, StoreTypeOK
<1> QED
  BY <1>2, <1>3

\* Until its id is freed, the record that the worker closes is the listed one.
LEMMA WorkerClosesListed ==
  ASSUME WInv, wpc = "update", WorkerReplaces, ~Archived(target)
  PROVE  items[target] = due[target] /\ wread = due[target] /\ target \in old
BY DEF WInv, StepsFitTick, Past, CopySound, DueStalled, WorkerReplaces

\* Every step of the worker but its write leaves the store alone.
LEMMA TickItems ==
  ASSUME Tick, ~WorkerUpdate
  PROVE  UNCHANGED <<items, notes, requestVars, archiveVars>>
BY DEF Tick, TickBegins, WorkerScan, WorkerLeavesLoop, WorkerGet, WorkerMove,
   WorkerTransitionExpires, WorkerAudit, WorkerList, WorkerRefresh, WorkerPrune,
   allVars, vars

\* The worker writes moves and events of the types that requests write.
LEMMA TickLogs ==
  ASSUME WInv, Tick
  PROVE  /\ history' \in Seq([from : Status, to : Status])
         /\ events' \in Seq([by : Request \cup {"worker"}, record : RawId,
                             type : {"created", "status_changed", "note_added"}])
<1> DEFINE Event == [by : Request \cup {"worker"}, record : RawId,
                     type : {"created", "status_changed", "note_added"}]
<1>1. /\ history \in Seq([from : Status, to : Status]) /\ events \in Seq(Event)
      /\ wpc \in {"move", "update", "audit"} => target \in RawId
      /\ wpc \in {"move", "update"} => wread \in Record
  BY DEF WInv, WorkerTypeOK, ArchiveTypeOK, TypeOK, StepsFitTick
<1>2. CASE WorkerMove
  <2> DEFINE move == [from |-> wread.status, to |-> "closed"]
  <2>1. move \in [from : Status, to : Status]
    BY <1>1, <1>2 DEF WorkerMove, Record, Status, NamedStatus
  <2>2. events' = events /\ (history' = history \/ history' = Append(history, move))
    BY <1>2 DEF WorkerMove
  <2> QED
    BY <1>1, <2>1, <2>2, AppendIsTyped
<1>3. CASE WorkerAudit
  <2> DEFINE new == [by |-> "worker", record |-> target, type |-> "status_changed"]
  <2>1. new \in Event
    BY <1>1, <1>3 DEF WorkerAudit
  <2>2. history' = history /\ events' = Append(events, new)
    BY <1>3 DEF WorkerAudit
  <2> HIDE DEF Event
  <2> QED
    BY <1>1, <2>1, <2>2, AppendIsTyped DEF Event
<1>4. CASE WorkerPrune
  <2>1. history' = history /\ events' = Pruned(events)
    BY <1>4 DEF WorkerPrune
  <2>2. Pruned(events) \in Seq(Event)
    <3> HIDE DEF Event
    <3>1. Len(events) \in Nat /\ Keep \in Nat
      BY <1>1, WorkerAssumption
    <3>2. CASE Len(events) <= Keep
      BY <1>1, <3>2 DEF Pruned
    <3>3. CASE ~(Len(events) <= Keep)
      <4>1. /\ Len(events) - Keep + 1 \in Int /\ Len(events) \in Int
            /\ \A i \in Len(events) - Keep + 1 .. Len(events) : events[i] \in Event
        BY <1>1, <3>1, <3>3
      <4>2. SubSeq(events, Len(events) - Keep + 1, Len(events)) \in Seq(Event)
        BY <4>1, SubSeqProperties
      <4> QED
        BY <3>3, <4>2 DEF Pruned
    <3> QED
      BY <3>2, <3>3
  <2> QED
    BY <1>1, <2>1, <2>2
<1>5. CASE ~WorkerMove /\ ~WorkerAudit /\ ~WorkerPrune
  <2>1. UNCHANGED <<history, events>>
    BY <1>5 DEF Tick, TickBegins, WorkerScan, WorkerLeavesLoop, WorkerGet, WorkerUpdate,
       WorkerTransitionExpires, WorkerList, WorkerRefresh, allVars, vars
  <2> QED
    BY <1>1, <2>1
<1> QED
  BY <1>2, <1>3, <1>4, <1>5

\* Every step keeps what OpsArchive relies on: the worker writes with the
\* revision that it listed, and a closed record stays closed under it.
LEMMA StoreStep ==
  ASSUME WInv, [WorkerNext]_everyVar
  PROVE  AInv' /\ StoreAdvances
<1>0. AInv /\ TypeOK /\ StoreTypeOK
  BY DEF WInv, AInv, ArchiveTypeOK, TypeOK
<1>1. CASE UNCHANGED allVars
  <2>1. AInv'
    BY <1>0, <1>1, NextAInv
  <2> QED
    BY <1>1, <2>1 DEF StoreAdvances, Advances, Archived, allVars, vars, archiveVars
<1>2. CASE WorkerUpdate
  <2>1. UNCHANGED <<history, events, notes, pc, call, read, answer, archiveVars>>
        /\ wpc = "update"
    BY <1>2 DEF WorkerUpdate, requestVars
  <2>2. (WorkerReplaces \/ WorkerYields) /\ StoreTypeOK'
    BY <1>2, WorkerUpdateStep
  <2>3. TypeOK'
    BY <1>0, <2>1, <2>2 DEF TypeOK
  <2>4. \A i \in RawId : Archived(i)' <=> Archived(i)
    BY <2>1 DEF Archived, archiveVars
  <2>5. ASSUME NEW i \in RawId, Stored(i), ~Archived(i)
        PROVE  /\ Advances(i)
               /\ Terminal(items[i]) => Stored(i)' /\ Terminal(items'[i])
    <3>1. CASE items'[i] = items[i]
      BY <2>5, <3>1 DEF Advances, Stored, Terminal
    <3>2. CASE WorkerReplaces /\ i = target
      <4>1. items'[i].origin = items[i].origin
        BY <2>1, <2>5, <3>2, WorkerClosesListed DEF WorkerReplaces
      <4> QED
        BY <3>2, <4>1, AbsentAssumption DEF WorkerReplaces, Advances, Stored, Terminal
    <3> QED
      BY <2>2, <3>1, <3>2 DEF WorkerReplaces, WorkerYields
  <2> QED
    BY <1>0, <2>1, <2>3, <2>4, <2>5, OutsideStep DEF StoreAdvances
<1>3. CASE Tick /\ ~WorkerUpdate
  <2>1. UNCHANGED <<items, notes, pc, call, read, answer, archiveVars>>
    BY <1>3, TickItems DEF requestVars
  <2>2. TypeOK'
    BY <1>0, <1>3, <2>1, TickLogs DEF TypeOK, StoreTypeOK
  <2>3. \A i \in RawId : Archived(i)' <=> Archived(i)
    BY <2>1 DEF Archived, archiveVars
  <2>4. \A i \in RawId : Advances(i) /\ (Stored(i) <=> Stored(i)')
    BY <2>1 DEF Advances, Stored
  <2> QED
    BY <1>0, <2>1, <2>2, <2>3, <2>4, OutsideStep DEF StoreAdvances, Terminal
<1>4. ASSUME NEW r \in Request, Handle(r), UNCHANGED archiveVars
      PROVE  AInv' /\ StoreAdvances
  <2>1. \A i \in RawId : Archived(i)' <=> Archived(i)
    BY <1>4 DEF Archived, archiveVars
  <2> QED
    BY <1>0, <1>4, <2>1, HandleStep, HandleAdvances DEF StoreAdvances
<1>5. ASSUME NEW a \in Archiver, Archive(a) PROVE AInv' /\ StoreAdvances
  BY <1>0, <1>5, ArchiveStep, ArchivedStays, ArchiveAdvances DEF StoreAdvances
<1> QED
  BY <1>1, <1>2, <1>3, <1>4, <1>5 DEF WorkerNext, TickExpires, CacheExpires, Ages,
     OthersStep, everyVar

-----------------------------------------------------------------------------
(***************************************************************************)
(* What a step does to the worker's own state.                             *)
(***************************************************************************)

\* Whoever else runs leaves the tick where it is, but for its time.
LEMMA OthersKeepTick ==
  ASSUME [WorkerNext]_everyVar, ~Tick
  PROVE  /\ UNCHANGED <<wpc, due, todo, target, wread, missed, latest, cache>>
         /\ cut' = cut \/ cut' = TRUE
         /\ fresh' = fresh \/ fresh' = FALSE
         /\ timeouts' = timeouts \/ (timeouts < MaxTimeouts /\ timeouts' = timeouts + 1)
BY Zenon DEF WorkerNext, TickExpires, CacheExpires, Ages, OthersStep, everyVar, workerVars,
   loopVars, cacheVars

\* A record that is not written keeps its age.
LEMMA OldStep ==
  ASSUME WInv, [WorkerNext]_everyVar
  PROVE  /\ old' \subseteq {i \in RawId : Stored(i)'}
         /\ \A i \in old : items'[i] = items[i] => i \in old'
<1>1. old \subseteq {i \in RawId : Stored(i)}
  BY DEF WInv, WorkerTypeOK
<1>2. \/ Stamps
      \/ items' = items /\ (old' = old \/ \E i \in RawId : Stored(i) /\ old' = old \cup {i})
  BY DEF WorkerNext, Tick, TickBegins, WorkerScan, WorkerLeavesLoop, WorkerGet, WorkerMove,
     WorkerUpdate, WorkerTransitionExpires, WorkerAudit, WorkerList, WorkerRefresh,
     WorkerPrune, TickExpires, CacheExpires, Ages, OthersStep, everyVar, allVars, vars,
     workerVars
<1> QED
  BY <1>1, <1>2 DEF Stamps, Stored

LEMMA TypedStep ==
  ASSUME WInv, [WorkerNext]_everyVar
  PROVE  WorkerTypeOK'
<1> DEFINE Copies == [RawId -> Record \cup {Absent}]
<1>1. ArchiveTypeOK' /\ old' \subseteq {i \in RawId : Stored(i)'}
  BY StoreStep, OldStep DEF AInv
<1>2. /\ WorkerTypeOK /\ StepsFitTick /\ items \in Copies
      /\ MaxTimeouts \in Nat /\ timeouts \in 0..MaxTimeouts
  BY WorkerAssumption DEF WInv, WorkerTypeOK, ArchiveTypeOK, TypeOK, StoreTypeOK
<1>3. CASE ~Tick
  <2>1. timeouts' \in 0..MaxTimeouts
    <3>1. timeouts' = timeouts \/ (timeouts < MaxTimeouts /\ timeouts' = timeouts + 1)
      BY <1>3, OthersKeepTick, Zenon
    <3> QED
      BY <1>2, <3>1
  <2>2. cut' \in BOOLEAN /\ fresh' \in BOOLEAN
    <3>1. cut \in BOOLEAN /\ fresh \in BOOLEAN
      BY <1>2 DEF WorkerTypeOK
    <3> QED
      BY <1>3, <3>1, OthersKeepTick, Zenon
  <2>3. UNCHANGED <<wpc, due, todo, target, wread, missed, latest, cache>>
    BY <1>3, OthersKeepTick
  <2> QED
    BY <1>1, <1>2, <2>1, <2>2, <2>3 DEF WorkerTypeOK
<1>4. CASE Tick
  <2>1. due' \in Copies /\ latest' \in Copies /\ cache' \in Copies
    <3>1. CASE WorkerScan
      BY <1>2, <3>1 DEF WorkerScan, WorkerTypeOK, cacheVars
    <3>2. NoRecords \in Copies
      BY DEF NoRecords
    <3> HIDE DEF Copies
    <3>3. due \in Copies /\ latest \in Copies /\ cache \in Copies
      BY <1>2 DEF WorkerTypeOK, Copies
    <3>4. ~WorkerScan => /\ due' \in {due, NoRecords}
                         /\ latest' \in {latest, items, NoRecords}
                         /\ cache' \in {cache, latest}
      BY <1>4 DEF Tick, TickBegins, WorkerLeavesLoop, WorkerGet, WorkerMove, WorkerUpdate,
         WorkerTransitionExpires, WorkerAudit, WorkerList, WorkerRefresh, WorkerPrune,
         allVars, vars, cacheVars
    <3> QED
      BY <1>2, <3>1, <3>2, <3>3, <3>4 DEF Copies
  <2>2. todo' \subseteq {i \in RawId : due'[i] # Absent}
    <3>1. CASE WorkerScan
      <4>1. \A i \in RawId : Due(i) => items[i] # Absent
        BY DEF Due, Stalled, Stored
      <4> QED
        BY <1>2, <3>1, <4>1 DEF WorkerScan, WorkerTypeOK
    <3>2. CASE WorkerPrune
      BY <1>2, <3>2 DEF WorkerPrune, StepsFitTick
    <3>3. CASE ~WorkerScan /\ ~WorkerPrune
      <4>1. due' = due /\ todo' \subseteq todo
        BY <1>4, <3>3 DEF Tick, TickBegins, WorkerLeavesLoop, WorkerGet, WorkerMove,
           WorkerUpdate, WorkerTransitionExpires, WorkerAudit, WorkerList, WorkerRefresh
      <4> QED
        BY <1>2, <4>1 DEF WorkerTypeOK
    <3> QED
      BY <3>1, <3>2, <3>3
  <2>3. /\ wpc' \in {"idle", "scan", "next", "move", "update", "audit", "list",
                     "refresh", "prune"}
        /\ cut' \in BOOLEAN /\ fresh' \in BOOLEAN
        /\ timeouts' \in 0..MaxTimeouts
    <3>1. timeouts' = timeouts \/ (timeouts < MaxTimeouts /\ timeouts' = timeouts + 1)
      BY <1>4 DEF Tick, TickBegins, WorkerScan, WorkerLeavesLoop, WorkerGet, WorkerMove,
         WorkerUpdate, WorkerTransitionExpires, WorkerAudit, WorkerList, WorkerRefresh,
         WorkerPrune
    <3>2. timeouts' \in 0..MaxTimeouts
      BY <1>2, <3>1
    <3> QED
      BY <1>2, <1>4, <3>2 DEF WorkerTypeOK, Tick, TickBegins, WorkerScan, WorkerLeavesLoop,
         WorkerGet, WorkerMove, WorkerUpdate, WorkerWrites, WorkerTransitionExpires,
         WorkerAudit, WorkerList, WorkerRefresh, WorkerPrune, TransitionEnds, cacheVars
  <2>4. target' \in RawId \cup {Absent} /\ wread' \in Record \cup {Absent}
    <3>1. CASE WorkerGet
      BY <1>2, <3>1 DEF WorkerGet, WorkerTypeOK
    <3>2. CASE ~WorkerGet
      BY <1>2, <1>4, <3>2 DEF WorkerTypeOK, Tick, TickBegins, WorkerScan, WorkerLeavesLoop,
         WorkerMove, WorkerUpdate, WorkerWrites, WorkerTransitionExpires,
         WorkerAudit, WorkerList, WorkerRefresh, WorkerPrune, TransitionEnds
    <3> QED
      BY <3>1, <3>2
  <2>5. missed' \subseteq RawId
    <3>1. missed \subseteq RawId /\ todo \subseteq RawId /\ (wpc = "update" => target \in RawId)
      BY <1>2 DEF WorkerTypeOK, StepsFitTick
    <3> QED
      BY <1>4, <3>1 DEF Tick, TickBegins, WorkerScan, WorkerLeavesLoop, WorkerGet,
         WorkerMove, WorkerUpdate, WorkerTransitionExpires, WorkerAudit, WorkerList,
         WorkerRefresh, WorkerPrune
  <2> QED
    BY <1>1, <2>1, <2>2, <2>3, <2>4, <2>5 DEF WorkerTypeOK
<1> QED
  BY <1>3, <1>4

\* What the worker goes on with is a listed record that was found as listed.
LEMMA TickFits ==
  ASSUME WInv, [WorkerNext]_everyVar
  PROVE  StepsFitTick'
<1>1. StepsFitTick /\ Past(due) /\ \A i \in RawId : Archived(i) => Archived(i)'
  BY StoreStep DEF WInv, StoreAdvances
<1>2. /\ due \in [RawId -> Record \cup {Absent}] /\ todo \subseteq {i \in RawId : due[i] # Absent}
      /\ items \in [RawId -> Record \cup {Absent}]
  BY DEF WInv, WorkerTypeOK, ArchiveTypeOK, TypeOK, StoreTypeOK
<1>3. CASE UNCHANGED <<wpc, due, todo, target, wread>>
  BY <1>1, <1>3 DEF StepsFitTick
<1>4. CASE WorkerGet /\ wpc' = "move"
  <2>1. PICK i \in todo : /\ CanUpdate(i, due[i].revision)
                          /\ target' = i /\ wread' = items[i] /\ wpc = "next"
    BY <1>4 DEF WorkerGet
  <2>2. i \in RawId /\ due[i] # Absent /\ due[i] \in Record /\ items[i] \in Record
    BY <1>2, <2>1 DEF CanUpdate, Stored
  <2>3. items[i].revision = due[i].revision
    BY <2>1, <2>2 DEF CanUpdate, RevisionAgrees, Record
  <2>4. Archived(i)' \/ items[i] = due[i]
    BY <1>1, <2>2, <2>3 DEF Past, CopySound
  <2>5. due' = due
    BY <1>4 DEF WorkerGet
  <2> QED
    BY <1>4, <2>1, <2>2, <2>4, <2>5 DEF StepsFitTick
<1>5. CASE WorkerMove \/ WorkerUpdate \/ WorkerAudit
  BY <1>1, <1>5 DEF StepsFitTick, WorkerMove, WorkerUpdate, WorkerWrites, WorkerAudit,
     TransitionEnds
<1>6. CASE Tick /\ ~(WorkerGet /\ wpc' = "move") /\ ~WorkerMove /\ ~WorkerUpdate /\ ~WorkerAudit
  BY <1>1, <1>6 DEF StepsFitTick, Tick, TickBegins, WorkerScan, WorkerLeavesLoop, WorkerGet,
     WorkerTransitionExpires, WorkerList, WorkerRefresh, WorkerPrune, TransitionEnds
<1> QED
  BY <1>3, <1>4, <1>5, <1>6, OthersKeepTick

-----------------------------------------------------------------------------
(***************************************************************************)
(* What the worker's copies say of the store.                              *)
(***************************************************************************)

LEMMA PastStep ==
  ASSUME WInv, [WorkerNext]_everyVar
  PROVE  Past(due)' /\ Past(latest)' /\ Past(cache)'
<1> DEFINE Copies == [RawId -> Record \cup {Absent}]
<1>1. /\ due \in Copies /\ latest \in Copies /\ cache \in Copies /\ items \in Copies
      /\ Past(due) /\ Past(latest) /\ Past(cache)
      /\ StoreTypeOK
  BY DEF WInv, WorkerTypeOK, ArchiveTypeOK, TypeOK, StoreTypeOK
<1>2. StoreAdvances
  BY StoreStep
<1>3. \A copies \in Copies : Past(copies) => Past(copies)'
  BY <1>1, <1>2, PastStays
<1>4. Past(items) /\ NoRecords \in Copies /\ Past(NoRecords)
  BY <1>1, ListIsPast DEF Past, Stored, NoRecords
<1>5. PICK d \in Copies, l \in Copies, c \in Copies, s \in Copies :
        d = due /\ l = latest /\ c = cache /\ s = items
  BY <1>1
<1>6. Past(d)' /\ Past(l)' /\ Past(c)' /\ Past(s)' /\ Past(NoRecords)'
  BY <1>1, <1>3, <1>4, <1>5
<1>7. CASE WorkerScan /\ ~cut
  <2>1. /\ items' = items /\ latest' = l /\ cache' = c
        /\ due' = [i \in RawId |-> IF Due(i) THEN items[i] ELSE Absent]
    BY <1>5, <1>7 DEF WorkerScan, allVars, vars, cacheVars
  <2>2. \A i \in RawId : due'[i] # Absent => due'[i] = s[i] /\ s[i] # Absent
    BY <1>5, <2>1
  <2> QED
    BY <1>6, <2>1, <2>2 DEF Past
<1>8. CASE ~(WorkerScan /\ ~cut)
  <2>1. due' \in {due, NoRecords} /\ latest' \in {latest, items, NoRecords}
        /\ cache' \in {cache, latest}
    <3>1. CASE Tick
      BY <1>8, <3>1 DEF Tick, TickBegins, WorkerScan, WorkerLeavesLoop, WorkerGet,
         WorkerMove, WorkerUpdate, WorkerTransitionExpires, WorkerAudit, WorkerList,
         WorkerRefresh, WorkerPrune, allVars, vars, cacheVars
    <3>2. CASE ~Tick
      BY <3>2, OthersKeepTick
    <3> QED
      BY <3>1, <3>2
  <2>2. due' = d \/ due' = NoRecords
    BY <1>5, <2>1
  <2>3. latest' = l \/ latest' = s \/ latest' = NoRecords
    BY <1>5, <2>1
  <2>4. cache' = c \/ cache' = l
    BY <1>5, <2>1
  <2> QED
    BY <1>6, <2>2, <2>3, <2>4 DEF Past, NoRecords
<1> QED
  BY <1>7, <1>8

\* A listed record that has not been freed is live, and no step takes it back.
LEMMA DueStays ==
  ASSUME WInv, StoreAdvances, NEW i \in RawId, due[i] # Absent, ~Archived(i)'
  PROVE  /\ ~Archived(i) /\ Stored(i) /\ CopySound(due[i], i) /\ Advances(i)
         /\ due[i].revision \in Nat /\ due[i].revision > 0
         /\ items[i].revision \in Nat /\ items'[i].revision \in Nat
         /\ items'[i].revision >= items[i].revision
<1>1. ~Archived(i) /\ CopySound(due[i], i) /\ Stored(i) /\ Advances(i)
  BY DEF StoreAdvances, WInv, Past, CopySound
<1>2. due[i] \in Record /\ items[i] \in Record
  BY <1>1 DEF WInv, WorkerTypeOK, ArchiveTypeOK, TypeOK, StoreTypeOK, Stored
<1> QED
  BY <1>1, <1>2 DEF Record, Advances

LEMMA DueStep ==
  ASSUME WInv, [WorkerNext]_everyVar
  PROVE  DueStalled'
<1> SUFFICES ASSUME NEW i \in RawId, due'[i] # Absent, ~Archived(i)'
             PROVE  /\ due'[i].status = "active"
                    /\ due'[i].revision = items'[i].revision => i \in old'
  BY DEF DueStalled
<1>1. StoreAdvances
  BY StoreStep
<1>2. CASE WorkerScan /\ ~cut
  <2>1. /\ items' = items /\ old' = old
        /\ due' = [j \in RawId |-> IF Due(j) THEN items[j] ELSE Absent]
    BY <1>2 DEF WorkerScan, allVars, vars
  <2> QED
    BY <2>1 DEF Due, Stalled
<1>3. CASE WorkerPrune
  BY <1>3 DEF WorkerPrune, NoRecords
<1>4. CASE ~(WorkerScan /\ ~cut) /\ ~WorkerPrune
  <2>1. due' = due
    <3>1. CASE Tick
      BY <1>4, <3>1 DEF Tick, TickBegins, WorkerScan, WorkerLeavesLoop, WorkerGet,
         WorkerMove, WorkerUpdate, WorkerTransitionExpires, WorkerAudit, WorkerList,
         WorkerRefresh
    <3>2. CASE ~Tick
      BY <3>2, OthersKeepTick
    <3> QED
      BY <3>1, <3>2
  <2>2. /\ ~Archived(i) /\ CopySound(due[i], i) /\ Advances(i)
        /\ due[i].revision \in Nat /\ items[i].revision \in Nat
    BY <1>1, <2>1, DueStays
  <2>3. /\ due[i].status = "active"
        /\ due[i].revision = items[i].revision => i \in old
    BY <2>1, <2>2 DEF WInv, DueStalled
  <2>4. CASE items'[i] = items[i]
    BY <2>1, <2>3, <2>4, OldStep
  <2>5. CASE items'[i] # items[i]
    <3>1. items'[i].revision = items[i].revision + 1 /\ due[i].revision <= items[i].revision
      BY <2>2, <2>5 DEF Advances, CopySound
    <3>2. due[i].revision # items'[i].revision
      BY <2>2, <3>1
    <3> QED
      BY <2>1, <2>3, <3>2
  <2> QED
    BY <2>4, <2>5
<1> QED
  BY <1>2, <1>3, <1>4

\* A record that cannot be updated at the listed revision has been written.
LEMMA LostRace ==
  ASSUME WInv, StoreAdvances, NEW i \in RawId, due[i] # Absent, ~Archived(i)',
         ~CanUpdate(i, due[i].revision)
  PROVE  items[i].revision > due[i].revision
<1>1. /\ Stored(i) /\ CopySound(due[i], i) /\ due[i].revision > 0
      /\ due[i].revision \in Nat /\ items[i].revision \in Nat
  BY DueStays
<1>2. items[i].revision # due[i].revision
  BY <1>1 DEF CanUpdate, RevisionAgrees
<1>3. due[i].revision <= items[i].revision
  BY <1>1 DEF CopySound
<1> QED
  BY <1>1, <1>2, <1>3

\* The worker does not leave a listed record behind unless it has been written,
\* by the worker or by whoever won the race; or the deadline was missed, or the
\* id freed.
LEMMA LoopStep ==
  ASSUME WInv, [WorkerNext]_everyVar
  PROVE  LoopAdvances'
<1> DEFINE InLoop == {"next", "move", "update", "audit", "list"}
<1> SUFFICES ASSUME ~cut', NEW i \in RawId, i \notin missed', due'[i] # Absent,
                    ~Archived(i)', ~Owed(i)'
             PROVE  /\ wpc' \in InLoop => items'[i].revision > due'[i].revision
                    /\ wpc' = "refresh" => latest'[i].revision > due'[i].revision
  BY DEF LoopAdvances, Beaten
<1>0. StoreAdvances /\ StepsFitTick /\ LoopAdvances
  BY StoreStep DEF WInv
<1>1. ASSUME due' = due
      PROVE  /\ ~Archived(i) /\ due[i] # Absent
             /\ items[i].revision > due[i].revision => items'[i].revision > due[i].revision
             /\ ~CanUpdate(i, due[i].revision) => items[i].revision > due[i].revision
  <2>1. ~Archived(i) /\ due[i] # Absent
    BY <1>0, <1>1, DueStays
  <2>2. /\ due[i].revision \in Nat /\ items[i].revision \in Nat /\ items'[i].revision \in Nat
        /\ items'[i].revision >= items[i].revision
    BY <1>0, <1>1, DueStays
  <2>3. ~CanUpdate(i, due[i].revision) => items[i].revision > due[i].revision
    BY <1>0, <1>1, LostRace
  <2> QED
    BY <2>1, <2>2, <2>3
<1>2. ASSUME ~cut, i \notin missed, ~Owed(i), wpc \in InLoop, due' = due
      PROVE  items[i].revision > due[i].revision
  BY <1>0, <1>1, <1>2 DEF LoopAdvances, Beaten
<1>3. CASE ~Tick
  <2>1. UNCHANGED <<wpc, due, todo, target, missed, latest>>
    BY <1>3, OthersKeepTick
  <2>2. ~cut
    BY <1>3, OthersKeepTick, Zenon
  <2>3. ~Owed(i)
    BY <2>1 DEF Owed
  <2>4. wpc \in InLoop => items'[i].revision > due[i].revision
    BY <1>1, <1>2, <2>1, <2>2, <2>3
  <2>5. wpc = "refresh" => latest[i].revision > due[i].revision
    BY <1>0, <1>1, <2>1, <2>2, <2>3 DEF LoopAdvances, Beaten
  <2> QED
    BY <2>1, <2>4, <2>5
<1>4. CASE TickBegins \/ WorkerRefresh \/ WorkerPrune
  BY <1>4 DEF TickBegins, WorkerRefresh, WorkerPrune
<1>5. CASE WorkerScan
  <2>1. /\ todo' = {j \in RawId : Due(j)} /\ wpc' = "next"
        /\ due' = [j \in RawId |-> IF Due(j) THEN items[j] ELSE Absent]
    BY <1>5 DEF WorkerScan
  <2>2. i \in todo'
    BY <2>1
  <2> QED
    BY <2>2 DEF Owed
<1>6. CASE WorkerLeavesLoop
  <2>1. /\ wpc = "next" /\ ~cut /\ todo = {} /\ due' = due /\ missed' = missed
        /\ wpc' = "list"
    BY <1>6 DEF WorkerLeavesLoop
  <2>2. ~Owed(i)
    BY <2>1 DEF Owed
  <2> QED
    BY <1>1, <1>2, <2>1, <2>2
<1>7. CASE WorkerGet
  <2>1. PICK j \in todo :
          /\ todo' = todo \ {j}
          /\ \/ CanUpdate(j, due[j].revision) /\ wpc' = "move" /\ target' = j
             \/ ~CanUpdate(j, due[j].revision) /\ wpc' = wpc /\ target' = target
    BY <1>7 DEF WorkerGet
  <2>2. wpc = "next" /\ ~cut /\ due' = due /\ missed' = missed
    BY <1>7 DEF WorkerGet
  <2>3. CASE i = j
    <3>1. ~CanUpdate(i, due[i].revision) /\ wpc' = "next"
      BY <2>1, <2>2, <2>3 DEF Owed
    <3> QED
      BY <1>1, <2>2, <3>1
  <2>4. CASE i # j
    <3>1. ~Owed(i)
      BY <2>1, <2>2, <2>4 DEF Owed
    <3>2. wpc' # "refresh"
      BY <2>1, <2>2
    <3> QED
      BY <1>1, <1>2, <2>2, <3>1, <3>2
  <2> QED
    BY <2>3, <2>4
<1>8. CASE WorkerMove
  <2>1. /\ wpc = "move" /\ ~cut /\ due' = due /\ missed' = missed /\ todo' = todo
        /\ wpc' # "refresh"
    BY <1>8 DEF WorkerMove, TransitionEnds
  <2>2. i # target
    <3>1. SUFFICES ASSUME i = target PROVE FALSE
      OBVIOUS
    <3>2. wread = due[i] /\ due[i].status = "active"
      BY <1>0, <1>1, <2>1, <3>1 DEF StepsFitTick, WInv, DueStalled
    <3>3. CanMove(wread.status, "closed")
      BY <3>2 DEF CanMove, NamedStatus, opsTransitionTable
    <3>4. wpc' = "update" /\ target' = target
      BY <1>8, <3>3 DEF WorkerMove
    <3> QED
      BY <3>1, <3>4 DEF Owed
  <2>3. ~Owed(i)
    BY <2>1, <2>2 DEF Owed
  <2> QED
    BY <1>1, <1>2, <2>1, <2>3
<1>9. CASE WorkerUpdate
  <2>1. /\ wpc = "update" /\ ~cut /\ due' = due /\ missed' = missed /\ todo' = todo
        /\ wpc' # "refresh"
    BY <1>9 DEF WorkerUpdate, WorkerWrites, TransitionEnds
  <2>2. WorkerReplaces \/ WorkerYields
    BY <1>9, WorkerUpdateStep
  <2>3. CASE i # target
    <3>1. ~Owed(i)
      BY <2>1, <2>2, <2>3 DEF Owed
    <3> QED
      BY <1>1, <1>2, <2>1, <3>1
  <2>4. CASE i = target /\ WorkerYields
    BY <1>1, <2>1, <2>4 DEF WorkerYields
  <2>5. CASE i = target /\ WorkerReplaces
    <3>1. due[i].revision \in Nat /\ items'[i].revision = due[i].revision + 1
      BY <1>0, <2>1, <2>5, DueStays DEF WorkerReplaces
    <3>2. items'[i].revision > due[i].revision
      BY <3>1
    <3> QED
      BY <2>1, <3>2
  <2> QED
    BY <2>2, <2>3, <2>4, <2>5
<1>10. CASE WorkerTransitionExpires
  <2>1. ~cut /\ due' = due /\ wpc' = "next"
    BY <1>10 DEF WorkerTransitionExpires, TransitionEnds
  <2>2. CASE wpc = "next"
    <3>1. PICK j \in todo : todo' = todo \ {j} /\ missed' = missed \cup {j}
      BY <1>10, <2>2 DEF WorkerTransitionExpires
    <3>2. i \notin missed /\ ~Owed(i)
      BY <2>1, <2>2, <3>1 DEF Owed
    <3> QED
      BY <1>1, <1>2, <2>1, <2>2, <3>2
  <2>3. CASE wpc = "update"
    <3>1. todo' = todo /\ missed' = missed \cup {target}
      BY <1>10, <2>3 DEF WorkerTransitionExpires
    <3>2. i \notin missed /\ ~Owed(i)
      BY <2>1, <2>3, <3>1 DEF Owed
    <3> QED
      BY <1>1, <1>2, <2>1, <2>3, <3>2
  <2> QED
    BY <1>10, <2>2, <2>3 DEF WorkerTransitionExpires
<1>11. CASE WorkerAudit
  <2>1. /\ wpc = "audit" /\ ~cut /\ due' = due /\ missed' = missed /\ todo' = todo
        /\ wpc' = "next"
    BY <1>11 DEF WorkerAudit, TransitionEnds
  <2>2. ~Owed(i)
    BY <2>1 DEF Owed
  <2> QED
    BY <1>1, <1>2, <2>1, <2>2
<1>12. CASE WorkerList
  <2>1. /\ wpc = "list" /\ ~cut /\ due' = due /\ missed' = missed /\ todo' = todo
        /\ wpc' = "refresh" /\ latest' = items
    BY <1>12 DEF WorkerList
  <2>2. ~Owed(i)
    BY <2>1 DEF Owed
  <2> QED
    BY <1>1, <1>2, <2>1, <2>2
<1> QED
  BY <1>3, <1>4, <1>5, <1>6, <1>7, <1>8, <1>9, <1>10, <1>11, <1>12 DEF Tick

-----------------------------------------------------------------------------
(***************************************************************************)
(* The inductive invariant, and what follows from it.                      *)
(***************************************************************************)

LEMMA InitWInv == WorkerInit => WInv
<1> SUFFICES ASSUME WorkerInit PROVE WInv
  OBVIOUS
<1>1. AInv
  BY InitAInv DEF WorkerInit
<1>2. NoRecords \in [RawId -> Record \cup {Absent}] /\ 0 \in 0..MaxTimeouts
  BY WorkerAssumption DEF NoRecords
<1>3. WorkerTypeOK
  BY <1>1, <1>2 DEF WorkerInit, WorkerTypeOK, AInv
<1>4. StepsFitTick /\ Past(due) /\ Past(latest) /\ Past(cache) /\ DueStalled
  BY DEF WorkerInit, NoRecords, StepsFitTick, Past, DueStalled
<1>5. LoopAdvances
  BY DEF WorkerInit, LoopAdvances
<1> QED
  BY <1>1, <1>3, <1>4, <1>5 DEF WInv

LEMMA NextWInv == WInv /\ [WorkerNext]_everyVar => WInv'
BY StoreStep, TypedStep, TickFits, PastStep, DueStep, LoopStep DEF WInv

\* The inductive invariant holds in every reachable state.
THEOREM WInvAlways == WorkerSpec => []WInv
BY InitWInv, NextWInv, PTL DEF WorkerSpec

\* The worker, the requests and the archive requests together keep every
\* variable in its type, the trail that the worker cuts included.
THEOREM WorkerTypeCorrect == WorkerSpec => []WorkerTypeOK
BY WInvAlways, PTL DEF WInv

\* An id that was freed is in the archive.
LEMMA FreedIsKept ==
  ASSUME WInv, NEW i \in RawId, Archived(i)
  PROVE  closed[i] # Absent
BY DEF WInv, AInv, CopiesAreClosed, Archived

\* The worker closes only what is still stalled when it writes: Transition
\* names the listed revision, and without archiving no revision comes back.
THEOREM ClosesStalled == WorkerSpec => WorkerClosesOnlyStalled
<1>1. WInv /\ [WorkerNext]_everyVar =>
        [wpc = "update" /\ wpc' = "audit" =>
           Stalled(target) \/ closed[target] # Absent]_everyVar
  <2> SUFFICES ASSUME WInv, WorkerNext, wpc = "update", wpc' = "audit",
                      closed[target] = Absent
               PROVE  Stalled(target)
    BY DEF WorkerNext
  <2>1. WorkerUpdate
    <3>1. Tick
      BY OthersKeepTick, Zenon
    <3> QED
      BY <3>1 DEF Tick, TickBegins, WorkerScan, WorkerLeavesLoop, WorkerGet, WorkerMove,
         WorkerTransitionExpires, WorkerAudit, WorkerList, WorkerRefresh, WorkerPrune,
         TransitionEnds
  <2>2. WorkerReplaces
    BY <2>1, WorkerUpdateStep DEF WorkerYields
  <2>3. ~Archived(target)
    BY <2>2, FreedIsKept DEF WorkerReplaces
  <2> QED
    BY <2>2, <2>3, WorkerClosesListed DEF WorkerReplaces, Stalled, WInv, DueStalled,
       StepsFitTick
<1> QED
  BY <1>1, WInvAlways, PTL DEF WorkerSpec, WorkerClosesOnlyStalled

\* The snapshot that a tick makes has none of the states that the tick found
\* stalled, whoever wrote in between (refreshCache lists the store again).
THEOREM SnapshotCurrent == WorkerSpec => []SnapshotShowsNoStalled
<1>1. WInv => SnapshotShowsNoStalled
  <2> SUFFICES ASSUME WInv, wpc = "refresh", ~cut, NEW i \in RawId, due[i] # Absent,
                      closed[i] = Absent, i \notin missed
               PROVE  latest[i].revision > due[i].revision
    BY DEF SnapshotShowsNoStalled
  <2>1. ~Archived(i) /\ ~Owed(i)
    BY FreedIsKept DEF Owed, WInv, StepsFitTick
  <2> QED
    BY <2>1 DEF WInv, LoopAdvances, Beaten
<1> QED
  BY <1>1, WInvAlways, PTL

\* Readers of the cache see a past of the store: never ahead of it, and never
\* another record under the revision that is live (OpsSnapshotCache).
THEOREM CachePast == WorkerSpec => []CacheIsPast
<1>1. WInv => CacheIsPast
  <2> SUFFICES ASSUME WInv, NEW i \in RawId, Seen(i) # Absent, closed[i] = Absent
               PROVE  /\ Stored(i)
                      /\ Seen(i).revision <= items[i].revision
                      /\ Seen(i).revision = items[i].revision => Seen(i) = items[i]
    BY DEF CacheIsPast
  <2>1. Seen(i) = cache[i] /\ ~Archived(i)
    BY FreedIsKept DEF Seen
  <2> QED
    BY <2>1 DEF WInv, Past, CopySound
<1> QED
  BY <1>1, WInvAlways, PTL

-----------------------------------------------------------------------------
(***************************************************************************)
(* Ticks end.                                                              *)
(***************************************************************************)

\* What a step of the worker does to where the tick is.
LEMMA TickPlaces ==
  ASSUME WInv, Tick, wpc \notin {"idle", "scan"}
  PROVE  \/ /\ todo' = todo
            /\ \/ wpc = "move" /\ wpc' \in {"update", "next"}
               \/ wpc = "update" /\ wpc' \in {"audit", "next"}
               \/ wpc = "audit" /\ wpc' = "next"
               \/ wpc = "list" /\ wpc' \in {"refresh", "prune"}
               \/ wpc = "refresh" /\ wpc' = "prune"
               \/ wpc = "prune" /\ wpc' = "idle"
         \/ todo' = {} /\ wpc = "next" /\ wpc' = "list"
         \/ \E i \in todo : todo' = todo \ {i} /\ wpc = "next" /\ wpc' \in {"move", "next"}
BY DEF Tick, TickBegins, WorkerScan, WorkerLeavesLoop, WorkerGet, WorkerMove, WorkerUpdate,
   WorkerWrites, WorkerTransitionExpires, WorkerAudit, WorkerList, WorkerRefresh,
   WorkerPrune, TransitionEnds

\* Each step of a tick that has listed the store leaves it fewer, whatever the
\* requests do; of StalledIsClosed and TrailIsPruned, this is all but that the
\* worker's goroutine runs and not every tick is cut short.
THEOREM TicksEnd ==
  ASSUME IsFiniteSet(RawId)
  PROVE  WorkerSpec => TicksRunOut
<1> DEFINE Shrinks == wpc \notin {"idle", "scan"} =>
                        TickLeft' <= TickLeft /\ (Tick => TickLeft' < TickLeft)
<1>1. ASSUME WInv, [WorkerNext]_everyVar, wpc \notin {"idle", "scan"}
      PROVE  TickLeft' <= TickLeft /\ (Tick => TickLeft' < TickLeft)
  <2>1. /\ todo \in SUBSET RawId
        /\ wpc \in {"next", "move", "update", "audit", "list", "refresh", "prune"}
    BY <1>1 DEF WInv, WorkerTypeOK
  <2>2. IsFiniteSet(todo) /\ Cardinality(todo) \in Nat
    BY <2>1, FS_Subset, FS_CardinalityType
  <2>3. PICK n \in Nat : n = Cardinality(todo)
    BY <2>2
  <2>4. TickLeft \in Nat
    BY <2>1, <2>3 DEF TickLeft
  <2>5. CASE ~Tick
    <3>1. todo' = todo /\ wpc' = wpc
      BY <1>1, <2>5, OthersKeepTick
    <3> QED
      BY <2>4, <2>5, <3>1 DEF TickLeft
  <2>6. CASE Tick /\ todo' = todo
    <3>1. \/ wpc = "move" /\ wpc' \in {"update", "next"}
          \/ wpc = "update" /\ wpc' \in {"audit", "next"}
          \/ wpc = "audit" /\ wpc' = "next"
          \/ wpc = "list" /\ wpc' \in {"refresh", "prune"}
          \/ wpc = "refresh" /\ wpc' = "prune"
          \/ wpc = "prune" /\ wpc' = "idle"
          \/ wpc = "next" /\ wpc' = "list"
      BY <1>1, <2>6, TickPlaces
    <3> QED
      BY <2>3, <2>6, <3>1 DEF TickLeft
  <2>7. CASE Tick /\ todo' = {} /\ wpc = "next" /\ wpc' = "list"
    <3>1. Cardinality(todo') = 0
      BY <2>7, FS_EmptySet
    <3> QED
      BY <2>3, <2>7, <3>1 DEF TickLeft
  <2>8. ASSUME Tick, NEW i \in todo, todo' = todo \ {i}, wpc = "next", wpc' \in {"move", "next"}
        PROVE  TickLeft' < TickLeft
    <3>1. Cardinality(todo') = Cardinality(todo) - 1
      BY <2>2, <2>8, FS_RemoveElement
    <3> QED
      BY <2>3, <2>8, <3>1 DEF TickLeft
  <2>9. CASE Tick /\ \E i \in todo : todo' = todo \ {i} /\ wpc = "next" /\ wpc' \in {"move", "next"}
    <3>1. TickLeft' < TickLeft
      BY <2>8, <2>9
    <3>2. TickLeft' \in Nat
      BY <2>1, <2>9, <3>1, FS_Subset, FS_CardinalityType DEF TickLeft
    <3> QED
      BY <2>4, <3>1, <3>2
  <2> QED
    BY <1>1, <2>5, <2>6, <2>7, <2>9, TickPlaces
<1>2. WInv /\ [WorkerNext]_everyVar => [Shrinks]_everyVar
  BY <1>1
<1> QED
  BY <1>2, WInvAlways, PTL DEF WorkerSpec, TicksRunOut

-----------------------------------------------------------------------------
(***************************************************************************)
(* Refinement of the ledger with an archive.                               *)
(***************************************************************************)

\* The worker's write is a Change to closed, or the write over a record that
\* took the place of the one it had listed.
LEMMA WorkerWriteRefines ==
  ASSUME WInv, WorkerUpdate
  PROVE  [Stores!ArchiveNext]_Stores!ledgerVars
<1>1. /\ StoreTypeOK /\ StoreTypeOK' /\ wpc = "update"
      /\ UNCHANGED <<pc, call, answer, closed, aid, result>>
  BY WorkerUpdateStep DEF WInv, AInv, ArchiveTypeOK, TypeOK, WorkerUpdate, requestVars,
     archiveVars
<1>2. FreedIds' = FreedIds /\ OverwrittenIds' = OverwrittenIds
  BY <1>1, FreedSame DEF OverwrittenIds, Overwritten, Committed, Key
<1>3. CASE WorkerYields
  BY <1>1, <1>2, <1>3 DEF WorkerYields, Stores!ledgerVars
<1>4. CASE WorkerReplaces
  <2>1. target \in RawId /\ items'[target].status = "closed"
    BY <1>4 DEF WorkerReplaces
  <2>2. ASSUME target \notin FreedIds
        PROVE  /\ items'[target].origin = items[target].origin
               /\ CanMove(items[target].status, "closed")
    <3>1. items[target] = due[target] /\ wread = due[target] /\ ~Archived(target)
      BY <1>1, <1>4, <2>1, <2>2, WorkerClosesListed DEF FreedIds
    <3>2. due[target].status = "active"
      BY <1>1, <2>1, <3>1 DEF WInv, StepsFitTick, DueStalled
    <3> QED
      BY <1>4, <3>1, <3>2 DEF WorkerReplaces, CanMove, NamedStatus, opsTransitionTable
  <2> QED
    BY <1>1, <1>2, <1>4, <2>1, <2>2, WriteRefines DEF WorkerReplaces
<1> QED
  BY <1>3, <1>4, WorkerUpdateStep

\* The worker, requests and archive requests of every kind implement the ledger
\* with an archive: what the worker closes was active when it wrote, or took
\* the place of a record that was archived since the tick listed it.
THEOREM WorkerArchiveRefinement == WorkerSpec => RefinesArchiveLedger
<1>1. WorkerInit => CopiesArePast /\ Stores!ArchiveInit
  BY InitPast, InitRefinesStores DEF WorkerInit
<1>2. WInv /\ CopiesArePast /\ [WorkerNext]_everyVar => CopiesArePast'
  <2> SUFFICES ASSUME WInv, CopiesArePast, [WorkerNext]_everyVar PROVE CopiesArePast'
    OBVIOUS
  <2>1. AInv /\ StoreAdvances
    BY StoreStep DEF WInv
  <2>2. CASE UNCHANGED archiveVars
    BY <2>1, <2>2, OutsideKeepsPast
  <2>3. CASE \E a \in Archiver : Archive(a)
    BY <2>1, <2>3, ArchivingKeepsPast
  <2>4. UNCHANGED archiveVars \/ \E a \in Archiver : Archive(a)
    <3>1. CASE Tick
      BY <3>1, TickItems DEF WorkerUpdate
    <3> QED
      BY <3>1 DEF WorkerNext, TickExpires, CacheExpires, Ages, OthersStep, everyVar, allVars
  <2> QED
    BY <2>2, <2>3, <2>4
<1>3. WInv /\ CopiesArePast /\ [WorkerNext]_everyVar =>
        [Stores!ArchiveNext]_Stores!ledgerVars
  <2> SUFFICES ASSUME WInv, CopiesArePast, [WorkerNext]_everyVar
               PROVE  [Stores!ArchiveNext]_Stores!ledgerVars
    OBVIOUS
  <2>1. AInv
    BY DEF WInv
  <2>2. CASE UNCHANGED <<items, requestVars, archiveVars>>
    BY <2>2 DEF requestVars, archiveVars, Stores!ledgerVars, FreedIds, Archived,
       OverwrittenIds, Overwritten, Committed, Key
  <2>3. CASE OthersStep
    BY <2>1, <2>3, HandleRefinesStores, ArchivingRefinesStores DEF OthersStep
  <2>4. CASE Tick /\ ~WorkerUpdate
    BY <2>2, <2>4, TickItems
  <2>5. UNCHANGED <<items, requestVars, archiveVars>> \/ Tick \/ OthersStep
    BY DEF WorkerNext, TickExpires, CacheExpires, Ages, everyVar, allVars, vars
  <2> QED
    BY <2>2, <2>3, <2>4, <2>5, WorkerWriteRefines
<1> QED
  BY <1>1, <1>2, <1>3, WInvAlways, PTL
     DEF WorkerSpec, RefinesArchiveLedger, Stores!ArchiveSpec

\* So a worker beside the requests loses no record either, and what is kept
\* stays a past of the live record until its id is freed.
COROLLARY WorkerKeepsPromises ==
  WorkerSpec => [](KeysAreNormal /\ Stores!KeptIsPast) /\ Stores!NothingIsLost
BY WorkerArchiveRefinement, LedgerPromises, LedgerInvGives, PTL

=============================================================================
