--------------------------- MODULE OpsArchiveProofs ---------------------------
(***************************************************************************)
(* Proofs about OpsArchive, for any requests, archive requests, ids and    *)
(* inputs.                                                                 *)
(*                                                                         *)
(* AInv, the inductive invariant, says that what an archive request is     *)
(* about to save or delete was closed when it was read, and, of an id that *)
(* no archive request has freed, that OpsService's argument still holds:   *)
(* the copies that transitions hold are sound, and what an archive request *)
(* read is still closed unless a transition named no revision.             *)
(***************************************************************************)
EXTENDS OpsArchive, OpsServiceProofs

\* An archive request saves and deletes after it has read a closed record, and
\* deletes, and is answered with success, after it has saved; the archive has
\* closed records only.
CopiesAreClosed ==
  /\ \A a \in Archiver :
       /\ apc[a] \in {"save", "delete"} => copy[a] \in Record /\ Terminal(copy[a])
       /\ apc[a] = "delete" \/ result[a] = "ok" => closed[aid[a]] # Absent
       /\ result[a] = "ok" => apc[a] = "done"
  /\ \A i \in RawId : closed[i] # Absent => Terminal(closed[i])

\* As long as an id has not been freed, no copy of its record is ahead of it.
SoundUntilArchived == \A r \in Request : Archived(Key(r)) \/ Sound(r)

\* As long as an id has not been freed, nor its record written without a named
\* revision, the record that an archive request has read stays closed.
ClosedUntilRace ==
  \A a \in Archiver :
    apc[a] \in {"save", "delete"} =>
      \/ Archived(aid[a]) \/ Overwritten(aid[a])
      \/ Stored(aid[a]) /\ Terminal(items[aid[a]])

AInv == /\ ArchiveTypeOK /\ StepsFitCalls
        /\ CopiesAreClosed /\ SoundUntilArchived /\ ClosedUntilRace

-----------------------------------------------------------------------------
(***************************************************************************)
(* Steps of requests.                                                      *)
(***************************************************************************)

LEMMA InitAInv == ArchiveInit => AInv
<1> SUFFICES ASSUME ArchiveInit PROVE AInv
  OBVIOUS
<1>1. TypeOK /\ StepsFitCalls
  BY InitTyped DEF ArchiveInit
<1>2. ArchiveTypeOK
  BY <1>1 DEF ArchiveTypeOK, ArchiveInit
<1>3. CopiesAreClosed /\ ClosedUntilRace
  BY DEF ArchiveInit, CopiesAreClosed, ClosedUntilRace
<1>4. SoundUntilArchived
  BY DEF ArchiveInit, Init, SoundUntilArchived, Sound
<1> QED
  BY <1>1, <1>2, <1>3, <1>4 DEF AInv

\* A committed transition stays committed, whatever the others do.
LEMMA OverwrittenStays ==
  ASSUME TypeOK, StepsFitCalls, NEW r \in Request, Handle(r),
         NEW i \in RawId, Overwritten(i)
  PROVE  Overwritten(i)'
<1>1. PICK q \in Request : Committed(q) /\ Key(q) = i /\ call[q].expected = 0
  BY DEF Overwritten
<1>2. call' = call
  BY CallsNeverChange DEF Next
<1>3. Committed(q)'
  <2>1. CASE q # r
    BY <1>1, <1>2, <2>1, StepIsLocal DEF Committed
  <2>2. CASE q = r /\ pc[r] = "audit"
    <3>1. answer'[r] = "ok"
      BY <2>2 DEF TypeOK, Handle, BodyRefused, CreateRefused, CreateTaken, CreateExpires,
         CreatePut, TransitionGet, TransitionMove, TransitionUpdate, TransitionExpires,
         NoteGet, NoteAppend, AuditAdd, Finish
    <3> QED
      BY <1>1, <1>2, <2>2, <3>1 DEF Committed
  <2>3. CASE q = r /\ pc[r] # "audit"
    <3>1. pc[r] = "done"
      BY <1>1, <2>3 DEF Committed, StepsFitCalls
    <3> QED
      BY <3>1 DEF Handle, BodyRefused, CreateRefused, CreateTaken, CreateExpires, CreatePut,
         TransitionGet, TransitionMove, TransitionUpdate, TransitionExpires,
         NoteGet, NoteAppend, AuditAdd
  <2> QED
    BY <2>1, <2>2, <2>3
<1> QED
  BY <1>1, <1>2, <1>3 DEF Overwritten, Key

\* A request's step leaves a closed record closed, unless it names no revision
\* or the request's copy was not sound.
LEMMA ClosedStays ==
  ASSUME TypeOK, StepsFitCalls, NEW r \in Request, Handle(r),
         NEW i \in RawId, Stored(i), Terminal(items[i]),
         Key(r) = i => Sound(r)
  PROVE  Overwritten(i)' \/ (Stored(i)' /\ Terminal(items'[i]))
<1>1. CASE items'[i] = items[i]
  BY <1>1, RecordsStay DEF Terminal
<1>2. CASE Replaces(r) /\ i = Key(r) /\ call[r].expected = 0
  <2>1. call' = call
    BY CallsNeverChange DEF Next
  <2>2. Committed(r)'
    BY <1>2, <2>1 DEF Committed, Replaces, StepsFitCalls
  <2> QED
    BY <1>2, <2>1, <2>2 DEF Overwritten, Key
<1>3. CASE Replaces(r) /\ i = Key(r) /\ call[r].expected # 0
  <2>1. call[r].expected > 0
    BY <1>3 DEF TypeOK, CallType
  <2>2. /\ read[r] = items[i]
        /\ CanMove(read[r].status, call[r].status)
    BY <1>3, <2>1 DEF Replaces, Sound, StepsFitCalls, CanUpdate, RevisionAgrees
  <2>3. call[r].status = "closed"
    BY <2>2 DEF Terminal, CanMove, opsTransitionTable
  <2> QED
    BY <1>3, <2>3, RecordsStay DEF Replaces, Terminal
<1> QED
  BY <1>1, <1>2, <1>3, RecordsStay

LEMMA HandleStep ==
  ASSUME AInv, NEW r \in Request, Handle(r), UNCHANGED archiveVars
  PROVE  AInv'
<1>1. TypeOK /\ StepsFitCalls
  BY DEF AInv, ArchiveTypeOK
<1>2. TypeOK' /\ StepsFitCalls'
  BY <1>1, StepTyped, StepFitsCalls DEF Next
<1>3. ArchiveTypeOK'
  BY <1>2 DEF AInv, ArchiveTypeOK, archiveVars
<1>4. CopiesAreClosed'
  BY DEF AInv, CopiesAreClosed, archiveVars, Terminal
<1>5. \A i \in RawId : Archived(i)' <=> Archived(i)
  BY DEF Archived, archiveVars
<1>6. \A q \in Request : Key(q) \in RawId /\ Key(q)' = Key(q)
  BY <1>1, CallsNeverChange, KeyIsId DEF Key, TypeOK, Next
<1>7. SoundUntilArchived'
  <2> SUFFICES ASSUME NEW s \in Request, ~Archived(Key(s)) PROVE Sound(s)'
    BY <1>5, <1>6 DEF SoundUntilArchived
  <2>1. \A q \in Request : Key(q) = Key(s) => Sound(q)
    BY DEF AInv, SoundUntilArchived
  <2> QED
    BY <1>1, <2>1, StepKeepsRead
<1>8. ClosedUntilRace'
  <2> SUFFICES ASSUME NEW a \in Archiver, apc[a] \in {"save", "delete"},
                      ~Archived(aid[a]), ~Overwritten(aid[a])'
               PROVE  Stored(aid[a])' /\ Terminal(items'[aid[a]])
    BY <1>5 DEF ClosedUntilRace, archiveVars, AInv, ArchiveTypeOK, Stored, Terminal
  <2>1. aid[a] \in RawId /\ ~Overwritten(aid[a])
    BY <1>1, OverwrittenStays DEF AInv, ArchiveTypeOK, archiveVars, Overwritten
  <2>2. Stored(aid[a]) /\ Terminal(items[aid[a]])
    BY <2>1 DEF AInv, ClosedUntilRace
  <2>3. Key(r) = aid[a] => Sound(r)
    BY DEF AInv, SoundUntilArchived
  <2> QED
    BY <1>1, <2>1, <2>2, <2>3, ClosedStays DEF archiveVars, Overwritten, Stored, Terminal
<1> QED
  BY <1>2, <1>3, <1>4, <1>7, <1>8 DEF AInv

-----------------------------------------------------------------------------
(***************************************************************************)
(* Steps of archive requests.                                              *)
(***************************************************************************)

\* What an archive request's step does to the live records: nothing, or it
\* deletes the record of its id, which it is then answered to have ended.
Deletes(a) ==
  /\ apc[a] = "delete" /\ apc'[a] = "done" /\ result'[a] = "ok"
  /\ Stored(aid[a])
  /\ items'[aid[a]] = Absent
  /\ \A i \in RawId \ {aid[a]} : items'[i] = items[i]

LEMMA ArchiveItems ==
  ASSUME ArchiveTypeOK, NEW a \in Archiver, Archive(a)
  PROVE  /\ items' = items \/ Deletes(a)
         /\ aid' = aid
         /\ UNCHANGED <<history, events, notes, requestVars>>
BY DEF Archive, ArchiveGet, ArchiveSave, ArchiveDelete, ArchiveExpires, EndArchive,
   Delete, Deletes, ArchiveTypeOK, TypeOK, StoreTypeOK, vars

\* An id, once freed by an archive request, stays known as freed.
LEMMA ArchivedStays ==
  ASSUME AInv, NEW a \in Archiver, Archive(a), NEW i \in RawId
  PROVE  /\ Archived(i) => Archived(i)'
         /\ Deletes(a) /\ i = aid[a] => Archived(i)'
<1>1. aid' = aid
  BY ArchiveItems DEF AInv
<1>2. \A b \in Archiver : result[b] = "ok" => result'[b] = "ok"
  <2>1. result[a] # "ok"
    BY DEF AInv, CopiesAreClosed, Archive, ArchiveGet, ArchiveSave, ArchiveDelete,
       ArchiveExpires
  <2>2. \A b \in Archiver \ {a} : result'[b] = result[b]
    BY DEF AInv, ArchiveTypeOK, Archive, ArchiveGet, ArchiveSave, ArchiveDelete,
       ArchiveExpires, EndArchive
  <2> QED
    BY <2>1, <2>2
<1> QED
  BY <1>1, <1>2 DEF Archived, Deletes

LEMMA ArchiveStep ==
  ASSUME AInv, NEW a \in Archiver, Archive(a)
  PROVE  AInv'
<1> USE DEF AInv
<1>1. /\ TypeOK
      /\ UNCHANGED <<history, events, notes, pc, call, read, answer, aid>>
      /\ items' = items \/ Deletes(a)
  BY ArchiveItems DEF ArchiveTypeOK, requestVars
<1>2. items' \in [RawId -> Record \cup {Absent}]
  BY <1>1 DEF Archive, ArchiveGet, ArchiveSave, ArchiveDelete, ArchiveExpires,
     Delete, TypeOK, StoreTypeOK, vars
<1>3. TypeOK'
  BY <1>1, <1>2 DEF TypeOK, StoreTypeOK
<1>4. StepsFitCalls'
  BY <1>1 DEF StepsFitCalls, CanMove
<1>5. ArchiveTypeOK'
  <2>1. /\ apc' \in [Archiver -> {"get", "save", "delete", "done"}]
        /\ result' \in [Archiver ->
             {"none", "ok", "not_found", "transition", "internal"}]
    BY DEF ArchiveTypeOK, Archive, ArchiveGet, ArchiveSave, ArchiveDelete,
       ArchiveExpires, EndArchive
  <2>2. copy' \in [Archiver -> Record \cup {Absent}]
    BY DEF ArchiveTypeOK, TypeOK, StoreTypeOK, Archive, ArchiveGet, ArchiveSave,
       ArchiveDelete, ArchiveExpires
  <2>3. closed' \in [RawId -> Record \cup {Absent}]
    BY DEF ArchiveTypeOK, Archive, ArchiveGet, ArchiveSave, ArchiveDelete, ArchiveExpires
  <2> QED
    BY <1>1, <1>3, <2>1, <2>2, <2>3 DEF ArchiveTypeOK
<1>6. CopiesAreClosed'
  <2>1. CASE ArchiveGet(a)
    <3>1. Stored(aid[a]) => items[aid[a]] \in Record
      BY DEF ArchiveTypeOK, TypeOK, StoreTypeOK, Stored
    <3>2. closed' = closed /\ aid' = aid
      BY <2>1 DEF ArchiveGet
    <3>3. apc'[a] \in {"done", "save"} /\ apc[a] = "get"
      BY <2>1 DEF ArchiveGet, EndArchive, ArchiveTypeOK
    <3>4. apc'[a] = "save" => copy'[a] \in Record /\ Terminal(copy'[a]) /\ result' = result
      BY <2>1, <3>1 DEF ArchiveGet, EndArchive, ArchiveTypeOK, Terminal
    <3>5. \A b \in Archiver \ {a} :
            apc'[b] = apc[b] /\ copy'[b] = copy[b] /\ result'[b] = result[b]
      BY <2>1 DEF ArchiveGet, EndArchive, ArchiveTypeOK
    <3>6. ASSUME NEW b \in Archiver
          PROVE  /\ apc'[b] \in {"save", "delete"} => copy'[b] \in Record /\ Terminal(copy'[b])
                 /\ apc'[b] = "delete" \/ result'[b] = "ok" => closed'[aid'[b]] # Absent
                 /\ result'[b] = "ok" => apc'[b] = "done"
      <4>1. CASE b # a
        BY <3>2, <3>5, <4>1 DEF CopiesAreClosed
      <4>2. CASE b = a
        <5>1. result'[a] # "ok"
          BY <2>1, <3>3 DEF ArchiveGet, EndArchive, ArchiveTypeOK, CopiesAreClosed
        <5> QED
          BY <3>3, <3>4, <4>2, <5>1
      <4> QED
        BY <4>1, <4>2
    <3> QED
      BY <3>2, <3>6 DEF CopiesAreClosed, Terminal
  <2>2. CASE ArchiveSave(a)
    <3>1. copy[a] \in Record /\ Terminal(copy[a]) /\ copy[a] # Absent
      BY <2>2, AbsentAssumption DEF ArchiveSave, CopiesAreClosed
    <3>2. /\ closed'[aid[a]] = copy[a]
          /\ \A i \in RawId \ {aid[a]} : closed'[i] = closed[i]
          /\ apc'[a] = "delete" /\ \A b \in Archiver \ {a} : apc'[b] = apc[b]
          /\ aid' = aid /\ copy' = copy /\ result' = result
          /\ apc[a] = "save"
      BY <2>2 DEF ArchiveSave, ArchiveTypeOK
    <3> QED
      BY <3>1, <3>2 DEF CopiesAreClosed, Terminal, ArchiveTypeOK
  <2>3. CASE ArchiveDelete(a) \/ ArchiveExpires(a)
    BY <2>3 DEF ArchiveDelete, ArchiveExpires, EndArchive, CopiesAreClosed,
       ArchiveTypeOK, Terminal
  <2> QED
    BY <2>1, <2>2, <2>3 DEF Archive
<1>7. SoundUntilArchived'
  <2> SUFFICES ASSUME NEW s \in Request, ~Archived(Key(s))' PROVE Sound(s)'
    BY DEF SoundUntilArchived
  <2>1. Key(s)' = Key(s) /\ Key(s) \in RawId
    BY <1>1, KeyIsId DEF Key, TypeOK
  <2>2. ~Archived(Key(s))
    BY <2>1, ArchivedStays DEF Archived
  <2>3. items'[Key(s)] = items[Key(s)]
    BY <1>1, <2>1, ArchivedStays DEF Deletes, Archived
  <2> QED
    BY <1>1, <2>1, <2>2, <2>3 DEF SoundUntilArchived, Sound, Stored
<1>8. ClosedUntilRace'
  <2> SUFFICES ASSUME NEW b \in Archiver, apc'[b] \in {"save", "delete"},
                      ~Archived(aid[b])', ~Overwritten(aid[b])'
               PROVE  Stored(aid[b])' /\ Terminal(items'[aid[b]])
    BY <1>1 DEF ClosedUntilRace, Stored, Terminal
  <2>1. aid[b] \in RawId /\ ~Archived(aid[b]) /\ ~Overwritten(aid[b])
    BY <1>1, ArchivedStays DEF ArchiveTypeOK, Archived, Overwritten, Committed, Key
  <2>2. items'[aid[b]] = items[aid[b]]
    BY <1>1, <2>1, ArchivedStays DEF Deletes, Archived
  <2>3. CASE apc[b] \in {"save", "delete"}
    BY <1>1, <2>1, <2>2, <2>3 DEF ClosedUntilRace, Stored, Terminal
  <2>4. CASE apc[b] \notin {"save", "delete"}
    <3>1. b = a /\ Stored(aid[a]) /\ Terminal(items[aid[a]])
      BY <2>4 DEF Archive, ArchiveGet, ArchiveSave, ArchiveDelete, ArchiveExpires,
         EndArchive, ArchiveTypeOK
    <3> QED
      BY <1>1, <2>2, <3>1 DEF Stored, Terminal
  <2> QED
    BY <2>3, <2>4
<1> QED
  BY <1>3, <1>4, <1>5, <1>6, <1>7, <1>8

-----------------------------------------------------------------------------
(***************************************************************************)
(* Copies of records, and what may happen to a record under them.          *)
(***************************************************************************)

\* A copy is not ahead of the record that it was read from.
CopySound(read_, i) ==
  /\ Stored(i)
  /\ read_.revision <= items[i].revision
  /\ read_.revision = items[i].revision => read_ = items[i]
  /\ read_.origin = items[i].origin

\* The record is left alone, or replaced by the next revision of itself.
Advances(i) ==
  \/ items'[i] = items[i]
  \/ /\ items'[i] \in Record
     /\ items'[i].revision = items[i].revision + 1
     /\ items'[i].origin = items[i].origin

LEMMA CopyStaysSound ==
  ASSUME StoreTypeOK, NEW i \in RawId, NEW read_ \in Record, CopySound(read_, i),
         Advances(i)
  PROVE  CopySound(read_, i)'
<1>1. items[i] \in Record
  BY DEF StoreTypeOK, CopySound, Stored
<1>2. CASE items'[i] = items[i]
  BY <1>2 DEF CopySound, Stored
<1>3. CASE items'[i] # items[i]
  <2>1. /\ items'[i] \in Record /\ items'[i].revision = items[i].revision + 1
        /\ items'[i].origin = items[i].origin
    BY <1>3 DEF Advances
  <2>2. /\ read_.revision \in Nat /\ items[i].revision \in Nat
        /\ items'[i].revision \in Nat
        /\ read_.revision <= items[i].revision /\ read_.origin = items[i].origin
    BY <1>1, <2>1 DEF Record, CopySound
  <2>3. read_.revision < items'[i].revision
    BY <2>1, <2>2
  <2> QED
    BY <2>1, <2>2, <2>3, AbsentAssumption DEF CopySound, Stored
<1> QED
  BY <1>2, <1>3

\* None of the copies is ahead of the record it was made of.
Past(copies) ==
  \A i \in RawId : copies[i] # Absent => Archived(i) \/ CopySound(copies[i], i)

\* The step frees no id again, and makes the records of ids not freed advance.
StoreAdvances ==
  /\ \A i \in RawId : Archived(i) => Archived(i)'
  /\ \A i \in RawId : Stored(i) /\ ~Archived(i)' => Advances(i)

\* Copies that are left alone stay behind the store.
LEMMA PastStays ==
  ASSUME StoreTypeOK, StoreAdvances,
         NEW copies \in [RawId -> Record \cup {Absent}], Past(copies)
  PROVE  Past(copies)'
<1> SUFFICES ASSUME NEW i \in RawId, copies[i] # Absent, ~Archived(i)'
             PROVE  CopySound(copies[i], i)'
  BY DEF Past
<1>1. CopySound(copies[i], i)
  BY DEF Past, StoreAdvances
<1>2. Advances(i) /\ copies[i] \in Record
  BY <1>1 DEF CopySound, StoreAdvances
<1> QED
  BY <1>1, <1>2, CopyStaysSound

\* A list of the store is behind nothing.
LEMMA ListIsPast ==
  ASSUME StoreTypeOK, NEW i \in RawId, Stored(i)
  PROVE  CopySound(items[i], i)
<1>1. items[i] \in Record
  BY DEF StoreTypeOK, Stored
<1> QED
  BY <1>1 DEF CopySound, Record

\* A request's step makes the record of an id that was not freed advance.
LEMMA HandleAdvances ==
  ASSUME AInv, NEW r \in Request, Handle(r), NEW i \in RawId, Stored(i), ~Archived(i)
  PROVE  Advances(i)
<1>1. items'[i] = items[i] \/ (Replaces(r) /\ i = Key(r))
  BY RecordsStay DEF AInv, ArchiveTypeOK
<1>2. Replaces(r) /\ i = Key(r) => read[r].origin = items[i].origin
  BY DEF Replaces, Sound, AInv, SoundUntilArchived
<1> QED
  BY <1>1, <1>2 DEF Replaces, Advances

\* An archive request's step leaves the record of an id alone, or frees the id.
LEMMA ArchiveAdvances ==
  ASSUME AInv, NEW a \in Archiver, Archive(a), NEW i \in RawId, ~Archived(i)'
  PROVE  Advances(i)
<1>1. ~(Deletes(a) /\ i = aid[a])
  BY ArchivedStays
<1> QED
  BY <1>1, ArchiveItems DEF Advances, Deletes, AInv

\* Whoever else writes the store keeps the invariant, if records advance and
\* closed ones stay closed, but for the ids that were freed.
LEMMA OutsideStep ==
  ASSUME AInv, TypeOK', UNCHANGED <<pc, call, read, answer, archiveVars>>,
         \A i \in RawId : Stored(i) /\ ~Archived(i) =>
           /\ Advances(i)
           /\ Terminal(items[i]) => Stored(i)' /\ Terminal(items'[i])
  PROVE  AInv'
<1>1. /\ ArchiveTypeOK /\ TypeOK /\ StepsFitCalls /\ StoreTypeOK
      /\ CopiesAreClosed /\ SoundUntilArchived /\ ClosedUntilRace
  BY DEF AInv, ArchiveTypeOK, TypeOK
<1>2. UNCHANGED <<pc, call, read, answer, closed, apc, aid, copy, result>>
  BY DEF archiveVars
<1>3. ArchiveTypeOK'
  BY <1>1, <1>2 DEF ArchiveTypeOK
<1>4. StepsFitCalls'
  BY <1>1, <1>2 DEF StepsFitCalls, CanMove
<1>5. CopiesAreClosed'
  BY <1>1, <1>2 DEF CopiesAreClosed, Terminal
<1>6. \A i : (Archived(i)' <=> Archived(i)) /\ (Overwritten(i)' <=> Overwritten(i))
  BY <1>2 DEF Archived, Overwritten, Committed, Key
<1>7. SoundUntilArchived'
  <2> SUFFICES ASSUME NEW r \in Request, ~Archived(Key(r)), pc[r] \in {"move", "update"}
               PROVE  CopySound(read[r], Key(r))'
    BY <1>2, <1>6 DEF SoundUntilArchived, Sound, CopySound, Key
  <2>1. Key(r) \in RawId /\ Key(r)' = Key(r) /\ read'[r] = read[r]
    BY <1>1, <1>2, KeyIsId DEF Key, TypeOK
  <2>2. CopySound(read[r], Key(r)) /\ read[r] \in Record
    BY <1>1 DEF SoundUntilArchived, Sound, CopySound, StepsFitCalls
  <2>3. Advances(Key(r))
    BY <2>1, <2>2 DEF CopySound
  <2>4. PICK i \in RawId, c \in Record : i = Key(r) /\ c = read[r]
    BY <2>1, <2>2
  <2>5. CopySound(c, i)'
    BY <1>1, <2>2, <2>3, <2>4, CopyStaysSound DEF Advances
  <2> QED
    BY <2>1, <2>4, <2>5 DEF CopySound, Stored
<1>8. ClosedUntilRace'
  <2> SUFFICES ASSUME NEW a \in Archiver, apc[a] \in {"save", "delete"},
                      ~Archived(aid[a]), ~Overwritten(aid[a])
               PROVE  Stored(aid[a])' /\ Terminal(items'[aid[a]])
    BY <1>2, <1>6 DEF ClosedUntilRace, Terminal
  <2>1. aid[a] \in RawId /\ aid'[a] = aid[a]
    BY <1>1, <1>2 DEF ArchiveTypeOK
  <2>2. Stored(aid[a]) /\ Terminal(items[aid[a]])
    BY <1>1 DEF ClosedUntilRace
  <2> QED
    BY <2>1, <2>2 DEF Stored
<1> QED
  BY <1>3, <1>4, <1>5, <1>7, <1>8 DEF AInv

-----------------------------------------------------------------------------
(***************************************************************************)
(* The inductive invariant.                                                *)
(***************************************************************************)

\* Every step keeps the inductive invariant.
LEMMA NextAInv == AInv /\ [ArchiveNext]_allVars => AInv'
<1> SUFFICES ASSUME AInv, [ArchiveNext]_allVars PROVE AInv'
  OBVIOUS
<1>1. CASE UNCHANGED allVars
  <2>1. UNCHANGED <<vars, archiveVars>>
    BY <1>1 DEF allVars
  <2>2. TypeOK' /\ StepsFitCalls'
    BY <2>1, StepTyped, StepFitsCalls DEF AInv, ArchiveTypeOK
  <2>3. \A i : (Archived(i)' <=> Archived(i)) /\ (Overwritten(i)' <=> Overwritten(i))
    BY <2>1 DEF Archived, Overwritten, Committed, Key, vars, requestVars, archiveVars
  <2>4. \A r \in Request : Key(r)' = Key(r) /\ (Sound(r)' <=> Sound(r))
    BY <2>1 DEF Key, Sound, Stored, vars, requestVars
  <2>5. ArchiveTypeOK'
    BY <2>1, <2>2 DEF AInv, ArchiveTypeOK, archiveVars
  <2>6. CopiesAreClosed'
    BY <2>1 DEF AInv, CopiesAreClosed, archiveVars, Terminal
  <2>7. SoundUntilArchived'
    BY <2>3, <2>4 DEF AInv, SoundUntilArchived
  <2>8. ClosedUntilRace'
    BY <2>1, <2>3 DEF AInv, ClosedUntilRace, archiveVars, vars, Stored, Terminal
  <2> QED
    BY <2>2, <2>5, <2>6, <2>7, <2>8 DEF AInv
<1> QED
  BY <1>1, HandleStep, ArchiveStep DEF ArchiveNext

\* The inductive invariant holds in every reachable state.
THEOREM AInvAlways == ArchiveSpec => []AInv
BY InitAInv, NextAInv, PTL DEF ArchiveSpec

-----------------------------------------------------------------------------
(***************************************************************************)
(* Theorems.                                                               *)
(***************************************************************************)

\* Only an archive request's delete makes a record leave the live store.
LEMMA OnlyArchivingDeletes ==
  ASSUME AInv, [ArchiveNext]_allVars, NEW i \in RawId, Stored(i), ~Stored(i)'
  PROVE  \E a \in Archiver : apc[a] = "delete" /\ aid[a] = i /\ ArchiveDelete(a)
<1>1. items'[i] # items[i]
  BY DEF Stored
<1>2. ~UNCHANGED allVars
  BY <1>1 DEF allVars, vars
<1>3. CASE \E r \in Request : Handle(r)
  BY <1>3, RecordsStay DEF AInv, ArchiveTypeOK, Replaces, Stored, TypeOK, StoreTypeOK
<1>4. ASSUME NEW a \in Archiver, Archive(a)
      PROVE  apc[a] = "delete" /\ aid[a] = i /\ ArchiveDelete(a)
  <2>1. Deletes(a) /\ i = aid[a]
    BY <1>1, <1>4, ArchiveItems DEF AInv, Deletes
  <2> QED
    BY <1>1, <1>4, <2>1 DEF Deletes, Archive, ArchiveGet, ArchiveSave, ArchiveExpires, vars
<1> QED
  BY <1>2, <1>3, <1>4 DEF ArchiveNext

\* Archiving and all requests together keep every variable in its type, the
\* archive and the archive requests' copies included.
THEOREM ArchiveTypeCorrect == ArchiveSpec => []ArchiveTypeOK
BY AInvAlways, PTL DEF AInv

\* Nothing is lost between the stores: OpsArchive.Archive saves before it
\* deletes, so a record that leaves the live store is in the archive, closed,
\* however many requests archive, create and change it.
THEOREM Leaving == ArchiveSpec => LeavingIsArchiving
<1>1. AInv /\ [ArchiveNext]_allVars =>
        [\A i \in RawId : Stored(i) /\ ~Stored(i)' =>
           closed[i] # Absent /\ Terminal(closed[i])]_allVars
  <2> SUFFICES ASSUME AInv, [ArchiveNext]_allVars, NEW i \in RawId, Stored(i), ~Stored(i)'
               PROVE  closed[i] # Absent /\ Terminal(closed[i])
    OBVIOUS
  <2> QED
    BY OnlyArchivingDeletes DEF AInv, CopiesAreClosed
<1> QED
  BY <1>1, AInvAlways, PTL DEF ArchiveSpec, LeavingIsArchiving

\* What was closed when Archive looked is closed when it deletes, unless the
\* id was freed in between or a transition named no revision: a transition
\* that names one cannot move a closed record.
THEOREM UnclosedByRace == ArchiveSpec => UnclosedLeavesByRace
<1>1. AInv => [\A a \in Archiver :
         apc[a] = "delete" /\ result'[a] = "ok" /\ ~Terminal(items[aid[a]]) =>
           Archived(aid[a]) \/ Overwritten(aid[a])]_allVars
  BY DEF AInv, ClosedUntilRace
<1> QED
  BY <1>1, AInvAlways, PTL DEF ArchiveSpec, UnclosedLeavesByRace

\* Without archiving, a revision names one state of a record for ever, so a
\* write that names it replaces what its own reader saw.
THEOREM ForeignWrites == ArchiveSpec => ForeignWritesNeedArchiving
<1>1. AInv /\ [ArchiveNext]_allVars =>
        [\A r \in Request :
           CommitsGuarded(r) /\ items'[Key(r)].origin # items[Key(r)].origin =>
             Archived(Key(r))]_allVars
  <2> SUFFICES ASSUME AInv, [ArchiveNext]_allVars, NEW r \in Request,
                      CommitsGuarded(r), ~Archived(Key(r))
               PROVE  items'[Key(r)].origin = items[Key(r)].origin
    OBVIOUS
  <2>1. Sound(r) /\ TypeOK /\ StepsFitCalls
    BY DEF AInv, SoundUntilArchived, ArchiveTypeOK
  <2>2. pc'[r] # pc[r]
    BY DEF CommitsGuarded
  <2>3. Handle(r)
    <3>1. \A a \in Archiver : ~Archive(a)
      BY <2>2, ArchiveItems DEF AInv, requestVars
    <3> QED
      BY <2>1, <2>2, <3>1, StepIsLocal DEF ArchiveNext, allVars, vars, requestVars
  <2>4. CASE Replaces(r)
    BY <2>1, <2>4 DEF Replaces, Sound
  <2> QED
    BY <2>1, <2>3, <2>4, ItemsStep DEF CommitsGuarded, Adds
<1> QED
  BY <1>1, AInvAlways, PTL DEF ArchiveSpec, ForeignWritesNeedArchiving

-----------------------------------------------------------------------------
(***************************************************************************)
(* Lives of a record and successes of archive requests.                    *)
(***************************************************************************)

\* The creations that have begun a life of record i, and the archive requests
\* that have ended one.
Begun(i) == {r \in Request : /\ call[r].kind = "create" /\ Key(r) = i
                             /\ Effective(r)}
Ended(i) == {a \in Archiver : aid[a] = i /\ result[a] = "ok"}

\* The lives ended, and the one that has not, are the lives begun by requests,
\* or one more: the seed record's.
Balanced(i) ==
  /\ Stored(i)  => Cardinality(Ended(i)) + 1
                     \in {Cardinality(Begun(i)), Cardinality(Begun(i)) + 1}
  /\ ~Stored(i) => Cardinality(Ended(i))
                     \in {Cardinality(Begun(i)), Cardinality(Begun(i)) + 1}

LEMMA BegunAndEndedAreFinite ==
  ASSUME IsFiniteSet(Request), IsFiniteSet(Archiver), NEW i \in RawId
  PROVE  /\ IsFiniteSet(Begun(i)) /\ Cardinality(Begun(i)) \in Nat
         /\ IsFiniteSet(Ended(i)) /\ Cardinality(Ended(i)) \in Nat
<1>1. Begun(i) \in SUBSET Request /\ Ended(i) \in SUBSET Archiver
  BY DEF Begun, Ended
<1> QED
  BY <1>1, FS_Subset, FS_CardinalityType

\* A request's step begins a life of its record where there was none, or no
\* life at all, and ends none.
LEMMA RequestsBegin ==
  ASSUME IsFiniteSet(Request), IsFiniteSet(Archiver), AInv,
         NEW r \in Request, Handle(r), UNCHANGED archiveVars,
         NEW i \in RawId, Balanced(i)
  PROVE  Balanced(i)'
<1>1. /\ TypeOK /\ StepsFitCalls
      /\ call' = call /\ \A s \in Request : Key(s)' = Key(s)
  BY CallsNeverChange DEF AInv, ArchiveTypeOK, Key, Next
<1>2. \A s \in Request \ {r} : Effective(s)' <=> Effective(s)
  BY <1>1, StepIsLocal DEF Effective
<1>3. Ended(i)' = Ended(i)
  BY DEF Ended, archiveVars
<1>4. CASE Adds(r) /\ call[r].kind = "create" /\ answer' = answer /\ Key(r) = i
  <2>1. ~Stored(i) /\ Stored(i)'
    <3>1. NewRecord(r, call[r].status) \in Record
      BY <1>1, NewRecordIsRecord DEF TypeOK, CallType, Origin
    <3> QED
      BY <1>4, <3>1, AbsentAssumption DEF Adds, Stored
  <2>2. r \notin Begun(i) /\ r \in Begun(i)'
    BY <1>1, <1>4, EffectStep DEF Begun, Effective, Adds
  <2>3. Begun(i)' = Begun(i) \cup {r}
    BY <1>1, <1>2, <2>2 DEF Begun
  <2>4. Cardinality(Begun(i)') = Cardinality(Begun(i)) + 1
    BY <2>2, <2>3, BegunAndEndedAreFinite, FS_AddElement
  <2>5. Cardinality(Begun(i))' = Cardinality(Begun(i)')
    OBVIOUS
  <2> QED
    BY <1>3, <2>1, <2>4, <2>5, BegunAndEndedAreFinite DEF Balanced
<1>5. ASSUME Stored(i)' <=> Stored(i),
             r \in Begun(i)' <=> r \in Begun(i)
      PROVE  Balanced(i)'
  <2>1. Begun(i)' = Begun(i)
    BY <1>1, <1>2, <1>5 DEF Begun
  <2> QED
    BY <1>3, <1>5, <2>1 DEF Balanced
<1>6. CASE Adds(r) /\ Key(r) # i
  <2>1. (Stored(i)' <=> Stored(i)) /\ r \notin Begun(i) /\ r \notin Begun(i)'
    BY <1>1, <1>6 DEF Adds, Stored, Begun
  <2> QED
    BY <1>5, <2>1
<1>7. CASE Replaces(r) /\ call[r].kind = "transition"
  <2>1. r \notin Begun(i) /\ r \notin Begun(i)'
    BY <1>1, <1>7 DEF Begun
  <2>2. Stored(i)' <=> Stored(i)
    BY <1>7, AbsentAssumption DEF Replaces, CanUpdate, Stored
  <2> QED
    BY <1>5, <2>1, <2>2
<1>8. CASE items' = items /\ (call[r].kind = "create" => (Effective(r)' <=> Effective(r)))
  <2>1. (Stored(i)' <=> Stored(i)) /\ (r \in Begun(i)' <=> r \in Begun(i))
    BY <1>1, <1>8 DEF Stored, Begun
  <2> QED
    BY <1>5, <2>1
<1>9. \/ Adds(r) /\ call[r].kind = "create" /\ answer' = answer
      \/ Replaces(r) /\ call[r].kind = "transition"
      \/ /\ items' = items
         /\ call[r].kind = "create" => (Effective(r)' <=> Effective(r))
  BY <1>1, EffectStep DEF Effective
<1> QED
  BY <1>4, <1>6, <1>7, <1>8, <1>9

\* Only the archive request that deletes the record is answered with success.
LEMMA SuccessDeletes ==
  ASSUME AInv, NEW a \in Archiver, Archive(a)
  PROVE  /\ \A b \in Archiver \ {a} : result'[b] = result[b]
         /\ result[a] # "ok"
         /\ Deletes(a) \/ (items' = items /\ result'[a] # "ok")
<1>1. result[a] # "ok"
  BY DEF AInv, CopiesAreClosed, Archive, ArchiveGet, ArchiveSave, ArchiveDelete,
     ArchiveExpires
<1>2. CASE ArchiveDelete(a)
  BY <1>1, <1>2 DEF AInv, ArchiveTypeOK, TypeOK, StoreTypeOK, ArchiveDelete,
     EndArchive, Delete, Deletes
<1>3. CASE ~ArchiveDelete(a)
  BY <1>1, <1>3 DEF AInv, ArchiveTypeOK, Archive, ArchiveGet, ArchiveSave,
     ArchiveExpires, EndArchive, vars
<1> QED
  BY <1>2, <1>3

\* An archive request's step ends a life of the record it names, with success,
\* or none, without.
LEMMA ArchivingEnds ==
  ASSUME IsFiniteSet(Request), IsFiniteSet(Archiver), AInv,
         NEW a \in Archiver, Archive(a), NEW i \in RawId, Balanced(i)
  PROVE  Balanced(i)'
<1>1. aid' = aid /\ UNCHANGED requestVars
  BY ArchiveItems DEF AInv
<1>2. Begun(i)' = Begun(i)
  BY <1>1 DEF Begun, Effective, Key, requestVars
<1>3. CASE Deletes(a) /\ aid[a] = i
  <2>1. Stored(i) /\ ~Stored(i)'
    BY <1>3 DEF Deletes, Stored
  <2>2. a \notin Ended(i)
    BY SuccessDeletes DEF Ended
  <2>3. Ended(i)' = Ended(i) \cup {a}
    BY <1>1, <1>3, SuccessDeletes DEF Ended, Deletes
  <2>4. Cardinality(Ended(i)') = Cardinality(Ended(i)) + 1
    BY <2>2, <2>3, BegunAndEndedAreFinite, FS_AddElement
  <2>5. Cardinality(Ended(i))' = Cardinality(Ended(i)')
    OBVIOUS
  <2> QED
    BY <1>2, <2>1, <2>4, <2>5, BegunAndEndedAreFinite DEF Balanced
<1>4. CASE (Deletes(a) /\ aid[a] # i) \/ (items' = items /\ result'[a] # "ok")
  <2>1. Ended(i)' = Ended(i)
    BY <1>1, <1>4, SuccessDeletes DEF Ended
  <2>2. Stored(i)' <=> Stored(i)
    BY <1>4 DEF Deletes, Stored
  <2> QED
    BY <1>2, <2>1, <2>2 DEF Balanced
<1> QED
  BY <1>3, <1>4, SuccessDeletes

\* Two archive requests never both succeed on one life of a record, and none
\* succeeds without ending one: OpsStore.Delete answers the second with not
\* found, whatever the two read before.
THEOREM OneSuccessPerLife ==
  ASSUME IsFiniteSet(Request), IsFiniteSet(Archiver)
  PROVE  ArchiveSpec => []OneArchivePerLife
<1> DEFINE Inv == \A i \in RawId : Balanced(i)
<1>1. ArchiveInit => Inv
  <2> SUFFICES ASSUME ArchiveInit, NEW i \in RawId PROVE Balanced(i)
    OBVIOUS
  <2>1. Begun(i) = {} /\ Ended(i) = {}
    BY DEF ArchiveInit, Init, Begun, Ended, Effective
  <2> QED
    BY <2>1, FS_EmptySet DEF Balanced
<1>2. AInv /\ Inv /\ [ArchiveNext]_allVars => Inv'
  <2> SUFFICES ASSUME AInv, Inv, [ArchiveNext]_allVars, NEW i \in RawId
               PROVE  Balanced(i)'
    OBVIOUS
  <2>1. CASE UNCHANGED allVars
    BY <2>1 DEF Balanced, Begun, Ended, Effective, Stored, Key,
       allVars, vars, requestVars, archiveVars
  <2> QED
    BY <2>1, RequestsBegin, ArchivingEnds DEF ArchiveNext
<1>3. Inv => OneArchivePerLife
  <2> SUFFICES ASSUME NEW i \in RawId, Balanced(i)
               PROVE  Cardinality(Ended(i)) + (IF Stored(i) THEN 1 ELSE 0)
                        \in {Cardinality(Begun(i)), Cardinality(Begun(i)) + 1}
    BY DEF OneArchivePerLife, Begun, Ended, Effective
  <2> QED
    BY BegunAndEndedAreFinite DEF Balanced
<1> QED
  BY <1>1, <1>2, <1>3, AInvAlways, PTL DEF ArchiveSpec

-----------------------------------------------------------------------------
(***************************************************************************)
(* Refinement: what has been copied for the archive.                       *)
(***************************************************************************)

\* What archive requests carry, and what they have kept, are pasts of the live
\* records, until the id is freed.
CopiesArePast ==
  /\ Past(closed)
  /\ \A a \in Archiver : apc[a] \in {"save", "delete"} =>
       Archived(aid[a]) \/ CopySound(copy[a], aid[a])

LEMMA OutsideKeepsPast ==
  ASSUME AInv, CopiesArePast, StoreAdvances, UNCHANGED archiveVars
  PROVE  CopiesArePast'
<1>1. StoreTypeOK /\ closed \in [RawId -> Record \cup {Absent}]
  BY DEF AInv, ArchiveTypeOK, TypeOK
<1>2. UNCHANGED <<closed, apc, aid, copy, result>>
  BY DEF archiveVars
<1>3. Past(closed)'
  <2>1. PICK c \in [RawId -> Record \cup {Absent}] : c = closed
    BY <1>1
  <2>2. Past(c)'
    BY <1>1, <2>1, PastStays DEF CopiesArePast
  <2> QED
    BY <1>2, <2>1, <2>2 DEF Past
<1>4. ASSUME NEW a \in Archiver, apc[a] \in {"save", "delete"}, ~Archived(aid[a])
      PROVE  CopySound(copy[a], aid[a])'
  <2>1. PICK i \in RawId, c \in Record : i = aid[a] /\ c = copy[a]
    BY <1>4 DEF AInv, ArchiveTypeOK, CopiesAreClosed
  <2>2. CopySound(c, i) /\ ~Archived(i)'
    BY <1>2, <1>4, <2>1 DEF CopiesArePast, Archived
  <2>3. Advances(i)
    BY <2>2 DEF StoreAdvances, CopySound
  <2>4. CopySound(c, i)'
    BY <1>1, <2>2, <2>3, CopyStaysSound
  <2> QED
    BY <1>2, <2>1, <2>4 DEF CopySound, Stored
<1>5. \A i : Archived(i)' <=> Archived(i)
  BY <1>2 DEF Archived
<1> QED
  BY <1>2, <1>3, <1>4, <1>5 DEF CopiesArePast

LEMMA ArchivingKeepsPast ==
  ASSUME AInv, CopiesArePast, NEW a \in Archiver, Archive(a)
  PROVE  CopiesArePast'
<1> DEFINE Copies == [RawId -> Record \cup {Absent}]
<1>1. /\ ArchiveTypeOK /\ StoreTypeOK /\ closed \in Copies
      /\ aid' = aid /\ \A i \in RawId : Archived(i) => Archived(i)'
  BY ArchiveItems, ArchivedStays DEF AInv, ArchiveTypeOK, TypeOK
<1>2. StoreAdvances
  BY <1>1, ArchiveAdvances DEF StoreAdvances
<1>3. PICK c \in Copies : c = closed
  BY <1>1
<1>4. Past(c)'
  BY <1>1, <1>2, <1>3, PastStays DEF CopiesArePast
<1>5. ASSUME NEW b \in Archiver, apc[b] \in {"save", "delete"}, ~Archived(aid[b])'
      PROVE  CopySound(copy[b], aid[b]) /\ (CopySound(copy[b], aid[b])')
  <2>1. PICK i \in RawId, d \in Record : i = aid[b] /\ d = copy[b]
    BY <1>5 DEF AInv, ArchiveTypeOK, CopiesAreClosed
  <2>2. ~Archived(i)' /\ ~Archived(i)
    BY <1>1, <1>5, <2>1 DEF Archived
  <2>3. CopySound(d, i)
    BY <1>5, <2>1, <2>2 DEF CopiesArePast
  <2>4. Advances(i)
    BY <1>2, <2>2, <2>3 DEF StoreAdvances, CopySound
  <2>5. CopySound(d, i)'
    BY <1>1, <2>3, <2>4, CopyStaysSound
  <2>6. copy'[b] = copy[b]
    BY <1>1, <1>5 DEF Archive, ArchiveGet, ArchiveSave, ArchiveDelete, ArchiveExpires,
       ArchiveTypeOK
  <2> QED
    BY <1>1, <2>1, <2>3, <2>5, <2>6 DEF CopySound, Stored
<1>6. \A b \in Archiver \ {a} : apc'[b] = apc[b] /\ copy'[b] = copy[b]
  BY <1>1 DEF Archive, ArchiveGet, ArchiveSave, ArchiveDelete, ArchiveExpires, EndArchive,
     ArchiveTypeOK
<1>7. ASSUME NEW b \in Archiver, b # a, apc'[b] \in {"save", "delete"}, ~Archived(aid[b])'
      PROVE  CopySound(copy[b], aid[b])'
  BY <1>5, <1>6, <1>7
<1>8. CASE ArchiveGet(a)
  <2>1. closed' = c /\ items' = items /\ (apc'[a] = "save" => copy'[a] = items[aid[a]])
        /\ apc'[a] \in {"save", "done"} /\ (apc'[a] = "save" => Stored(aid[a]))
    BY <1>1, <1>3, <1>8 DEF ArchiveGet, EndArchive, ArchiveTypeOK, vars
  <2>2. apc'[a] = "save" => CopySound(items[aid[a]], aid[a])
    BY <1>1, <2>1, ListIsPast DEF ArchiveTypeOK
  <2>3. apc'[a] = "save" => CopySound(copy[a], aid[a])'
    BY <1>1, <2>1, <2>2 DEF CopySound, Stored
  <2> QED
    BY <1>4, <1>7, <2>1, <2>3 DEF CopiesArePast, Past
<1>9. CASE ArchiveSave(a)
  <2>1. /\ apc[a] = "save" /\ apc'[a] = "delete" /\ aid[a] \in RawId
        /\ closed' = [c EXCEPT ![aid[a]] = copy[a]] /\ copy' = copy
    BY <1>1, <1>3, <1>9 DEF ArchiveSave, ArchiveTypeOK
  <2>2. ~Archived(aid[a])' => CopySound(copy[a], aid[a])'
    BY <1>5, <2>1
  <2>3. Past(closed)'
    <3> SUFFICES ASSUME NEW i \in RawId, closed'[i] # Absent, ~Archived(i)'
                 PROVE  CopySound(closed[i], i)'
      BY DEF Past
    <3>1. CASE i = aid[a]
      <4>1. closed'[i] = copy'[a] /\ i = aid'[a]
        BY <1>1, <2>1, <3>1
      <4> QED
        BY <1>1, <2>2, <3>1, <4>1 DEF CopySound, Stored, Archived
    <3>2. CASE i # aid[a]
      <4>1. closed'[i] = c[i]
        BY <2>1, <3>2
      <4>2. CopySound(c[i], i)'
        BY <1>4, <4>1 DEF Past
      <4> QED
        BY <4>1, <4>2 DEF CopySound, Stored
    <3> QED
      BY <3>1, <3>2
  <2> QED
    BY <1>7, <2>2, <2>3 DEF CopiesArePast
<1>10. CASE ArchiveDelete(a) \/ ArchiveExpires(a)
  <2>1. closed' = c /\ apc'[a] = "done"
    BY <1>1, <1>3, <1>10 DEF ArchiveDelete, ArchiveExpires, EndArchive, ArchiveTypeOK
  <2> QED
    BY <1>4, <1>7, <2>1 DEF CopiesArePast, Past
<1> QED
  BY <1>8, <1>9, <1>10 DEF Archive

LEMMA InitPast == ArchiveInit => CopiesArePast
BY DEF ArchiveInit, CopiesArePast, Past

-----------------------------------------------------------------------------
(***************************************************************************)
(* Refinement: steps.                                                      *)
(***************************************************************************)

\* The ledger with an archive has our records, and RecordLedger's steps.
LEMMA StoresAreOurs ==
  /\ Stores!Status = Status /\ Stores!Origin = Origin /\ Stores!Record = Record
  /\ \A record : Stores!Terminal(record) <=> Terminal(record)
  /\ Stores!Init <=> Ledger!Init
  /\ Ledger!Next => Stores!Next
<1>1. Stores!Status = Status /\ Stores!Origin = Origin
  BY DEF Stores!Status, Stores!NamedStatus, Status, NamedStatus, Stores!Origin, Origin
<1>2. Stores!Record = Record
  BY <1>1 DEF Stores!Record, Record
<1>3. \A record : Stores!Terminal(record) <=> Terminal(record)
  BY DEF Stores!Terminal, Terminal
<1>4. Ledger!Status = Stores!Status
  BY <1>1, LedgerIsOurs
<1>5. \A from, status : Ledger!NewRecord(from, status) = Stores!NewRecord(from, status)
  BY DEF Ledger!NewRecord, Stores!NewRecord
<1>6. \A from, to : Ledger!CanMove(from, to) <=> Stores!CanMove(from, to)
  BY DEF Ledger!CanMove, Stores!CanMove, Ledger!NamedStatus, Stores!NamedStatus,
     Ledger!opsTransitionTable, Stores!opsTransitionTable
<1>7. Stores!Init <=> Ledger!Init
  BY <1>4, <1>5 DEF Stores!Init, Ledger!Init
<1>8. Ledger!Next => Stores!Next
  BY <1>4, <1>5, <1>6 DEF Stores!Next, Ledger!Next, Stores!Change, Ledger!Change,
     Stores!Create, Ledger!Create
<1> QED
  BY <1>1, <1>2, <1>3, <1>7, <1>8

\* Writing over a live record counts one revision.  The promise that it keeps
\* its creator holds until the id is freed, and the promise that it follows the
\* table until then or until a write names no revision.
LEMMA WriteRefines ==
  ASSUME StoreTypeOK, StoreTypeOK', NEW i \in RawId, Stored(i),
         items'[i] \in Record,
         items'[i].revision = items[i].revision + 1,
         \A j \in RawId \ {i} : items'[j] = items[j],
         closed' = closed, FreedIds' = FreedIds,
         OverwrittenIds' \in {OverwrittenIds, OverwrittenIds \cup {i}},
         i \notin FreedIds => items'[i].origin = items[i].origin,
         i \notin FreedIds \cup OverwrittenIds' =>
           CanMove(items[i].status, items'[i].status)
  PROVE  Stores!ArchiveNext
<1>1. PICK origin \in Origin, status \in Status :
        items'[i] = [origin |-> origin, status |-> status, revision |-> items[i].revision + 1]
  <2>1. items'[i] = [origin |-> items'[i].origin, status |-> items'[i].status,
                     revision |-> items[i].revision + 1]
    BY DEF Record
  <2> QED
    BY <2>1 DEF Record
<1>2. items' = [items EXCEPT ![i] = [origin |-> origin, status |-> status,
                                     revision |-> items[i].revision + 1]]
  BY <1>1 DEF StoreTypeOK
<1>3. items'[i].origin = origin /\ items'[i].status = status
  BY <1>1
<1>4. CASE i \in FreedIds
  <2>1. Stores!Replace(i, origin, status)
    BY <1>2, <1>4 DEF Stores!Replace, Stored
  <2> QED
    BY <2>1, StoresAreOurs DEF Stores!ArchiveNext
<1>5. CASE i \notin FreedIds /\ i \in OverwrittenIds'
  <2>1. OverwrittenIds' = OverwrittenIds \cup {i}
    BY <1>5
  <2>2. Stores!Overwrite(i, status)
    BY <1>2, <1>3, <1>5, <2>1 DEF Stores!Overwrite, Stored
  <2> QED
    BY <2>2, StoresAreOurs DEF Stores!ArchiveNext
<1>6. CASE i \notin FreedIds /\ i \notin OverwrittenIds'
  <2>1. OverwrittenIds' = OverwrittenIds
    BY <1>6
  <2>2. Ledger!Next
    BY <1>3, <1>6, ReplacingRefines
  <2> QED
    BY <2>1, <2>2, StoresAreOurs DEF Stores!ArchiveNext
<1> QED
  BY <1>4, <1>5, <1>6

\* A request overwrites its record when it commits without a named revision,
\* and at no other step.
LEMMA OverwrittenStep ==
  ASSUME TypeOK, StepsFitCalls, NEW r \in Request, Handle(r)
  PROVE  OverwrittenIds' = IF Replaces(r) /\ call[r].kind = "transition"
                                          /\ call[r].expected = 0
                             THEN OverwrittenIds \cup {Key(r)} ELSE OverwrittenIds
<1>1. call' = call /\ (\A s \in Request : Key(s)' = Key(s)) /\ Key(r) \in RawId
  BY CallsNeverChange, KeyIsId DEF Key, Next, TypeOK
<1>2. \A s \in Request \ {r} : Committed(s)' <=> Committed(s)
  BY <1>1, StepIsLocal DEF Committed
<1>3. CASE Replaces(r) /\ call[r].kind = "transition" /\ call[r].expected = 0
  <2>1. Committed(r)'
    BY <1>1, <1>3 DEF Replaces, Committed
  <2>2. \A i \in RawId : Overwritten(i)' <=> Overwritten(i) \/ i = Key(r)
    <3>1. ~Committed(r)
      BY <1>3, EffectStep DEF Committed, Replaces
    <3> QED
      BY <1>1, <1>2, <1>3, <2>1, <3>1 DEF Overwritten
  <2> QED
    BY <1>1, <1>3, <2>2 DEF OverwrittenIds
<1>4. CASE ~(Replaces(r) /\ call[r].kind = "transition" /\ call[r].expected = 0)
  <2>1. call[r].expected = 0 => (Committed(r)' <=> Committed(r))
    BY <1>1, <1>4, EffectStep DEF Committed
  <2>2. \A i \in RawId : Overwritten(i)' <=> Overwritten(i)
    BY <1>1, <1>2, <2>1 DEF Overwritten
  <2> QED
    BY <1>4, <2>2 DEF OverwrittenIds
<1> QED
  BY <1>3, <1>4

\* An id is freed by the success of an archive request only.
LEMMA FreedSame ==
  ASSUME UNCHANGED <<aid, result>>
  PROVE  FreedIds' = FreedIds
BY DEF FreedIds, Archived

LEMMA HandleRefinesStores ==
  ASSUME AInv, NEW r \in Request, Handle(r), UNCHANGED archiveVars
  PROVE  [Stores!ArchiveNext]_Stores!ledgerVars
<1>1. /\ TypeOK /\ StepsFitCalls /\ StoreTypeOK /\ TypeOK' /\ StoreTypeOK'
      /\ closed' = closed /\ FreedIds' = FreedIds
      /\ Key(r) \in RawId /\ call[r] \in CallType
  BY StepTyped, FreedSame, KeyIsId DEF AInv, ArchiveTypeOK, TypeOK, Next, archiveVars
<1>2. CASE Replaces(r) /\ call[r].kind = "transition"
  <2>1. Stored(Key(r))
    BY <1>2 DEF Replaces, CanUpdate
  <2>2. Key(r) \notin FreedIds => Sound(r)
    BY <1>1 DEF AInv, SoundUntilArchived, FreedIds
  <2>3. Key(r) \notin FreedIds => items'[Key(r)].origin = items[Key(r)].origin
    BY <1>2, <2>2 DEF Replaces, Sound
  <2>4. OverwrittenIds' \in {OverwrittenIds, OverwrittenIds \cup {Key(r)}}
    BY <1>1, OverwrittenStep
  <2>5. ASSUME Key(r) \notin FreedIds \cup OverwrittenIds'
        PROVE  CanMove(items[Key(r)].status, items'[Key(r)].status)
    <3>1. call[r].expected > 0
      BY <1>1, <1>2, <2>5, OverwrittenStep DEF CallType
    <3>2. read[r] = items[Key(r)]
      BY <1>1, <1>2, <2>2, <2>5, <3>1 DEF Replaces, CanUpdate, RevisionAgrees,
         StepsFitCalls, Sound
    <3> QED
      BY <1>1, <1>2, <3>2 DEF Replaces, StepsFitCalls
  <2> QED
    BY <1>1, <1>2, <2>1, <2>3, <2>4, <2>5, WriteRefines DEF Replaces
<1>3. CASE Adds(r)
  <2>1. call[r].kind # "transition"
    BY <1>1, <1>3 DEF Adds, StepsFitCalls
  <2>2. OverwrittenIds' = OverwrittenIds
    BY <1>1, <2>1, OverwrittenStep
  <2>3. items' # items
    BY <1>1, <1>3, NewRecordIsRecord, AbsentAssumption DEF Adds, Stored, CallType, Origin
  <2>4. Ledger!Next
    <3>1. items' = [items EXCEPT ![Key(r)] = NewRecord(r, call[r].status)]
      BY <1>1, <1>3 DEF Adds, StoreTypeOK
    <3>2. Ledger!Create(r, Key(r), call[r].status)
      BY <1>3, <3>1, LedgerIsOurs DEF Adds, Stored, Ledger!Create
    <3> QED
      BY <1>1, <1>3, <3>2, LedgerIsOurs DEF Adds, Ledger!Next, CallType
  <2> QED
    BY <1>1, <2>2, <2>4, StoresAreOurs DEF Stores!ArchiveNext
<1>4. CASE items' = items /\ ~Replaces(r)
  <2>1. OverwrittenIds' = OverwrittenIds
    BY <1>1, <1>4, OverwrittenStep
  <2> QED
    BY <1>1, <1>4, <2>1 DEF Stores!ledgerVars
<1>5. Replaces(r) => call[r].kind = "transition"
  BY <1>1 DEF Replaces, StepsFitCalls
<1> QED
  BY <1>1, <1>2, <1>3, <1>4, <1>5, ItemsStep

\* An archive request's save is one Save, and its delete one Remove.
LEMMA ArchivingRefinesStores ==
  ASSUME AInv, CopiesArePast, NEW a \in Archiver, Archive(a)
  PROVE  [Stores!ArchiveNext]_Stores!ledgerVars
<1>1. /\ ArchiveTypeOK /\ StoreTypeOK /\ aid[a] \in RawId /\ aid' = aid
      /\ UNCHANGED <<pc, call, answer>>
  BY ArchiveItems DEF AInv, ArchiveTypeOK, TypeOK, requestVars
<1>2. OverwrittenIds' = OverwrittenIds
  BY <1>1 DEF OverwrittenIds, Overwritten, Committed, Key
<1>3. CASE ArchiveSave(a)
  <2>1. /\ items' = items /\ FreedIds' = FreedIds
        /\ closed' = [closed EXCEPT ![aid[a]] = copy[a]]
        /\ apc[a] = "save" /\ copy[a] \in Record /\ Terminal(copy[a])
    BY <1>1, <1>3, FreedSame DEF ArchiveSave, vars, AInv, CopiesAreClosed
  <2>2. closed'[aid[a]] = copy[a]
    BY <1>1, <2>1 DEF ArchiveTypeOK
  <2>3. aid[a] \notin FreedIds =>
          Stored(aid[a]) /\ Stores!PastOf(closed'[aid[a]], items[aid[a]])
    BY <1>1, <2>1, <2>2 DEF CopiesArePast, CopySound, FreedIds, Stores!PastOf
  <2>4. aid[a] \notin FreedIds \cup OverwrittenIds => Terminal(items[aid[a]])
    BY <1>1, <2>1 DEF AInv, ClosedUntilRace, FreedIds, OverwrittenIds
  <2>5. /\ closed'[aid[a]] \in Stores!Record /\ Stores!Terminal(closed'[aid[a]])
        /\ aid[a] \notin FreedIds \cup OverwrittenIds => Stores!Terminal(items[aid[a]])
    BY <2>1, <2>2, <2>4, StoresAreOurs DEF Terminal, Stores!Terminal
  <2>6. Stores!Save(aid[a])
    BY <1>2, <2>1, <2>2, <2>3, <2>5 DEF Stores!Save, Stores!Exempt, Stored
  <2> QED
    BY <1>1, <2>6 DEF Stores!ArchiveNext
<1>4. CASE Deletes(a)
  <2>1. /\ apc[a] = "delete" /\ Stored(aid[a]) /\ closed[aid[a]] # Absent
        /\ items' = [items EXCEPT ![aid[a]] = Absent]
        /\ closed' = closed
    <3>1. ArchiveDelete(a)
      BY <1>1, <1>4 DEF Deletes, Archive, ArchiveGet, ArchiveSave, ArchiveExpires,
         EndArchive, ArchiveTypeOK
    <3>2. closed[aid[a]] # Absent
      BY <1>4 DEF Deletes, AInv, CopiesAreClosed
    <3> QED
      BY <1>4, <3>1, <3>2 DEF Deletes, ArchiveDelete, Delete
  <2>2. FreedIds' = FreedIds \cup {aid[a]}
    <3>1. \A i \in RawId : Archived(i)' <=> Archived(i) \/ i = aid[a]
      BY <1>1, <1>4, SuccessDeletes DEF Archived, Deletes
    <3> QED
      BY <1>1, <3>1 DEF FreedIds
  <2>4. aid[a] \notin FreedIds \cup OverwrittenIds => Terminal(items[aid[a]])
    BY <1>1, <2>1 DEF AInv, ClosedUntilRace, FreedIds, OverwrittenIds
  <2>5. Stores!Remove(aid[a])
    BY <1>2, <2>1, <2>2, <2>4, StoresAreOurs DEF Stores!Remove, Stores!Exempt, Stored
  <2> QED
    BY <1>1, <2>5 DEF Stores!ArchiveNext
<1>5. CASE ~ArchiveSave(a) /\ ~Deletes(a)
  <2>1. closed' = closed
    BY <1>5 DEF Archive, ArchiveGet, ArchiveDelete, ArchiveExpires
  <2>2. items' = items /\ result'[a] # "ok" /\ result[a] # "ok"
        /\ \A b \in Archiver \ {a} : result'[b] = result[b]
    BY <1>5, SuccessDeletes
  <2>3. FreedIds' = FreedIds
    BY <1>1, <2>2 DEF FreedIds, Archived
  <2> QED
    BY <1>2, <2>1, <2>2, <2>3 DEF Stores!ledgerVars
<1> QED
  BY <1>3, <1>4, <1>5

LEMMA InitRefinesStores == ArchiveInit => Stores!ArchiveInit
<1> SUFFICES ASSUME ArchiveInit PROVE Stores!ArchiveInit
  OBVIOUS
<1>1. Stores!Init
  BY InitRefines, StoresAreOurs DEF ArchiveInit
<1>2. FreedIds = {} /\ OverwrittenIds = {}
  BY DEF ArchiveInit, Init, FreedIds, Archived, OverwrittenIds, Overwritten, Committed
<1> QED
  BY <1>1, <1>2 DEF ArchiveInit, Stores!ArchiveInit

\* Requests of every kind and archive requests, in any number and however their
\* steps interleave, implement the ledger with an archive: Archive's save is one
\* Save and its delete one Remove, a write is a Change, or one of the two
\* exceptions that the ledger names, and every other step is a stutter.
THEOREM ArchiveRefinement == ArchiveSpec => RefinesArchiveLedger
<1>1. ArchiveInit => CopiesArePast /\ Stores!ArchiveInit
  BY InitPast, InitRefinesStores
<1>2. AInv /\ CopiesArePast /\ [ArchiveNext]_allVars => CopiesArePast'
  <2> SUFFICES ASSUME AInv, CopiesArePast, [ArchiveNext]_allVars PROVE CopiesArePast'
    OBVIOUS
  <2>1. CASE UNCHANGED allVars
    BY <2>1, OutsideKeepsPast DEF allVars, vars, StoreAdvances, Advances, Archived,
        archiveVars
  <2>2. ASSUME NEW r \in Request, Handle(r), UNCHANGED archiveVars PROVE CopiesArePast'
    <3>1. StoreAdvances
      BY <2>2, HandleAdvances DEF StoreAdvances, Archived, archiveVars
    <3> QED
      BY <2>2, <3>1, OutsideKeepsPast
  <2> QED
    BY <2>1, <2>2, ArchivingKeepsPast DEF ArchiveNext
<1>3. AInv /\ CopiesArePast /\ [ArchiveNext]_allVars =>
        [Stores!ArchiveNext]_Stores!ledgerVars
  <2> SUFFICES ASSUME AInv, CopiesArePast, [ArchiveNext]_allVars
               PROVE  [Stores!ArchiveNext]_Stores!ledgerVars
    OBVIOUS
  <2>1. CASE UNCHANGED allVars
    BY <2>1 DEF allVars, vars, requestVars, archiveVars, Stores!ledgerVars, FreedIds,
       Archived, OverwrittenIds, Overwritten, Committed, Key
  <2> QED
    BY <2>1, HandleRefinesStores, ArchivingRefinesStores DEF ArchiveNext
<1> QED
  BY <1>1, <1>2, <1>3, AInvAlways, PTL
     DEF ArchiveSpec, RefinesArchiveLedger, Stores!ArchiveSpec

-----------------------------------------------------------------------------
(***************************************************************************)
(* What the ledger promises, whoever implements it.                        *)
(***************************************************************************)

LEMMA LedgerInitPromises == Stores!ArchiveInit => Stores!LedgerInv
<1> SUFFICES ASSUME Stores!ArchiveInit PROVE Stores!LedgerInv
  OBVIOUS
<1>1. PICK S \in SUBSET {i \in RawId : Normal[i] = i} :
        \E status \in [S -> Stores!Status] :
          items = [i \in RawId |-> IF i \in S THEN Stores!NewRecord("seed", status[i])
                                              ELSE Absent]
  BY DEF Stores!ArchiveInit, Stores!Init
<1>2. PICK status \in [S -> Stores!Status] :
        items = [i \in RawId |-> IF i \in S THEN Stores!NewRecord("seed", status[i])
                                            ELSE Absent]
  BY <1>1
<1>3. \A i \in S : Stores!NewRecord("seed", status[i]) \in Stores!Record
  BY <1>2 DEF Stores!NewRecord, Stores!Record, Stores!Origin
<1> QED
  BY <1>2, <1>3 DEF Stores!ArchiveInit, Stores!LedgerInv, Stores!LedgerTypeOK,
     Stores!LedgerKeysAreNormal, Stores!KeptIsPast

\* Writing over a live record in place keeps the promises, if it keeps the
\* creator or the id was freed.
LEMMA LedgerWritePromises ==
  ASSUME Stores!LedgerInv, NEW i \in RawId, items[i] # Absent,
         NEW origin \in Stores!Origin, NEW status \in Stores!Status,
         items' = [items EXCEPT ![i] = [origin   |-> origin,
                                        status   |-> status,
                                        revision |-> items[i].revision + 1]],
         i \notin FreedIds => origin = items[i].origin,
         closed' = closed, FreedIds' = FreedIds
  PROVE  Stores!LedgerInv' /\ items'[i] # Absent
<1> DEFINE new == [origin |-> origin, status |-> status, revision |-> items[i].revision + 1]
<1>1. items[i] \in Stores!Record /\ items[i].revision \in Nat \ {0}
  BY DEF Stores!LedgerInv, Stores!LedgerTypeOK, Stores!Record
<1>2. new \in Stores!Record /\ new # Absent
  <2>1. new \in Stores!Record
    BY <1>1 DEF Stores!Record
  <2> QED
    BY <2>1, StoresAreOurs, AbsentAssumption
<1>3. new.revision = items[i].revision + 1 /\ new.origin = origin
  OBVIOUS
<1>4. items' = [items EXCEPT ![i] = new]
  OBVIOUS
<1> HIDE DEF new
<1>5. items'[i] = new
  BY <1>4 DEF Stores!LedgerInv, Stores!LedgerTypeOK
<1>6. Stores!LedgerTypeOK' /\ Stores!LedgerKeysAreNormal'
  BY <1>2, <1>4 DEF Stores!LedgerInv, Stores!LedgerTypeOK, Stores!LedgerKeysAreNormal
<1>7. Stores!KeptIsPast'
  <2> SUFFICES ASSUME NEW j \in RawId
               PROVE  IF j \in FreedIds THEN closed[j] # Absent
                      ELSE closed[j] # Absent =>
                             items'[j] # Absent /\ Stores!PastOf(closed[j], items'[j])
    BY DEF Stores!KeptIsPast, Stores!PastOf
  <2>1. CASE j # i
    BY <1>4, <2>1 DEF Stores!LedgerInv, Stores!LedgerTypeOK, Stores!KeptIsPast
  <2>2. CASE j = i
    <3>1. closed[i] # Absent => closed[i].revision \in Nat
      BY DEF Stores!LedgerInv, Stores!LedgerTypeOK, Stores!Record
    <3> QED
      BY <1>1, <1>2, <1>3, <1>5, <2>2, <3>1
         DEF Stores!LedgerInv, Stores!KeptIsPast, Stores!PastOf
  <2> QED
    BY <2>1, <2>2
<1> QED
  BY <1>2, <1>5, <1>6, <1>7 DEF Stores!LedgerInv

LedgerKnows(i) == items[i] # Absent \/ closed[i] # Absent

LEMMA LedgerStepPromises ==
  ASSUME Stores!LedgerInv, [Stores!ArchiveNext]_Stores!ledgerVars
  PROVE  /\ Stores!LedgerInv'
         /\ \A i \in RawId : LedgerKnows(i) => LedgerKnows(i)'
<1> DEFINE Goal == /\ Stores!LedgerInv'
                   /\ \A i \in RawId : LedgerKnows(i) => LedgerKnows(i)'
<1>0. /\ items \in [RawId -> Stores!Record \cup {Absent}]
      /\ closed \in [RawId -> Stores!Record \cup {Absent}]
      /\ Stores!LedgerKeysAreNormal /\ Stores!KeptIsPast
      /\ Absent \notin Stores!Record
  BY StoresAreOurs, AbsentAssumption DEF Stores!LedgerInv, Stores!LedgerTypeOK
<1>1. CASE UNCHANGED Stores!ledgerVars
  BY <1>1 DEF Stores!ledgerVars, Stores!LedgerInv, Stores!LedgerTypeOK,
     Stores!LedgerKeysAreNormal, Stores!KeptIsPast, Stores!PastOf, LedgerKnows
<1>2. ASSUME NEW i \in RawId, NEW status \in Stores!Status, Stores!Change(i, status),
             UNCHANGED <<closed, FreedIds, OverwrittenIds>>
      PROVE  Goal
  <2>1. items[i].origin \in Stores!Origin
    BY <1>0, <1>2 DEF Stores!Change, Stores!Record
  <2>2. Stores!LedgerInv' /\ items'[i] # Absent
    BY <1>2, <2>1, LedgerWritePromises DEF Stores!Change
  <2> QED
    BY <1>0, <1>2, <2>2 DEF LedgerKnows, Stores!Change
<1>3. ASSUME NEW i \in RawId, NEW status \in Stores!Status, Stores!Overwrite(i, status)
      PROVE  Goal
  <2>1. items[i].origin \in Stores!Origin
    BY <1>0, <1>3 DEF Stores!Overwrite, Stores!Record
  <2>2. Stores!LedgerInv' /\ items'[i] # Absent
    BY <1>3, <2>1, LedgerWritePromises DEF Stores!Overwrite
  <2> QED
    BY <1>0, <1>3, <2>2 DEF LedgerKnows, Stores!Overwrite
<1>4. ASSUME NEW i \in RawId, NEW status \in Stores!Status, NEW origin \in Stores!Origin,
             Stores!Replace(i, origin, status)
      PROVE  Goal
  <2>1. Stores!LedgerInv' /\ items'[i] # Absent
    BY <1>4, LedgerWritePromises DEF Stores!Replace
  <2> QED
    BY <1>0, <1>4, <2>1 DEF LedgerKnows, Stores!Replace
<1>5. ASSUME NEW r \in Request, NEW i \in RawId, NEW status \in Stores!Status,
             Stores!Create(r, i, status), UNCHANGED <<closed, FreedIds, OverwrittenIds>>
      PROVE  Goal
  <2>1. PICK new \in Stores!Record : new = Stores!NewRecord(r, status)
    <3>1. Stores!NewRecord(r, status) \in Stores!Record
      BY DEF Stores!NewRecord, Stores!Record, Stores!Origin
    <3> QED
      BY <3>1
  <2>2. /\ Normal[i] = i /\ items[i] = Absent
        /\ items' = [items EXCEPT ![i] = new]
    BY <1>5, <2>1 DEF Stores!Create
  <2>3. Stores!LedgerTypeOK' /\ Stores!LedgerKeysAreNormal'
    BY <1>0, <1>5, <2>2 DEF Stores!LedgerTypeOK, Stores!LedgerKeysAreNormal
  <2>4. Stores!KeptIsPast'
    BY <1>0, <1>5, <2>2 DEF Stores!KeptIsPast, Stores!PastOf
  <2> QED
    BY <1>0, <1>5, <2>2, <2>3, <2>4 DEF LedgerKnows, Stores!LedgerInv
<1>6. ASSUME NEW i \in RawId, Stores!Save(i) PROVE Goal
  <2>1. PICK new \in Stores!Record : new = closed'[i]
    BY <1>6 DEF Stores!Save
  <2>2. /\ closed' = [closed EXCEPT ![i] = new] /\ items' = items /\ FreedIds' = FreedIds
        /\ i \notin FreedIds => items[i] # Absent /\ Stores!PastOf(new, items[i])
    BY <1>6, <2>1 DEF Stores!Save
  <2>3. Stores!LedgerTypeOK' /\ Stores!LedgerKeysAreNormal'
    BY <1>0, <2>2 DEF Stores!LedgerTypeOK, Stores!LedgerKeysAreNormal
  <2>4. Stores!KeptIsPast'
    BY <1>0, <2>2 DEF Stores!KeptIsPast, Stores!PastOf
  <2> QED
    BY <1>0, <2>2, <2>3, <2>4 DEF LedgerKnows, Stores!LedgerInv
<1>7. ASSUME NEW i \in RawId, Stores!Remove(i) PROVE Goal
  <2>1. /\ items' = [items EXCEPT ![i] = Absent] /\ closed' = closed
        /\ FreedIds' = FreedIds \cup {i} /\ closed[i] # Absent
    BY <1>7 DEF Stores!Remove
  <2>2. Stores!LedgerTypeOK' /\ Stores!LedgerKeysAreNormal'
    BY <1>0, <2>1 DEF Stores!LedgerTypeOK, Stores!LedgerKeysAreNormal
  <2>3. Stores!KeptIsPast'
    BY <1>0, <2>1 DEF Stores!KeptIsPast, Stores!PastOf
  <2> QED
    BY <1>0, <2>1, <2>2, <2>3 DEF LedgerKnows, Stores!LedgerInv
<1> QED
  BY <1>1, <1>2, <1>3, <1>4, <1>5, <1>6, <1>7 DEF Stores!ArchiveNext, Stores!Next

\* An id that names a record, live or kept, never stops naming one; until an id
\* is freed, the copy that is kept under it is a past of the live record; and no
\* two records differ by the spelling of their ids.  This is proved of the
\* ledger alone, for every system that implements it.
THEOREM LedgerPromises ==
  RefinesArchiveLedger => []Stores!LedgerInv /\ Stores!NothingIsLost
<1>1. Stores!LedgerInv /\ [Stores!ArchiveNext]_Stores!ledgerVars =>
        /\ Stores!LedgerInv'
        /\ [\A i \in RawId : items[i] # Absent \/ closed[i] # Absent =>
              items'[i] # Absent \/ closed'[i] # Absent]_Stores!ledgerVars
  BY LedgerStepPromises DEF LedgerKnows
<1> QED
  BY LedgerInitPromises, <1>1, PTL
     DEF RefinesArchiveLedger, Stores!ArchiveSpec, Stores!NothingIsLost

LEMMA LedgerInvGives == Stores!LedgerInv => KeysAreNormal /\ Stores!KeptIsPast
BY DEF Stores!LedgerInv, Stores!LedgerKeysAreNormal, KeysAreNormal, Stored

\* What the ledger promises holds of the requests and the archive.
COROLLARY ArchiveKeepsPromises ==
  ArchiveSpec => [](KeysAreNormal /\ Stores!KeptIsPast) /\ Stores!NothingIsLost
BY ArchiveRefinement, LedgerPromises, LedgerInvGives, PTL

=============================================================================
