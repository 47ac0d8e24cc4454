------------------------------ MODULE OpsArchive ------------------------------
(***************************************************************************)
(* OpsArchive: moving closed records out of the live store, while the      *)
(* requests of OpsService run.  Archive takes three locks one after the    *)
(* other, so a record can change, vanish or be created anew between them:  *)
(*                                                                         *)
(*   archive     get -> save -> delete -> done                             *)
(*                                                                         *)
(* With the archive, records leave the live store, which OpsService alone  *)
(* never lets them do.                                                     *)
(***************************************************************************)
EXTENDS OpsService

CONSTANT Archiver   \* requests to POST /api/ops/archive/{id}

VARIABLES
  closed,   \* OpsArchive.closed: record id -> archived copy, or Absent
  apc,      \* what each archive request does next
  aid,      \* the id each archive request names; never changes
  copy,     \* the local copy `item` of each archive request
  result    \* the error code or "ok" that each archive request ended with

archiveVars == <<closed, apc, aid, copy, result>>
allVars == <<vars, archiveVars>>

-----------------------------------------------------------------------------

EndArchive(a, code) == /\ apc' = [apc EXCEPT ![a] = "done"]
                       /\ result' = [result EXCEPT ![a] = code]

\* Mutant of ArchiveGet: whatever its status, the record goes on.
MutantGetUnchecked(a) ==
  /\ apc[a] = "get"
  /\ \/ /\ ~Stored(aid[a])
        /\ EndArchive(a, "not_found") /\ UNCHANGED copy
     \/ /\ Stored(aid[a])
        /\ copy' = [copy EXCEPT ![a] = items[aid[a]]]
        /\ apc' = [apc EXCEPT ![a] = "save"] /\ UNCHANGED result
  /\ UNCHANGED <<vars, closed, aid>>

\* Only a closed record goes on to be archived.
ArchiveGet(a) ==
  /\ apc[a] = "get"
  /\ \/ /\ ~Stored(aid[a])
        /\ EndArchive(a, "not_found") /\ UNCHANGED copy
     \/ /\ Stored(aid[a]) /\ ~Terminal(items[aid[a]])
        /\ EndArchive(a, "transition") /\ UNCHANGED copy
     \/ /\ Stored(aid[a]) /\ Terminal(items[aid[a]])
        /\ copy' = [copy EXCEPT ![a] = items[aid[a]]]
        /\ apc' = [apc EXCEPT ![a] = "save"] /\ UNCHANGED result
  /\ UNCHANGED <<vars, closed, aid>>

\* Mutant of ArchiveSave: the copy is not kept.
MutantSaveNothing(a) ==
  /\ apc[a] = "save"
  /\ apc' = [apc EXCEPT ![a] = "delete"]
  /\ UNCHANGED <<vars, closed, aid, copy, result>>

ArchiveSave(a) ==
  /\ apc[a] = "save"
  /\ closed' = [closed EXCEPT ![aid[a]] = copy[a]]
  /\ apc' = [apc EXCEPT ![a] = "delete"]
  /\ UNCHANGED <<vars, aid, copy, result>>

\* Mutant of ArchiveDelete: deleting a missing record is a success.
MutantDeleteIdempotent(a) ==
  /\ apc[a] = "delete"
  /\ Delete(aid[a])
  /\ EndArchive(a, "ok")
  /\ UNCHANGED <<history, events, notes, requestVars, closed, aid, copy>>

\* Whatever record is live under the id by now is deleted.
ArchiveDelete(a) ==
  /\ apc[a] = "delete"
  /\ IF Stored(aid[a])
       THEN Delete(aid[a]) /\ EndArchive(a, "ok")
       ELSE UNCHANGED items /\ EndArchive(a, "not_found")
  /\ UNCHANGED <<history, events, notes, requestVars, closed, aid, copy>>

\* The client is gone: the store answers the context's error.  Before the
\* delete, the record is then archived and live.
ArchiveExpires(a) ==
  /\ apc[a] \in {"get", "delete"}
  /\ EndArchive(a, "internal")
  /\ UNCHANGED <<vars, closed, aid, copy>>

-----------------------------------------------------------------------------

ArchiveInit ==
  /\ Init
  /\ closed = [i \in RawId |-> Absent]
  /\ aid \in [Archiver -> RawId]
  /\ apc = [a \in Archiver |-> "get"]
  /\ copy = [a \in Archiver |-> Absent]
  /\ result = [a \in Archiver |-> "none"]

Archive(a) ==
  ArchiveGet(a) \/ ArchiveSave(a) \/ ArchiveDelete(a) \/ ArchiveExpires(a)

AllAnswered == /\ \A r \in Request : pc[r] = "done"
               /\ \A a \in Archiver : apc[a] = "done"

ArchiveNext ==
  \/ \E r \in Request : Handle(r) /\ UNCHANGED archiveVars
  \/ \E a \in Archiver : Archive(a)
  \/ AllAnswered /\ UNCHANGED allVars

ArchiveSpec == ArchiveInit /\ [][ArchiveNext]_allVars

-----------------------------------------------------------------------------
(***************************************************************************)
(* Properties.                                                             *)
(***************************************************************************)

ArchiveTypeOK ==
  /\ TypeOK
  /\ closed \in [RawId -> Record \cup {Absent}]
  /\ apc \in [Archiver -> {"get", "save", "delete", "done"}]
  /\ aid \in [Archiver -> RawId]
  /\ copy \in [Archiver -> Record \cup {Absent}]
  /\ result \in [Archiver -> {"none", "ok", "not_found", "transition", "internal"}]

\* A record that leaves the live store is in the archive: at no moment is its
\* id unknown to both (Archive saves before it deletes).
LeavingIsArchiving ==
  [][\A i \in RawId : Stored(i) /\ ~Stored(i)' =>
       closed[i] # Absent /\ Terminal(closed[i])]_allVars

\* Archive says "only closed records can be archived" (ops_archive.go:28): a
\* record is closed at the moment it is deleted, not only when it was read.
DeletesOnlyClosed ==
  [][\A i \in RawId : Stored(i) /\ ~Stored(i)' => Terminal(items[i])]_allVars

\* An archive request has ended a life of the record.
Archived(i) == \E a \in Archiver : result[a] = "ok" /\ aid[a] = i

\* A transition that named no revision has written the record.
Overwritten(i) ==
  \E r \in Request : Committed(r) /\ Key(r) = i /\ call[r].expected = 0

\* A record that is not closed is only ever deleted when another archive
\* request has ended a life of that id before, so that it was created anew, or
\* when a transition that named no revision has written over it: transitions
\* that name a revision cannot undo the check of a single archive request.
UnclosedLeavesByRace ==
  [][\A a \in Archiver :
       apc[a] = "delete" /\ result'[a] = "ok" /\ ~Terminal(items[aid[a]]) =>
         Archived(aid[a]) \/ Overwritten(aid[a])]_allVars

\* A write that names a revision replaces what another creator wrote only when
\* archiving has freed the id in between: revisions start at 1 again then, and
\* nothing else makes one revision name two states of a record.
ForeignWritesNeedArchiving ==
  [][\A r \in Request :
       CommitsGuarded(r) /\ items'[Key(r)].origin # items[Key(r)].origin =>
         Archived(Key(r))]_allVars

\* Every archive request that is answered with success has ended a life of the
\* record of its own: the successes and the live record together are the
\* creations, and the seed record if there was one.
OneArchivePerLife ==
  \A i \in RawId :
    LET lives    == Cardinality({r \in Request :
                      /\ call[r].kind = "create" /\ Key(r) = i
                      /\ pc[r] = "audit" \/ answer[r] = "ok"})
        archived == Cardinality({a \in Archiver : aid[a] = i /\ result[a] = "ok"})
        live     == IF Stored(i) THEN 1 ELSE 0
    IN archived + live \in {lives, lives + 1}

FreedIds == {i \in RawId : Archived(i)}
OverwrittenIds == {i \in RawId : Overwritten(i)}

Stores == INSTANCE ArchiveLedger WITH
            ledger <- items, archive <- closed,
            freed <- FreedIds, overwritten <- OverwrittenIds

\* Requests of every kind, with or without a named revision, and archive
\* requests amount to one atomic step at a time on the live records and the
\* archive.  An archived copy may lack changes that were granted since Archive
\* read it; they have left the record closed, unless a transition named no
\* revision, and its contents as they were.
RefinesArchiveLedger == Stores!ArchiveSpec

=============================================================================
