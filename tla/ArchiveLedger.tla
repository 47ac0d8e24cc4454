----------------------------- MODULE ArchiveLedger -----------------------------
(***************************************************************************)
(* What the records API and the archive promise together, with every       *)
(* request done in one step: what RecordLedger says of creations and       *)
(* changes, and that a record leaves the live store only when it is closed *)
(* and a copy of it has been kept.                                         *)
(*                                                                         *)
(* The promise is weaker for two kinds of ids, which the ledger names.  Of *)
(* an id whose record was removed, revisions start at 1 again, so a change *)
(* or a copy that was meant for the old record may hit the new one.  A     *)
(* record that a change wrote without naming a revision keeps its creator  *)
(* and counts its revisions, but its status may have left the table.       *)
(***************************************************************************)
EXTENDS RecordLedger

VARIABLES
  archive,      \* id -> the copy that was kept, or Absent
  freed,        \* ids that a record was removed from
  overwritten   \* ids that a change without a named revision wrote

ledgerVars == <<ledger, archive, freed, overwritten>>

\* A kept copy may lack the last changes of its record, but has its contents.
PastOf(copy, record) ==
  copy.origin = record.origin /\ copy.revision <= record.revision

Exempt == freed \cup overwritten

ArchiveInit ==
  /\ Init
  /\ archive = [i \in RawId |-> Absent]
  /\ freed = {} /\ overwritten = {}

-----------------------------------------------------------------------------

Overwrite(i, status) ==
  /\ ledger[i] # Absent
  /\ ledger' = [ledger EXCEPT ![i] = [origin   |-> ledger[i].origin,
                                      status   |-> status,
                                      revision |-> ledger[i].revision + 1]]
  /\ overwritten' = overwritten \cup {i}
  /\ UNCHANGED <<archive, freed>>

\* A change meant for the record that the id had before.
Replace(i, origin, status) ==
  /\ i \in freed /\ ledger[i] # Absent
  /\ ledger' = [ledger EXCEPT ![i] = [origin   |-> origin,
                                      status   |-> status,
                                      revision |-> ledger[i].revision + 1]]
  /\ overwritten' \in {overwritten, overwritten \cup {i}}
  /\ UNCHANGED <<archive, freed>>

Save(i) ==
  /\ archive'[i] \in Record /\ Terminal(archive'[i])
  /\ archive' = [archive EXCEPT ![i] = archive'[i]]
  /\ i \notin freed => ledger[i] # Absent /\ PastOf(archive'[i], ledger[i])
  /\ i \notin Exempt => Terminal(ledger[i])
  /\ UNCHANGED <<ledger, freed, overwritten>>

Remove(i) ==
  /\ ledger[i] # Absent /\ archive[i] # Absent
  /\ i \notin Exempt => Terminal(ledger[i])
  /\ ledger' = [ledger EXCEPT ![i] = Absent]
  /\ freed' = freed \cup {i}
  /\ UNCHANGED <<archive, overwritten>>

ArchiveNext ==
  \/ Next /\ UNCHANGED <<archive, freed, overwritten>>
  \/ \E i \in RawId :
       \/ Save(i) \/ Remove(i)
       \/ \E status \in Status :
            Overwrite(i, status) \/ \E origin \in Origin : Replace(i, origin, status)

ArchiveSpec == ArchiveInit /\ [][ArchiveNext]_ledgerVars

-----------------------------------------------------------------------------

LedgerTypeOK ==
  /\ ledger \in [RawId -> Record \cup {Absent}]
  /\ archive \in [RawId -> Record \cup {Absent}]

\* Two live records never differ by the spelling of their ids alone.
LedgerKeysAreNormal == \A i \in RawId : ledger[i] # Absent => Normal[i] = i

\* Until the first record of an id is removed, what has been kept under the id
\* is a past of the live record; a removed record leaves its copy behind.
KeptIsPast ==
  \A i \in RawId :
    IF i \in freed THEN archive[i] # Absent
    ELSE archive[i] # Absent => ledger[i] # Absent /\ PastOf(archive[i], ledger[i])

\* An id that names a record, live or kept, never stops naming one.
NothingIsLost ==
  [][\A i \in RawId : ledger[i] # Absent \/ archive[i] # Absent =>
       ledger'[i] # Absent \/ archive'[i] # Absent]_ledgerVars

LedgerInv == LedgerTypeOK /\ LedgerKeysAreNormal /\ KeptIsPast

=============================================================================
