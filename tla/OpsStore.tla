------------------------------- MODULE OpsStore -------------------------------
(***************************************************************************)
(* OpsStore: the map of live records.  Every method takes the store's lock *)
(* for its whole body, so each operator here is one atomic step of the     *)
(* goroutine that calls it.  The operators describe what the call does to  *)
(* the map when it succeeds and the error code it answers otherwise.       *)
(***************************************************************************)
EXTENDS OpsModel

VARIABLE items   \* OpsStore.items: spelling of an id -> record, or Absent

\* newOpsStore(seed): every seed record is stored under its normal form.
Seeded ==
  \E S \in SUBSET {i \in RawId : Normal[i] = i} :
    \E status \in [S -> Status] :
      items = [i \in RawId |-> IF i \in S THEN NewRecord("seed", status[i])
                                          ELSE Absent]

Stored(i) == items[i] # Absent

\* Mutant of RevisionAgrees: any revision not older than the expected one will do.
MutantRevisionAtLeast(i, expected) == expected > 0 => items[i].revision >= expected

\* An expected revision of zero or less switches the comparison off.
RevisionAgrees(i, expected) == expected > 0 => items[i].revision = expected

-----------------------------------------------------------------------------

\* Mutant of CanPut: the key need not be free.
MutantPutOver(i) == i \in RawId

\* Put stores only under a free key.
CanPut(i) == ~Stored(i)
Put(i, record) == items' = [items EXCEPT ![i] = record]

\* Mutant of Update: the new revision is counted from the caller's copy.
MutantUpdateCountsCopy(i, record) ==
  items' = [items EXCEPT ![i] = [record EXCEPT !.revision = record.revision + 1]]

\* Update compares and swaps: the caller's copy replaces the stored record,
\* with the stored record's revision plus one.
CanUpdate(i, expected) == Stored(i) /\ RevisionAgrees(i, expected)
UpdateError(i) == IF Stored(i) THEN "conflict" ELSE "not_found"
Update(i, record) ==
  items' = [items EXCEPT ![i] = [record EXCEPT !.revision = items[i].revision + 1]]

Delete(i) == items' = [items EXCEPT ![i] = Absent]

-----------------------------------------------------------------------------

StoreTypeOK == items \in [RawId -> Record \cup {Absent}]

=============================================================================
