----------------------------- MODULE RecordLedger -----------------------------
(***************************************************************************)
(* What the records API promises about the live records, with every        *)
(* request done in one step: a record is created under a free normalised   *)
(* id, and a change moves it along the transition table, keeps everything  *)
(* its creator wrote, and counts one revision.  No change is lost, because *)
(* each one starts from the record the previous one left.                  *)
(***************************************************************************)
EXTENDS OpsModel

VARIABLE ledger   \* normalised id -> record, or Absent

Init ==
  \E S \in SUBSET {i \in RawId : Normal[i] = i} :
    \E status \in [S -> Status] :
      ledger = [i \in RawId |-> IF i \in S THEN NewRecord("seed", status[i])
                                           ELSE Absent]

Create(r, i, status) ==
  /\ Normal[i] = i
  /\ ledger[i] = Absent
  /\ ledger' = [ledger EXCEPT ![i] = NewRecord(r, status)]

Change(i, status) ==
  /\ ledger[i] # Absent
  /\ CanMove(ledger[i].status, status)
  /\ ledger' = [ledger EXCEPT ![i] = [origin   |-> ledger[i].origin,
                                      status   |-> status,
                                      revision |-> ledger[i].revision + 1]]

Next ==
  \E i \in RawId, status \in Status :
    Change(i, status) \/ \E r \in Request : Create(r, i, status)

Spec == Init /\ [][Next]_ledger

=============================================================================
