------------------------------- MODULE OpsModel -------------------------------
(***************************************************************************)
(* The data of the operations domain of museum-conservation-service:       *)
(* record ids and their normal form, statuses and the transition table,    *)
(* and the record itself.  Nothing here has state; every module of the     *)
(* operations domain extends this one.                                     *)
(***************************************************************************)
EXTENDS Naturals, Sequences, FiniteSets

CONSTANTS
  Request,   \* HTTP requests; each one runs in a goroutine of its own
  RawId,     \* record ids the way callers spell them
  Normal,    \* spelling -> strings.ToLower(strings.TrimSpace(spelling))
  Absent     \* what a lookup in a map without the key yields

\* Lower-casing a trimmed string gives a string that is its own normal form.
ASSUME NormalAssumption ==
  /\ Normal \in [RawId -> RawId]
  /\ \A i \in RawId : Normal[Normal[i]] = Normal[i]

-----------------------------------------------------------------------------

\* OpsStatus is a string type: the four named values, and whatever string a
\* creation request carries, for which "unknown" stands (opsStatusValid, the
\* function that would refuse it, has no caller).
NamedStatus == {"queued", "active", "paused", "closed"}
Status == NamedStatus \cup {"unknown"}

opsTransitionTable ==
  [ queued |-> {"active", "closed"},
    active |-> {"paused", "closed"},
    paused |-> {"active", "closed"},
    closed |-> {} ]

CanMove(from, to) ==
  from = to \/ (from \in NamedStatus /\ to \in opsTransitionTable[from])

\* The record's Subject, Owner, Priority, Labels and CreatedAt are set when it
\* is created and copied by every later write: origin, who created it, stands
\* for them, "seed" for the records newOpsStore is given.  UpdatedAt belongs to
\* the modules where time matters.
Origin == Request \cup {"seed"}

ASSUME RequestAssumption == "seed" \notin Request

Record == [origin : Origin, status : Status, revision : Nat \ {0}]

ASSUME AbsentAssumption == Absent \notin Record

\* Mutant of NewRecord: the revision is left as the request had it, zero.
MutantNewRecordRaw(from, status) ==
  [origin |-> from, status |-> status, revision |-> 0]

\* normalizeOpsRecord on a record that carries no revision.
NewRecord(from, status) == [origin |-> from, status |-> status, revision |-> 1]

Terminal(record) == record.status = "closed"

=============================================================================
