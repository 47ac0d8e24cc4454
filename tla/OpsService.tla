------------------------------ MODULE OpsService ------------------------------
(***************************************************************************)
(* OpsService: Create, Transition and AddNote, as concurrent requests run  *)
(* them.  A request is a goroutine; between two of its steps any other     *)
(* request may run.  One action is one locked call on a shared component   *)
(* (OpsStore, OpsStateMachine, OpsNoteStore, OpsAudit) together with the   *)
(* request's own code up to the next such call.                            *)
(*                                                                         *)
(*   create      put ------------------------> audit -> done               *)
(*   transition  get -> move -> update ------> audit -> done               *)
(*   note        get -> append --------------> audit -> done               *)
(***************************************************************************)
EXTENDS OpsStore, OpsHttp

CONSTANTS
  CreateStatus,   \* statuses that creation requests carry
  Target,         \* target_status values that transition requests carry
  Expected        \* expected_revision values; 0 for those not above zero

ASSUME InputAssumption ==
  CreateStatus \subseteq Status /\ Target \subseteq Status /\ Expected \subseteq Nat

VARIABLES
  history,   \* OpsStateMachine.history: the moves granted, in order
  events,    \* OpsAudit.events, in order
  notes,     \* OpsNoteStore.notes: record id -> the notes' requests, in order
  pc,        \* what each request does next
  call,      \* what each request asks for; never changes
  read,      \* the local copy `record` of each transition
  answer     \* the error or "ok" that each request ended with

requestVars == <<pc, call, read, answer>>
vars == <<items, history, events, notes, requestVars>>

-----------------------------------------------------------------------------

CallType == [kind : {"create", "transition", "note"}, id : RawId,
             expected : Nat, status : Status]

Calls ==
  [kind : {"create"}, id : RawId, expected : {0}, status : CreateStatus]
  \cup [kind : {"transition"}, id : RawId, expected : Expected, status : Target]
  \cup [kind : {"note"}, id : RawId, expected : {0}, status : {"queued"}]

Step == {"put", "get", "move", "update", "append", "audit", "done"}

Answer == {"none", "ok"} \cup Error

EventType ==
  [create |-> "created", transition |-> "status_changed", note |-> "note_added"]

\* Mutant of Key: Create forgets to normalise the id.
MutantKeyRaw(r) == call[r].id

\* Create works on the normalised id; the other handlers use the path's id.
Key(r) == IF call[r].kind = "create" THEN Normal[call[r].id] ELSE call[r].id

Goto(r, step) == pc' = [pc EXCEPT ![r] = step] /\ UNCHANGED answer

Finish(r, code) == /\ pc' = [pc EXCEPT ![r] = "done"]
                   /\ answer' = [answer EXCEPT ![r] = code]

Init ==
  /\ Seeded
  /\ history = <<>>
  /\ events = <<>>
  /\ notes = [i \in RawId |-> <<>>]
  /\ call \in [Request -> Calls]
  /\ pc = [r \in Request |-> IF call[r].kind = "create" THEN "put" ELSE "get"]
  /\ read = [r \in Request |-> Absent]
  /\ answer = [r \in Request |-> "none"]

-----------------------------------------------------------------------------

\* The handler cannot decode the request's body.
BodyRefused(r) ==
  /\ pc[r] \in {"put", "get"}
  /\ Finish(r, "invalid")
  /\ UNCHANGED <<items, history, events, notes, call, read>>

-----------------------------------------------------------------------------
(***************************************************************************)
(* Create: normalise, check the policy, put, record the audit event.       *)
(***************************************************************************)

\* OpsPolicy.Check refuses a record without owner, site label or priority;
\* whether the request has them is left open.
CreateRefused(r) ==
  /\ pc[r] = "put"
  /\ Finish(r, "policy")
  /\ UNCHANGED <<items, history, events, notes, call, read>>

\* The store refuses a taken id.
CreateTaken(r) ==
  /\ pc[r] = "put"
  /\ ~CanPut(Key(r))
  /\ Finish(r, "create_conflict")
  /\ UNCHANGED <<items, history, events, notes, call, read>>

\* The client is gone before the store is asked.
CreateExpires(r) ==
  /\ pc[r] = "put"
  /\ Finish(r, "create_internal")
  /\ UNCHANGED <<items, history, events, notes, call, read>>

CreatePut(r) ==
  /\ pc[r] = "put"
  /\ CanPut(Key(r))
  /\ Put(Key(r), NewRecord(r, call[r].status))
  /\ Goto(r, "audit")
  /\ UNCHANGED <<history, events, notes, call, read>>

-----------------------------------------------------------------------------
(***************************************************************************)
(* Transition: read the record, ask the state machine, write the record.   *)
(***************************************************************************)

TransitionGet(r) ==
  /\ pc[r] = "get" /\ call[r].kind = "transition"
  /\ IF CanUpdate(Key(r), call[r].expected)
       THEN /\ read' = [read EXCEPT ![r] = items[Key(r)]]
            /\ Goto(r, "move")
       ELSE /\ Finish(r, UpdateError(Key(r)))
            /\ UNCHANGED read
  /\ UNCHANGED <<items, history, events, notes, call>>

\* OpsStateMachine.Move: the history keeps every granted change of status,
\* before the store has accepted it.
TransitionMove(r) ==
  LET from == read[r].status
      to   == call[r].status
  IN /\ pc[r] = "move"
     /\ IF CanMove(from, to)
          THEN /\ history' = IF from = to THEN history
                             ELSE Append(history, [from |-> from, to |-> to])
               /\ Goto(r, "update")
          ELSE Finish(r, "transition") /\ UNCHANGED history
     /\ UNCHANGED <<items, events, notes, call, read>>

\* Mutant of TransitionUpdate: the revision was compared when the record was
\* read, and is not compared again.
MutantUpdateBlind(r) ==
  /\ pc[r] = "update"
  /\ IF Stored(Key(r))
       THEN /\ Update(Key(r), [read[r] EXCEPT !.status = call[r].status])
            /\ Goto(r, "audit")
       ELSE Finish(r, UpdateError(Key(r))) /\ UNCHANGED items
  /\ UNCHANGED <<history, events, notes, call, read>>

TransitionUpdate(r) ==
  /\ pc[r] = "update"
  /\ IF CanUpdate(Key(r), call[r].expected)
       THEN /\ Update(Key(r), [read[r] EXCEPT !.status = call[r].status])
            /\ Goto(r, "audit")
       ELSE Finish(r, UpdateError(Key(r))) /\ UNCHANGED items
  /\ UNCHANGED <<history, events, notes, call, read>>

\* The transition's context is done (three seconds, or the client is gone):
\* the store answers the context's error instead of doing the call.
TransitionExpires(r) ==
  /\ pc[r] \in {"get", "update"} /\ call[r].kind = "transition"
  /\ Finish(r, "internal")
  /\ UNCHANGED <<items, history, events, notes, call, read>>

-----------------------------------------------------------------------------
(***************************************************************************)
(* AddNote: check that the record exists, then append under another lock.  *)
(***************************************************************************)

\* Mutant of NoteGet: a note is taken for any id.
MutantNoteUnchecked(r) ==
  /\ pc[r] = "get" /\ call[r].kind = "note"
  /\ Goto(r, "append") \/ Finish(r, "invalid")
  /\ UNCHANGED <<items, history, events, notes, call, read>>

\* Whether author and text are given is left open.
NoteGet(r) ==
  /\ pc[r] = "get" /\ call[r].kind = "note"
  /\ \/ Stored(Key(r)) /\ Goto(r, "append")
     \/ Stored(Key(r)) /\ Finish(r, "invalid")
     \/ ~Stored(Key(r)) /\ Finish(r, "not_found")
  /\ UNCHANGED <<items, history, events, notes, call, read>>

\* Mutant of NoteAppend: the note is answered without an audit event.
MutantNoteNotAudited(r) ==
  /\ pc[r] = "append"
  /\ notes' = [notes EXCEPT ![Key(r)] = Append(@, r)]
  /\ Finish(r, "ok")
  /\ UNCHANGED <<items, history, events, call, read>>

NoteAppend(r) ==
  /\ pc[r] = "append"
  /\ notes' = [notes EXCEPT ![Key(r)] = Append(@, r)]
  /\ Goto(r, "audit")
  /\ UNCHANGED <<items, history, events, call, read>>

-----------------------------------------------------------------------------

\* OpsAudit.Add: last step of every request that had an effect.  The event id
\* is drawn under the audit's lock, so events stand in the order of their ids.
AuditAdd(r) ==
  /\ pc[r] = "audit"
  /\ events' = Append(events, [by |-> r, record |-> Key(r),
                               type |-> EventType[call[r].kind]])
  /\ Finish(r, "ok")
  /\ UNCHANGED <<items, history, notes, call, read>>

Handle(r) ==
  \/ BodyRefused(r)
  \/ CreateRefused(r) \/ CreateTaken(r) \/ CreateExpires(r) \/ CreatePut(r)
  \/ TransitionGet(r) \/ TransitionMove(r) \/ TransitionUpdate(r)
  \/ TransitionExpires(r)
  \/ NoteGet(r) \/ NoteAppend(r)
  \/ AuditAdd(r)

\* Every request has been answered: nothing is left to do.
Idle == (\A r \in Request : pc[r] = "done") /\ UNCHANGED vars

Next == Idle \/ \E r \in Request : Handle(r)

Spec == Init /\ [][Next]_vars

-----------------------------------------------------------------------------
(***************************************************************************)
(* Properties.                                                             *)
(***************************************************************************)

\* Every variable keeps its type: in particular every stored record has a
\* positive revision, whatever the requests sent (normalizeOpsRecord).  The
\* trail also has events of OpsWorker, which is not a request.
TypeOK ==
  /\ StoreTypeOK
  /\ history \in Seq([from : Status, to : Status])
  /\ events \in Seq([by : Request \cup {"worker"}, record : RawId,
                     type : {"created", "status_changed", "note_added"}])
  /\ notes \in [RawId -> Seq(Request)]
  /\ pc \in [Request -> Step]
  /\ call \in [Request -> CallType]
  /\ read \in [Request -> Record \cup {Absent}]
  /\ answer \in [Request -> Answer]

\* A record is only ever stored under a normalised id, so no two live records
\* have ids that differ by spelling alone (Create and newOpsStore normalise).
KeysAreNormal == \A i \in RawId : Stored(i) => Normal[i] = i

\* The transition has replaced the stored record.
Committed(r) ==
  call[r].kind = "transition" /\ (pc[r] = "audit" \/ answer[r] = "ok")

\* Optimistic locking: of all the transitions that named the same revision of
\* the same record, however their reads and writes interleave, at most one
\* replaces the record (the comparison in OpsStore.Update).
NoDoubleCommit ==
  \A r, s \in Request :
    /\ r # s /\ Committed(r) /\ Committed(s) /\ Key(r) = Key(s)
    /\ call[r].expected > 0
    => call[r].expected # call[s].expected

\* A transition's copy is never ahead of the store: while its request is
\* between reading and writing, the record stays, keeps its creator, and either
\* is the copy or has a later revision (OpsStore.Update counts from the stored
\* revision, and nothing but Update changes a stored record).
ReadsAreSound ==
  \A r \in {s \in Request : pc[s] \in {"move", "update"}} :
    /\ Stored(Key(r))
    /\ read[r].revision <= items[Key(r)].revision
    /\ read[r].revision = items[Key(r)].revision => read[r] = items[Key(r)]
    /\ read[r].origin = items[Key(r)].origin

CommitsGuarded(r) ==
  pc[r] = "update" /\ pc'[r] = "audit" /\ call[r].expected > 0

\* A transition that named a revision moves the record along the transition
\* table from the status the record has at the moment of the write, although
\* the table was consulted for a copy read two steps earlier, and it keeps
\* what the creator wrote.
GuardedMovesFollowTable ==
  [][\A r \in Request : CommitsGuarded(r) =>
       /\ CanMove(items[Key(r)].status, items'[Key(r)].status)
       /\ items'[Key(r)].origin = items[Key(r)].origin]_vars

\* The audit trail explains the revision: a record's revision exceeds 1 by the
\* status_changed events in its trail and the transitions that have written
\* it and are about to add theirs.  No write is lost or counted twice, with or
\* without a named revision.
AuditExplainsRevision ==
  \A i \in {j \in RawId : Stored(j)} :
    items[i].revision =
      1 + Cardinality({k \in DOMAIN events :
                         events[k].record = i /\ events[k].type = "status_changed"})
        + Cardinality({r \in Request :
                         Key(r) = i /\ pc[r] = "audit" /\ call[r].kind = "transition"})

HttpStatus(r) ==
  IF answer[r] = "ok" THEN SuccessStatus[call[r].kind] ELSE opsWriteError(answer[r])

\* The status a client is given tells what became of its request, whoever ran
\* in between: with a 2xx its one audit event is in the trail, and its record
\* or its one note is stored; with any other status it left no event, record
\* or note, so that it may be sent again.
AnswersMatchEffects ==
  \A r \in {s \in Request : pc[s] = "done"} :
    LET mine   == {k \in DOMAIN events : events[k].by = r}
        noted  == {k \in DOMAIN notes[Key(r)] : notes[Key(r)][k] = r}
        stored == {i \in RawId : Stored(i) /\ items[i].origin = r}
    IN IF HttpStatus(r) \in {200, 201}
       THEN /\ \E k \in mine : /\ mine = {k}
                               /\ events[k].record = Key(r)
                               /\ events[k].type = EventType[call[r].kind]
            /\ stored = IF call[r].kind = "create" THEN {Key(r)} ELSE {}
            /\ Cardinality(noted) = IF call[r].kind = "note" THEN 1 ELSE 0
       ELSE mine = {} /\ noted = {} /\ stored = {}

Ledger == INSTANCE RecordLedger WITH ledger <- items

\* When every transition names a revision, the interleaved read, check and
\* write of all requests amount to one atomic change of one record at a time.
RefinesLedger == Ledger!Spec

\* ErrOpsTransition says "operations status transition is not allowed"
\* (ops_errors.go:12), and the row of the transition table for closed is empty
\* (ops_state.go:12): no write takes a record off the table.
TransitionsFollowTable ==
  [][\A i \in RawId : Stored(i) /\ Stored(i)' =>
       CanMove(items[i].status, items'[i].status)]_items

=============================================================================
