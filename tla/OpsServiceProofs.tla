--------------------------- MODULE OpsServiceProofs ---------------------------
(***************************************************************************)
(* Proofs about OpsService, for any requests, record ids and inputs.       *)
(*                                                                         *)
(* IInv, the inductive invariant, is the type invariant, the relation of a *)
(* request's step to its kind, and the soundness of the copy a transition  *)
(* holds between its read and its write.                                   *)
(***************************************************************************)
EXTENDS OpsService, FiniteSetTheorems, TLAPS

\* What a request's next step says of the request: only a creation puts, only
\* a transition holds a copy, and its copy passed the checks done so far.
StepsFitCalls ==
  \A r \in Request :
    /\ pc[r] = "put" => call[r].kind = "create"
    /\ pc[r] = "append" => call[r].kind = "note"
    /\ pc[r] \in {"move", "update"} =>
         /\ call[r].kind = "transition"
         /\ read[r] \in Record
         /\ call[r].expected > 0 => read[r].revision = call[r].expected
    /\ pc[r] = "update" => CanMove(read[r].status, call[r].status)
    /\ pc[r] # "done" => answer[r] = "none"

\* A transition that named a revision has moved its record past it.
CommitsAdvance ==
  \A r \in Request :
    Committed(r) /\ call[r].expected > 0 =>
      /\ Stored(Key(r))
      /\ items[Key(r)].revision > call[r].expected

IInv == TypeOK /\ StepsFitCalls /\ ReadsAreSound

-----------------------------------------------------------------------------
(***************************************************************************)
(* Operators of the store and the model.                                   *)
(***************************************************************************)

\* Appending keeps a sequence in its type.
LEMMA AppendIsTyped ==
  ASSUME NEW S, NEW s \in Seq(S), NEW e \in S
  PROVE  Append(s, e) \in Seq(S)
OBVIOUS

\* Every request works on a record id, and a creation on a normalised one.
LEMMA KeyIsId ==
  ASSUME call \in [Request -> CallType], NEW r \in Request
  PROVE  /\ Key(r) \in RawId
         /\ call[r].kind = "create" => Normal[Key(r)] = Key(r)
BY NormalAssumption DEF Key, CallType

\* Every call the program is given is well typed.
LEMMA CallsAreTyped == Calls \subseteq CallType
<1> SUFFICES ASSUME NEW c \in Calls PROVE c \in CallType
  OBVIOUS
<1>1. CreateStatus \subseteq Status /\ Target \subseteq Status /\ Expected \subseteq Nat
  BY InputAssumption
<1>2. "queued" \in Status
  BY DEF Status, NamedStatus
<1>3. c \in [kind : {"create"}, id : RawId, expected : {0}, status : CreateStatus]
        => c \in CallType
  BY <1>1 DEF CallType
<1>4. c \in [kind : {"transition"}, id : RawId, expected : Expected, status : Target]
        => c \in CallType
  BY <1>1 DEF CallType
<1>5. c \in [kind : {"note"}, id : RawId, expected : {0}, status : {"queued"}]
        => c \in CallType
  BY <1>2 DEF CallType
<1> QED
  BY <1>3, <1>4, <1>5 DEF Calls

\* What a creation stores is a record, at revision 1.
LEMMA NewRecordIsRecord ==
  ASSUME NEW from \in Origin, NEW status \in Status
  PROVE  NewRecord(from, status) \in Record /\ NewRecord(from, status).revision = 1
BY DEF NewRecord, Record

\* Update under a free-standing copy: the stored record becomes the copy, one
\* revision after the record it replaces; no other record changes.
LEMMA UpdateReplaces ==
  ASSUME StoreTypeOK,
         NEW i \in RawId, Stored(i),
         NEW copy \in Record,
         NEW status \in Status,
         Update(i, [copy EXCEPT !.status = status])
  PROVE  /\ StoreTypeOK'
         /\ items'[i] \in Record
         /\ items'[i].revision = items[i].revision + 1
         /\ items'[i].origin = copy.origin
         /\ items'[i].status = status
         /\ \A j \in RawId \ {i} : items'[j] = items[j]
<1> DEFINE moved == [copy EXCEPT !.status = status]
           new   == [moved EXCEPT !.revision = items[i].revision + 1]
<1>1. items[i] \in Record
  BY DEF StoreTypeOK, Stored
<1>2. items[i].revision + 1 \in Nat \ {0}
  BY <1>1 DEF Record
<1>3. moved \in Record /\ moved.origin = copy.origin /\ moved.status = status
  BY DEF Record
<1>4. /\ new \in Record
      /\ new.revision = items[i].revision + 1
      /\ new.origin = copy.origin
      /\ new.status = status
  <2> HIDE DEF moved
  <2> QED  BY <1>2, <1>3 DEF Record
<1>5. items' = [items EXCEPT ![i] = new]
  BY DEF Update
<1> QED
  <2> HIDE DEF new
  <2> QED  BY <1>4, <1>5 DEF StoreTypeOK

\* A step of one request leaves the other requests' own state alone.
LEMMA StepIsLocal ==
  ASSUME TypeOK, NEW r \in Request, Handle(r),
         NEW s \in Request, s # r
  PROVE  pc'[s] = pc[s] /\ read'[s] = read[s] /\ answer'[s] = answer[s]
BY DEF Handle, TypeOK, Goto, Finish, BodyRefused, CreateRefused, CreateTaken,
       CreateExpires, CreatePut, TransitionGet, TransitionMove, TransitionUpdate,
       TransitionExpires, NoteGet, NoteAppend, AuditAdd

\* No step changes what the requests ask for.
LEMMA CallsNeverChange == ASSUME [Next]_vars PROVE call' = call
BY DEF Next, Handle, Idle, vars, requestVars, BodyRefused, CreateRefused, CreateTaken,
       CreateExpires, CreatePut, TransitionGet, TransitionMove, TransitionUpdate,
       TransitionExpires, NoteGet, NoteAppend, AuditAdd

-----------------------------------------------------------------------------
(***************************************************************************)
(* Type correctness, and the fit of steps to kinds of request.             *)
(***************************************************************************)

LEMMA InitTyped == Init => TypeOK /\ StepsFitCalls
<1> SUFFICES ASSUME Init PROVE TypeOK /\ StepsFitCalls
  OBVIOUS
<1>1. StoreTypeOK
  <2>0. PICK S \in SUBSET {i \in RawId : Normal[i] = i} :
          \E status \in [S -> Status] :
            items = [i \in RawId |-> IF i \in S THEN NewRecord("seed", status[i])
                                                ELSE Absent]
    BY DEF Init, Seeded
  <2>1. PICK status \in [S -> Status] :
          items = [i \in RawId |-> IF i \in S THEN NewRecord("seed", status[i])
                                              ELSE Absent]
    BY <2>0
  <2>2. \A i \in S : NewRecord("seed", status[i]) \in Record
    BY NewRecordIsRecord DEF Origin
  <2> QED
    BY <2>1, <2>2 DEF StoreTypeOK
<1>2. call \in [Request -> CallType]
  BY CallsAreTyped DEF Init
<1>3. pc \in [Request -> Step]
  BY DEF Init, Step
<1>4. /\ history \in Seq([from : Status, to : Status])
      /\ events \in Seq([by : Request \cup {"worker"}, record : RawId,
                         type : {"created", "status_changed", "note_added"}])
      /\ notes \in [RawId -> Seq(Request)]
  BY DEF Init
<1>5. /\ read \in [Request -> Record \cup {Absent}]
      /\ answer \in [Request -> Answer]
  BY DEF Init, Answer
<1>6. StepsFitCalls
  BY DEF Init, StepsFitCalls
<1> QED
  BY <1>1, <1>2, <1>3, <1>4, <1>5, <1>6 DEF TypeOK

LEMMA StepTyped == TypeOK /\ StepsFitCalls /\ [Next]_vars => TypeOK'
<1> SUFFICES ASSUME TypeOK, StepsFitCalls, [Next]_vars PROVE TypeOK'
  OBVIOUS
<1>1. call' = call /\ call \in [Request -> CallType]
  BY CallsNeverChange DEF TypeOK
<1>2. CASE vars' = vars
  BY <1>2 DEF TypeOK, StoreTypeOK, vars, requestVars
<1>3. CASE Idle
  BY <1>3 DEF Idle, TypeOK, StoreTypeOK, vars, requestVars
<1>4. ASSUME NEW r \in Request, Handle(r) PROVE TypeOK'
  <2>1. Key(r) \in RawId /\ call[r].status \in Status
    BY <1>1, KeyIsId DEF CallType
  <2>2. pc' \in [Request -> Step] /\ answer' \in [Request -> Answer]
    BY <1>4, Zenon DEF Handle, BodyRefused, CreateRefused, CreateTaken, CreateExpires,
       CreatePut, TransitionGet, TransitionMove, TransitionUpdate, TransitionExpires,
       NoteGet, NoteAppend, AuditAdd, Goto, Finish, TypeOK, Step, Answer, Error, Refusal,
       Wrapped, UpdateError
  <2>3. StoreTypeOK'
    <3>1. CASE CreatePut(r)
      <4>1. NewRecord(r, call[r].status) \in Record
        BY <2>1, NewRecordIsRecord DEF Origin
      <4> QED
        BY <3>1, <4>1, <2>1 DEF CreatePut, Put, TypeOK, StoreTypeOK
    <3>2. CASE TransitionUpdate(r) /\ CanUpdate(Key(r), call[r].expected)
      BY <3>2, <2>1, UpdateReplaces
      DEF TransitionUpdate, CanUpdate, TypeOK, StepsFitCalls
    <3>3. CASE UNCHANGED items
      BY <3>3 DEF TypeOK, StoreTypeOK
    <3> QED
      BY <1>4, <3>1, <3>2, <3>3 DEF Handle, BodyRefused, CreateRefused, CreateTaken,
         CreateExpires, TransitionGet, TransitionMove, TransitionUpdate,
         TransitionExpires, NoteGet, NoteAppend, AuditAdd
  <2>4. history' \in Seq([from : Status, to : Status])
    <3>1. CASE TransitionMove(r)
      <4>1. read[r].status \in Status
        BY <3>1 DEF TransitionMove, StepsFitCalls, Record
      <4> DEFINE move == [from |-> read[r].status, to |-> call[r].status]
      <4>2. move \in [from : Status, to : Status]
        BY <2>1, <4>1
      <4>3. history' = history \/ history' = Append(history, move)
        BY <3>1 DEF TransitionMove
      <4>4. history \in Seq([from : Status, to : Status])
        BY DEF TypeOK
      <4> QED
        BY <4>2, <4>3, <4>4, AppendIsTyped
    <3>2. CASE UNCHANGED history
      BY <3>2 DEF TypeOK
    <3> QED
      BY <1>4, <3>1, <3>2 DEF Handle, BodyRefused, CreateRefused, CreateTaken,
         CreateExpires, CreatePut, TransitionGet, TransitionUpdate, TransitionExpires,
         NoteGet, NoteAppend, AuditAdd
  <2>5. events' \in Seq([by : Request \cup {"worker"}, record : RawId,
                         type : {"created", "status_changed", "note_added"}])
    <3>1. CASE AuditAdd(r)
      <4>1. EventType[call[r].kind] \in {"created", "status_changed", "note_added"}
        BY <1>1 DEF EventType, CallType
      <4> QED
        BY <3>1, <4>1, <2>1 DEF AuditAdd, TypeOK
    <3>2. CASE UNCHANGED events
      BY <3>2 DEF TypeOK
    <3> QED
      BY <1>4, <3>1, <3>2 DEF Handle, BodyRefused, CreateRefused, CreateTaken,
         CreateExpires, CreatePut, TransitionGet, TransitionMove, TransitionUpdate,
         TransitionExpires, NoteGet, NoteAppend
  <2>6. notes' \in [RawId -> Seq(Request)]
    <3>1. CASE NoteAppend(r)
      BY <3>1, <2>1 DEF NoteAppend, TypeOK
    <3>2. CASE UNCHANGED notes
      BY <3>2 DEF TypeOK
    <3> QED
      BY <1>4, <3>1, <3>2 DEF Handle, BodyRefused, CreateRefused, CreateTaken,
         CreateExpires, CreatePut, TransitionGet, TransitionMove, TransitionUpdate,
         TransitionExpires, NoteGet, AuditAdd
  <2>7. read' \in [Request -> Record \cup {Absent}]
    <3>1. CASE TransitionGet(r)
      <4>1. items[Key(r)] \in Record \cup {Absent}
        BY <2>1 DEF TypeOK, StoreTypeOK
      <4> QED
        BY <3>1, <4>1 DEF TransitionGet, TypeOK
    <3>2. CASE UNCHANGED read
      BY <3>2 DEF TypeOK
    <3> QED
      BY <1>4, <3>1, <3>2 DEF Handle, BodyRefused, CreateRefused, CreateTaken,
         CreateExpires, CreatePut, TransitionMove, TransitionUpdate, TransitionExpires,
         NoteGet, NoteAppend, AuditAdd
  <2> QED
    BY <1>1, <2>2, <2>3, <2>4, <2>5, <2>6, <2>7 DEF TypeOK
<1> QED
  BY <1>2, <1>3, <1>4 DEF Next

LEMMA StepFitsCalls == TypeOK /\ StepsFitCalls /\ [Next]_vars => StepsFitCalls'
<1> SUFFICES ASSUME TypeOK, StepsFitCalls, [Next]_vars PROVE StepsFitCalls'
  OBVIOUS
<1>1. call' = call
  BY CallsNeverChange
<1>2. CASE vars' = vars
  BY <1>2 DEF StepsFitCalls, vars, requestVars, CanMove
<1>3. CASE Idle
  BY <1>3 DEF Idle, StepsFitCalls, vars, requestVars, CanMove
<1>4. ASSUME NEW r \in Request, Handle(r) PROVE StepsFitCalls'
  <2> DEFINE Fits(s) ==
        /\ pc[s] = "put" => call[s].kind = "create"
        /\ pc[s] = "append" => call[s].kind = "note"
        /\ pc[s] \in {"move", "update"} =>
             /\ call[s].kind = "transition"
             /\ read[s] \in Record
             /\ call[s].expected > 0 => read[s].revision = call[s].expected
        /\ pc[s] = "update" => CanMove(read[s].status, call[s].status)
        /\ pc[s] # "done" => answer[s] = "none"
  <2>1. \A s \in Request : Fits(s)
    BY DEF StepsFitCalls
  <2>2. ASSUME NEW s \in Request, s # r PROVE Fits(s)'
    BY <1>1, <1>4, <2>1, <2>2, StepIsLocal DEF CanMove
  <2>3. Fits(r)'
    <3>1. CASE pc'[r] = "done"
      BY <3>1
    <3>2. CASE CreatePut(r)
      BY <3>2, <2>1 DEF CreatePut, Goto, TypeOK
    <3>3. CASE TransitionGet(r) /\ pc'[r] # "done"
      <4>1. /\ CanUpdate(Key(r), call[r].expected)
            /\ read'[r] = items[Key(r)]
            /\ pc'[r] = "move" /\ answer' = answer
            /\ call[r].kind = "transition"
            /\ pc[r] = "get"
        BY <3>3 DEF TransitionGet, Goto, Finish, TypeOK
      <4>2. items[Key(r)] \in Record
        BY <4>1, KeyIsId DEF CanUpdate, Stored, TypeOK, StoreTypeOK
      <4>3. call[r].expected > 0 => items[Key(r)].revision = call[r].expected
        BY <4>1 DEF CanUpdate, RevisionAgrees
      <4> QED
        BY <1>1, <2>1, <4>1, <4>2, <4>3
    <3>4. CASE TransitionMove(r) /\ pc'[r] # "done"
      <4>1. /\ CanMove(read[r].status, call[r].status)
            /\ read' = read
            /\ pc'[r] = "update" /\ answer' = answer
            /\ pc[r] = "move"
        BY <3>4 DEF TransitionMove, Goto, Finish, TypeOK
      <4> QED
        BY <1>1, <2>1, <4>1 DEF CanMove
    <3>5. CASE (TransitionUpdate(r) \/ NoteAppend(r)) /\ pc'[r] # "done"
      BY <3>5, <2>1 DEF TransitionUpdate, NoteAppend, Goto, Finish, TypeOK
    <3>6. CASE NoteGet(r) /\ pc'[r] # "done"
      BY <3>6, <1>1, <2>1 DEF NoteGet, Goto, Finish, TypeOK
    <3> QED
      BY <1>4, <3>1, <3>2, <3>3, <3>4, <3>5, <3>6 DEF Handle, BodyRefused, CreateRefused,
         CreateTaken, CreateExpires, TransitionExpires, AuditAdd, Finish, TypeOK
  <2> QED
    BY <2>2, <2>3 DEF StepsFitCalls
<1> QED
  BY <1>2, <1>3, <1>4 DEF Next

\* Every reachable state is well typed: stored records have a status and a
\* positive revision, every handler is at a step of its own kind of request,
\* and no request ends with an error that no path of its handler gives.
THEOREM TypeCorrect == Spec => []TypeOK
<1> DEFINE Inv == TypeOK /\ StepsFitCalls
<1>1. Init => Inv
  BY InitTyped
<1>2. Inv /\ [Next]_vars => Inv'
  BY StepTyped, StepFitsCalls
<1> QED
  BY <1>1, <1>2, PTL DEF Spec

-----------------------------------------------------------------------------
(***************************************************************************)
(* What a step does to the live records.                                   *)
(***************************************************************************)

\* The transition of request r replaces its record.
Replaces(r) ==
  /\ pc[r] = "update" /\ pc'[r] = "audit"
  /\ Key(r) \in RawId
  /\ CanUpdate(Key(r), call[r].expected)
  /\ items'[Key(r)] \in Record
  /\ items'[Key(r)].revision = items[Key(r)].revision + 1
  /\ items'[Key(r)].origin = read[r].origin
  /\ items'[Key(r)].status = call[r].status
  /\ \A j \in RawId \ {Key(r)} : items'[j] = items[j]

\* The creation of request r adds its record.
Adds(r) ==
  /\ pc[r] = "put" /\ pc'[r] = "audit"
  /\ Key(r) \in RawId
  /\ Normal[Key(r)] = Key(r)
  /\ ~Stored(Key(r))
  /\ items'[Key(r)] = NewRecord(r, call[r].status)
  /\ \A j \in RawId \ {Key(r)} : items'[j] = items[j]

\* A transition that gets past its write has replaced the record.
LEMMA CommitReplaces ==
  ASSUME TypeOK, StepsFitCalls, NEW r \in Request, TransitionUpdate(r),
         CanUpdate(Key(r), call[r].expected)
  PROVE  Replaces(r)
<1>1. /\ pc[r] = "update" /\ read[r] \in Record
      /\ Update(Key(r), [read[r] EXCEPT !.status = call[r].status])
      /\ pc'[r] = "audit"
  BY DEF TransitionUpdate, StepsFitCalls, Goto, TypeOK
<1>2. /\ Key(r) \in RawId /\ call[r].status \in Status
      /\ Stored(Key(r)) /\ StoreTypeOK
  BY KeyIsId DEF CanUpdate, TypeOK, CallType
<1> QED
  BY <1>1, <1>2, UpdateReplaces DEF Replaces

\* A creation that is not refused has added the record.
LEMMA PutAdds ==
  ASSUME TypeOK, StepsFitCalls, NEW r \in Request, CreatePut(r)
  PROVE  Adds(r) /\ call[r].kind = "create"
<1>1. call[r].kind = "create"
  BY DEF CreatePut, StepsFitCalls
<1>2. Key(r) \in RawId /\ Normal[Key(r)] = Key(r)
  BY <1>1, KeyIsId DEF TypeOK
<1> QED
  BY <1>1, <1>2 DEF CreatePut, CanPut, Put, Goto, Adds, TypeOK, StoreTypeOK

LEMMA ItemsStep ==
  ASSUME TypeOK, StepsFitCalls, NEW r \in Request, Handle(r)
  PROVE  Replaces(r) \/ Adds(r) \/ items' = items
<1>1. CASE CreatePut(r)
  BY <1>1, PutAdds
<1>2. CASE TransitionUpdate(r)
  BY <1>2, CommitReplaces DEF TransitionUpdate
<1> QED
  BY <1>1, <1>2 DEF Handle, BodyRefused, CreateRefused, CreateTaken, CreateExpires,
     TransitionGet, TransitionMove, TransitionExpires, NoteGet, NoteAppend, AuditAdd

\* A record, once stored, stays, and its revision never goes back.
LEMMA RecordsStay ==
  ASSUME TypeOK, StepsFitCalls, NEW r \in Request, Handle(r),
         NEW i \in RawId, Stored(i)
  PROVE  /\ Stored(i)'
         /\ items'[i] = items[i] \/ (Replaces(r) /\ i = Key(r))
<1>1. items[i] \in Record
  BY DEF TypeOK, StoreTypeOK, Stored
<1>2. CASE Replaces(r)
  BY <1>1, <1>2, AbsentAssumption DEF Replaces, Stored
<1>3. CASE Adds(r)
  BY <1>1, <1>3 DEF Adds, Stored
<1>4. CASE items' = items
  BY <1>4 DEF Stored
<1> QED
  BY <1>2, <1>3, <1>4, ItemsStep

\* The copy that request s holds is never ahead of the record it writes.
Sound(s) ==
  pc[s] \in {"move", "update"} =>
    /\ Stored(Key(s))
    /\ read[s].revision <= items[Key(s)].revision
    /\ read[s].revision = items[Key(s)].revision => read[s] = items[Key(s)]
    /\ read[s].origin = items[Key(s)].origin

LEMMA ReadsAreSoundOneByOne == ReadsAreSound <=> \A s \in Request : Sound(s)
BY DEF ReadsAreSound, Sound

\* A step of any request leaves a copy sound if all copies of that record are.
LEMMA StepKeepsRead ==
  ASSUME TypeOK, StepsFitCalls, NEW r \in Request, Handle(r), NEW s \in Request,
         \A q \in Request : Key(q) = Key(s) => Sound(q)
  PROVE  Sound(s)'
<1> DEFINE Reading(q) == pc[q] \in {"move", "update"}
<1> SUFFICES ASSUME Reading(s)'
             PROVE  /\ Stored(Key(s))'
                    /\ read'[s].revision <= items'[Key(s)].revision
                    /\ read'[s].revision = items'[Key(s)].revision
                         => read'[s] = items'[Key(s)]
                    /\ read'[s].origin = items'[Key(s)].origin
  <2>1. Key(s)' = Key(s)
    BY CallsNeverChange DEF Key, Next
  <2> QED
    BY <2>1 DEF Sound
<1>1. /\ \A q \in Request : Key(q) \in RawId
      /\ Key(s)' = Key(s)
  BY CallsNeverChange, KeyIsId DEF Key, TypeOK, Next
<1>2. CASE Reading(s) /\ read'[s] = read[s]
  <2>1. /\ Stored(Key(s))
        /\ read[s].revision <= items[Key(s)].revision
        /\ read[s].revision = items[Key(s)].revision => read[s] = items[Key(s)]
        /\ read[s].origin = items[Key(s)].origin
    BY <1>2 DEF Sound
  <2>2. /\ items[Key(s)] \in Record
        /\ read[s] \in Record
    BY <1>1, <1>2, <2>1 DEF TypeOK, StoreTypeOK, StepsFitCalls, Stored
  <2>3. CASE items'[Key(s)] = items[Key(s)]
    BY <1>1, <1>2, <2>1, <2>3 DEF Stored
  <2>4. CASE Replaces(r) /\ Key(s) = Key(r)
    <3>1. read[r].origin = items[Key(r)].origin
      BY <2>4 DEF Replaces, Sound
    <3>2. items'[Key(s)].origin = read[s].origin
      BY <2>1, <2>4, <3>1 DEF Replaces
    <3>3. /\ items'[Key(s)] \in Record
          /\ items'[Key(s)].revision = items[Key(s)].revision + 1
      BY <2>4 DEF Replaces
    <3>4. read[s].revision < items'[Key(s)].revision
      BY <2>1, <2>2, <3>3 DEF Record
    <3> QED
      BY <1>1, <1>2, <2>2, <3>2, <3>3, <3>4, AbsentAssumption DEF Record, Stored
  <2> QED
    BY <1>1, <2>1, <2>3, <2>4, RecordsStay
<1>3. CASE TransitionGet(r) /\ s = r
  <2>1. /\ Stored(Key(r)) /\ items' = items
        /\ read'[r] = items[Key(r)]
    BY <1>3 DEF TransitionGet, CanUpdate, Goto, Finish, TypeOK
  <2>2. items[Key(r)] \in Record
    BY <1>1, <2>1 DEF TypeOK, StoreTypeOK, Stored
  <2> QED
    BY <1>1, <1>3, <2>1, <2>2 DEF Record, Stored
<1>4. CASE TransitionMove(r) /\ s = r
  BY <1>2, <1>4 DEF TransitionMove
<1> QED
  <2>1. CASE s # r
    BY <1>2, <2>1, StepIsLocal
  <2>2. CASE s = r
    BY <1>2, <1>3, <1>4, <2>2 DEF Handle, BodyRefused, CreateRefused, CreateTaken,
       CreateExpires, CreatePut, TransitionUpdate, TransitionExpires, NoteGet,
       NoteAppend, AuditAdd, Goto, Finish, TypeOK
  <2> QED  BY <2>1, <2>2

LEMMA StepKeepsReads ==
  TypeOK /\ StepsFitCalls /\ ReadsAreSound /\ [Next]_vars => ReadsAreSound'
<1> SUFFICES ASSUME TypeOK, StepsFitCalls, ReadsAreSound, [Next]_vars
             PROVE  ReadsAreSound'
  OBVIOUS
<1>1. CASE vars' = vars
  BY <1>1 DEF ReadsAreSound, vars, requestVars, Stored, Key
<1>2. CASE Idle
  BY <1>2 DEF Idle, ReadsAreSound, vars, requestVars, Stored, Key
<1>3. ASSUME NEW r \in Request, Handle(r) PROVE ReadsAreSound'
  <2>1. \A s \in Request : Sound(s)
    BY ReadsAreSoundOneByOne
  <2>2. \A s \in Request : Sound(s)'
    BY <1>3, <2>1, StepKeepsRead
  <2> QED
    BY <2>2 DEF ReadsAreSound, Sound
<1> QED
  BY <1>1, <1>2, <1>3 DEF Next

\* The inductive invariant holds in every reachable state.
THEOREM IInvAlways == Spec => []IInv
<1>1. Init => IInv
  BY InitTyped DEF IInv, Init, ReadsAreSound
<1>2. IInv /\ [Next]_vars => IInv'
  BY StepTyped, StepFitsCalls, StepKeepsReads DEF IInv
<1> QED
  BY <1>1, <1>2, PTL DEF Spec

\* A transition's copy is never ahead of the store, and is the stored record
\* itself as long as the revisions agree (OpsStore.Update).
THEOREM ReadsSound == Spec => []ReadsAreSound
BY IInvAlways, PTL DEF IInv

-----------------------------------------------------------------------------
(***************************************************************************)
(* Safety of the interleavings.                                            *)
(***************************************************************************)

\* Ids that differ by spelling alone never name two live records: Create puts
\* under the normalised id, and a replaced record keeps its key.
THEOREM KeysNormal == Spec => []KeysAreNormal
<1>1. Init => KeysAreNormal
  <2> SUFFICES ASSUME Init, NEW i \in RawId, Stored(i) PROVE Normal[i] = i
    BY DEF KeysAreNormal
  <2>1. PICK S \in SUBSET {j \in RawId : Normal[j] = j} :
          \E status \in [S -> Status] :
            items = [j \in RawId |-> IF j \in S THEN NewRecord("seed", status[j])
                                                ELSE Absent]
    BY DEF Init, Seeded
  <2> QED
    BY <2>1 DEF Stored
<1>2. IInv /\ KeysAreNormal /\ [Next]_vars => KeysAreNormal'
  <2> SUFFICES ASSUME IInv, KeysAreNormal, [Next]_vars,
                      NEW i \in RawId, Stored(i)'
               PROVE  Normal[i] = i
    BY DEF KeysAreNormal
  <2>1. CASE items' = items
    BY <2>1 DEF KeysAreNormal, Stored
  <2>2. ASSUME NEW r \in Request, Handle(r) PROVE Normal[i] = i
    <3>1. CASE Replaces(r)
      BY <3>1 DEF Replaces, CanUpdate, KeysAreNormal, Stored
    <3>2. CASE Adds(r)
      BY <3>2 DEF Adds, KeysAreNormal, Stored
    <3> QED
      BY <2>1, <2>2, <3>1, <3>2, ItemsStep DEF IInv
  <2> QED
    BY <2>1, <2>2 DEF Next, Idle, vars
<1> QED
  BY <1>1, <1>2, IInvAlways, PTL DEF Spec

\* A guarded write moves the record it finds, not merely the copy it was
\* decided on, along the transition table, and keeps the record's creator:
\* the compared revision makes the copy and the stored record the same.
THEOREM GuardedMoves == Spec => GuardedMovesFollowTable
<1> DEFINE Follows(r) ==
      CommitsGuarded(r) =>
        /\ CanMove(items[Key(r)].status, items'[Key(r)].status)
        /\ items'[Key(r)].origin = items[Key(r)].origin
<1>1. IInv /\ [Next]_vars => [\A r \in Request : Follows(r)]_vars
  <2> SUFFICES ASSUME IInv, Next, NEW r \in Request, CommitsGuarded(r)
               PROVE  Follows(r)
    BY DEF Next
  <2>1. Handle(r)
    <3>1. pc'[r] # pc[r]
      BY DEF CommitsGuarded
    <3> QED
      BY <3>1, StepIsLocal DEF Next, Idle, vars, requestVars, IInv
  <2>2. CASE items' = items
    BY <2>2 DEF CanMove
  <2>3. CASE Replaces(r)
    <3>1. /\ items[Key(r)].revision = call[r].expected
          /\ read[r].revision = call[r].expected
          /\ CanMove(read[r].status, call[r].status)
      BY <2>3 DEF Replaces, CanUpdate, RevisionAgrees, CommitsGuarded, IInv,
         StepsFitCalls
    <3>2. read[r] = items[Key(r)]
      BY <3>1 DEF CommitsGuarded, IInv, ReadsAreSound
    <3> QED
      BY <2>3, <3>1, <3>2 DEF Replaces
  <2>4. ~Adds(r)
    BY DEF CommitsGuarded, Adds
  <2> QED
    BY <2>1, <2>2, <2>3, <2>4, ItemsStep DEF IInv
<1> QED
  BY <1>1, IInvAlways, PTL DEF Spec, GuardedMovesFollowTable

\* How a transition comes to be committed: it was, or this step replaces.
LEMMA CommitStep ==
  ASSUME IInv, [Next]_vars, NEW r \in Request, Committed(r)'
  PROVE  Committed(r) \/ (Handle(r) /\ Replaces(r))
<1>1. call' = call
  BY CallsNeverChange
<1>2. CASE pc'[r] = pc[r] /\ answer'[r] = answer[r]
  BY <1>1, <1>2 DEF Committed
<1>3. CASE Handle(r)
  <2>1. CASE TransitionUpdate(r)
    BY <1>1, <1>3, <2>1, CommitReplaces DEF TransitionUpdate, Committed, Finish,
       UpdateError, IInv, TypeOK
  <2>2. CASE AuditAdd(r)
    BY <1>1, <2>2 DEF AuditAdd, Committed
  <2> QED
    BY <1>1, <1>3, <2>1, <2>2 DEF Handle, BodyRefused, CreateRefused, CreateTaken,
       CreateExpires, CreatePut, TransitionGet, TransitionMove, TransitionExpires,
       NoteGet, NoteAppend, Goto, Finish, Committed, IInv, TypeOK, StepsFitCalls,
       UpdateError
<1> QED
  BY <1>2, <1>3, StepIsLocal DEF Next, Idle, vars, requestVars, IInv

\* Optimistic locking: of the transitions that name one revision of one
\* record, at most one replaces it.  The first moves the record past that
\* revision, and no step moves it back.
THEOREM OneCommitPerRevision == Spec => []NoDoubleCommit
<1> DEFINE Inv == CommitsAdvance /\ NoDoubleCommit
<1>1. Init => Inv
  BY DEF Init, CommitsAdvance, NoDoubleCommit, Committed
<1>2. IInv /\ Inv /\ [Next]_vars => Inv'
  <2> SUFFICES ASSUME IInv, Inv, [Next]_vars PROVE Inv'
    OBVIOUS
  <2>1. /\ call' = call
        /\ \A r \in Request : /\ Key(r)' = Key(r)
                              /\ Key(r) \in RawId
                              /\ call[r].expected \in Nat
    BY CallsNeverChange, KeyIsId DEF Key, IInv, TypeOK, CallType
  <2>2. ASSUME NEW i \in RawId, Stored(i)
        PROVE  /\ Stored(i)'
               /\ items[i].revision \in Nat /\ items'[i].revision \in Nat
               /\ items'[i].revision >= items[i].revision
    <3>1. items[i].revision \in Nat
      BY <2>2 DEF IInv, TypeOK, StoreTypeOK, Stored, Record
    <3>2. CASE items' = items
      BY <2>2, <3>1, <3>2 DEF Stored
    <3>3. ASSUME NEW r \in Request, Handle(r)
          PROVE  /\ Stored(i)' /\ items'[i].revision \in Nat
                 /\ items'[i].revision >= items[i].revision
      BY <2>2, <3>1, <3>3, RecordsStay DEF IInv, Replaces
    <3> QED
      BY <3>1, <3>2, <3>3 DEF Next, Idle, vars
  <2>3. CommitsAdvance'
    <3> SUFFICES ASSUME NEW r \in Request, Committed(r)', call[r].expected > 0
                 PROVE  Stored(Key(r))' /\ items'[Key(r)].revision > call[r].expected
      BY <2>1 DEF CommitsAdvance
    <3>1. CASE Committed(r)
      BY <2>1, <2>2, <3>1 DEF CommitsAdvance
    <3>2. CASE Replaces(r)
      BY <2>1, <2>2, <3>2 DEF Replaces, CanUpdate, RevisionAgrees
    <3> QED
      BY <3>1, <3>2, CommitStep
  <2>4. NoDoubleCommit'
    <3> SUFFICES ASSUME NEW r \in Request, NEW s \in Request, r # s,
                        Committed(r)', Committed(s)', Key(r) = Key(s),
                        call[r].expected > 0,
                        call[r].expected = call[s].expected
                 PROVE  FALSE
      BY <2>1 DEF NoDoubleCommit
    <3>1. ASSUME NEW a \in {r, s}, NEW b \in {r, s}, a # b,
                 Handle(a), Replaces(a)
          PROVE  FALSE
      <4>1. Committed(b)
        <5>1. pc'[b] = pc[b] /\ answer'[b] = answer[b]
          BY <3>1, StepIsLocal DEF IInv
        <5> QED  BY <2>1, <5>1 DEF Committed
      <4>2. items[Key(b)].revision > call[b].expected
        BY <4>1 DEF CommitsAdvance
      <4>3. items[Key(a)].revision = call[a].expected
        BY <3>1 DEF Replaces, CanUpdate, RevisionAgrees
      <4>4. Key(a) = Key(b) /\ call[a].expected = call[b].expected
            /\ call[b].expected \in Nat
        BY <2>1
      <4> QED
        BY <4>2, <4>3, <4>4
    <3> QED
      BY <3>1, CommitStep DEF NoDoubleCommit
  <2> QED
    BY <2>3, <2>4
<1> QED
  BY <1>1, <1>2, IInvAlways, PTL DEF Spec

-----------------------------------------------------------------------------
(***************************************************************************)
(* The audit trail and the revisions.                                      *)
(***************************************************************************)

\* The events of transitions of record i, and its transitions that have
\* written and not yet logged.
Logged(i) == {k \in DOMAIN events :
                events[k].record = i /\ events[k].type = "status_changed"}
Pending(i) == {r \in Request :
                 Key(r) = i /\ pc[r] = "audit" /\ call[r].kind = "transition"}

\* The revision of a live record is explained; of an id that has no record,
\* there is nothing to explain.
Explained(i) ==
  /\ Stored(i) =>
       items[i].revision = 1 + Cardinality(Logged(i)) + Cardinality(Pending(i))
  /\ ~Stored(i) => Logged(i) = {} /\ Pending(i) = {}

\* Only the last step of a request logs, and only a write makes it pending.
LEMMA AuditStep ==
  ASSUME TypeOK, StepsFitCalls, NEW r \in Request, Handle(r)
  PROVE  \/ AuditAdd(r) /\ items' = items
         \/ Replaces(r) /\ UNCHANGED events /\ call[r].kind = "transition"
         \/ Adds(r) /\ UNCHANGED events /\ call[r].kind = "create"
         \/ /\ UNCHANGED <<items, events>>
            /\ pc[r] # "audit"
            /\ pc'[r] = "audit" => call[r].kind # "transition"
<1>1. CASE AuditAdd(r)
  BY <1>1 DEF AuditAdd
<1>2. CASE CreatePut(r)
  BY <1>2, PutAdds DEF CreatePut
<1>3. CASE TransitionUpdate(r) /\ CanUpdate(Key(r), call[r].expected)
  BY <1>3, CommitReplaces DEF TransitionUpdate, StepsFitCalls
<1>4. CASE NoteAppend(r)
  BY <1>4 DEF NoteAppend, StepsFitCalls
<1>5. CASE ~AuditAdd(r) /\ ~CreatePut(r) /\ ~NoteAppend(r)
           /\ ~(TransitionUpdate(r) /\ CanUpdate(Key(r), call[r].expected))
  BY <1>5 DEF Handle, BodyRefused, CreateRefused, CreateTaken, CreateExpires, TransitionGet,
     TransitionMove, TransitionUpdate, TransitionExpires, NoteGet, Goto, Finish, TypeOK
<1> QED
  BY <1>1, <1>2, <1>3, <1>4, <1>5

LEMMA ExplainedStep ==
  ASSUME IsFiniteSet(Request), TypeOK, StepsFitCalls, NEW r \in Request, Handle(r),
         NEW i \in RawId, Explained(i)
  PROVE  Explained(i)'
<1>1. call' = call /\ (\A s \in Request : Key(s)' = Key(s)) /\ Key(r) \in RawId
  BY CallsNeverChange, KeyIsId DEF Key, Next, TypeOK
<1>2. \A s \in Request \ {r} : s \in Pending(i)' <=> s \in Pending(i)
  BY <1>1, StepIsLocal DEF Pending
<1>3. /\ IsFiniteSet(Pending(i)) /\ Cardinality(Pending(i)) \in Nat
      /\ IsFiniteSet(Logged(i)) /\ Cardinality(Logged(i)) \in Nat
  <2>1. Pending(i) \in SUBSET Request
    BY DEF Pending
  <2>2. Len(events) \in Nat /\ Logged(i) \in SUBSET (1..Len(events))
    BY DEF Logged, TypeOK
  <2>3. IsFiniteSet(1..Len(events))
    BY <2>2, FS_Interval
  <2> QED
    BY <2>1, <2>2, <2>3, FS_Subset, FS_CardinalityType
<1>4. Stored(i) => items[i].revision \in Nat
  BY DEF Stored, TypeOK, StoreTypeOK, Record
<1>5. events' = events => Logged(i)' = Logged(i)
  BY DEF Logged
<1>6. CASE AuditAdd(r) /\ items' = items
  <2>1. /\ events \in Seq([by : Request \cup {"worker"}, record : RawId,
                           type : {"created", "status_changed", "note_added"}])
        /\ Len(events) \in Nat /\ DOMAIN events = 1..Len(events)
    BY DEF TypeOK
  <2> DEFINE new == [by |-> r, record |-> Key(r), type |-> EventType[call[r].kind]]
             last == Len(events) + 1
  <2>2. events' = Append(events, new) /\ pc[r] = "audit" /\ pc'[r] = "done"
    BY <1>6 DEF AuditAdd, Finish, TypeOK
  <2>3. new.record = Key(r)
        /\ (new.type = "status_changed" <=> call[r].kind = "transition")
    BY DEF TypeOK, CallType, EventType
  <2> HIDE DEF new
  <2>4. /\ DOMAIN events' = 1..last /\ events'[last] = new
        /\ \A k \in DOMAIN events : events'[k] = events[k]
    BY <2>1, <2>2
  <2>5. r \notin Pending(i)'
    BY <2>2 DEF Pending
  <2>6. CASE Key(r) = i /\ call[r].kind = "transition"
    <3>1. r \in Pending(i) /\ Stored(i)
      BY <2>2, <2>6 DEF Pending, Explained
    <3>2. Pending(i)' = Pending(i) \ {r}
      BY <1>2, <2>5 DEF Pending
    <3>3. Cardinality(Pending(i)') = Cardinality(Pending(i)) - 1
      BY <1>3, <3>1, <3>2, FS_RemoveElement
    <3>4. Logged(i)' = Logged(i) \cup {last} /\ last \notin Logged(i)
      BY <2>1, <2>3, <2>4, <2>6 DEF Logged
    <3>5. Cardinality(Logged(i)') = Cardinality(Logged(i)) + 1
      BY <1>3, <3>4, FS_AddElement
    <3>6. Cardinality(Logged(i))' = Cardinality(Logged(i)')
          /\ Cardinality(Pending(i))' = Cardinality(Pending(i)')
      OBVIOUS
    <3> QED
      BY <1>3, <1>4, <1>6, <3>1, <3>3, <3>5, <3>6 DEF Explained, Stored
  <2>7. CASE ~(Key(r) = i /\ call[r].kind = "transition")
    <3>1. Pending(i)' = Pending(i)
      BY <1>2, <2>5, <2>7 DEF Pending
    <3>2. Logged(i)' = Logged(i)
      BY <2>1, <2>3, <2>4, <2>7 DEF Logged
    <3> QED
      BY <1>6, <3>1, <3>2 DEF Explained, Stored
  <2> QED
    BY <2>6, <2>7
<1>7. CASE Replaces(r) /\ UNCHANGED events /\ call[r].kind = "transition"
  <2>1. CASE Key(r) = i
    <3>1. /\ Stored(i) /\ Stored(i)' /\ items'[i].revision = items[i].revision + 1
      BY <1>7, <2>1, AbsentAssumption DEF Replaces, CanUpdate, Stored
    <3>2. r \notin Pending(i) /\ r \in Pending(i)'
      BY <1>1, <1>7, <2>1 DEF Replaces, Pending
    <3>3. Pending(i)' = Pending(i) \cup {r}
      BY <1>2, <3>2 DEF Pending
    <3>4. Cardinality(Pending(i)') = Cardinality(Pending(i)) + 1
      BY <1>3, <3>2, <3>3, FS_AddElement
    <3>5. Cardinality(Pending(i))' = Cardinality(Pending(i)')
      OBVIOUS
    <3> QED
      BY <1>3, <1>4, <1>5, <1>7, <3>1, <3>4, <3>5 DEF Explained
  <2>2. CASE Key(r) # i
    <3>1. Pending(i)' = Pending(i) /\ items'[i] = items[i]
      BY <1>1, <1>2, <1>7, <2>2 DEF Pending, Replaces
    <3> QED
      BY <1>5, <1>7, <3>1 DEF Explained, Stored
  <2> QED
    BY <2>1, <2>2
<1>8. CASE Adds(r) /\ UNCHANGED events /\ call[r].kind = "create"
  <2>1. Pending(i)' = Pending(i)
    BY <1>1, <1>2, <1>8 DEF Pending
  <2>2. CASE Key(r) = i
    <3>1. Pending(i) = {} /\ Logged(i) = {}
      BY <1>8, <2>2 DEF Adds, Explained
    <3>2. Stored(i)' /\ items'[i].revision = 1
      BY <1>8, <2>2, NewRecordIsRecord, AbsentAssumption
      DEF Adds, Stored, TypeOK, CallType, Origin
    <3>3. Cardinality({}) = 0
      BY FS_EmptySet
    <3> QED
      BY <1>5, <1>8, <2>1, <3>1, <3>2, <3>3 DEF Explained
  <2>3. CASE Key(r) # i
    BY <1>5, <1>8, <2>1, <2>3 DEF Adds, Explained, Stored
  <2> QED
    BY <2>2, <2>3
<1>9. CASE /\ UNCHANGED <<items, events>>
           /\ pc[r] # "audit"
           /\ pc'[r] = "audit" => call[r].kind # "transition"
  <2>1. Pending(i)' = Pending(i)
    BY <1>1, <1>2, <1>9 DEF Pending
  <2> QED
    BY <1>5, <1>9, <2>1 DEF Explained, Stored
<1> QED
  BY <1>6, <1>7, <1>8, <1>9, AuditStep

\* No write is lost, counted twice or left out of the trail, with or without
\* a named revision: a record's revision is one more than its transitions that
\* are in the trail or about to be.
THEOREM AuditExplains ==
  ASSUME IsFiniteSet(Request)
  PROVE  Spec => []AuditExplainsRevision
<1> DEFINE Inv == \A i \in RawId : Explained(i)
<1>1. Init => Inv
  <2> SUFFICES ASSUME Init, NEW i \in RawId PROVE Explained(i)
    OBVIOUS
  <2>1. PICK S \in SUBSET {j \in RawId : Normal[j] = j} :
          \E status \in [S -> Status] :
            items = [j \in RawId |-> IF j \in S THEN NewRecord("seed", status[j])
                                                ELSE Absent]
    BY DEF Init, Seeded
  <2>2. Stored(i) => items[i].revision = 1
    BY <2>1 DEF Stored, NewRecord
  <2>3. Logged(i) = {} /\ Pending(i) = {}
    BY DEF Init, Logged, Pending
  <2>4. Cardinality({}) = 0
    BY FS_EmptySet
  <2> QED
    BY <2>2, <2>3, <2>4 DEF Explained
<1>2. IInv /\ Inv /\ [Next]_vars => Inv'
  <2> SUFFICES ASSUME IInv, Inv, [Next]_vars, NEW i \in RawId PROVE Explained(i)'
    OBVIOUS
  <2>1. CASE UNCHANGED vars
    BY <2>1 DEF Explained, Logged, Pending, Stored, Key, vars, requestVars
  <2> QED
    BY <2>1, ExplainedStep DEF Next, Idle, IInv
<1>3. Inv => AuditExplainsRevision
  BY DEF AuditExplainsRevision, Explained, Logged, Pending
<1> QED
  BY <1>1, <1>2, <1>3, IInvAlways, PTL DEF Spec

-----------------------------------------------------------------------------
(***************************************************************************)
(* Answers and effects.                                                    *)
(***************************************************************************)

\* What a request has left behind: its audit events, its notes under the
\* record it names, the records it created.
Mine(s) == {k \in DOMAIN events : events[k].by = s}
Noted(s) == {k \in DOMAIN notes[Key(s)] : notes[Key(s)][k] = s}
Created(s) == {i \in RawId : Stored(i) /\ items[i].origin = s}

\* The request has done what it asks for; its event may still be missing.
Effective(s) == pc[s] = "audit" \/ answer[s] = "ok"

\* The event is there when the request is answered with success, the note or
\* record as soon as the request is about to write the event.
EventFits(s) ==
  IF answer[s] = "ok"
    THEN \E k \in Mine(s) : /\ Mine(s) = {k}
                            /\ events[k].record = Key(s)
                            /\ events[k].type = EventType[call[s].kind]
    ELSE Mine(s) = {}
NoteFits(s) ==
  IF Effective(s) /\ call[s].kind = "note" THEN \E k \in Noted(s) : Noted(s) = {k}
                                           ELSE Noted(s) = {}
RecordFits(s) ==
  Created(s) = IF Effective(s) /\ call[s].kind = "create" THEN {Key(s)} ELSE {}

EffectsFit == \A s \in Request : EventFits(s) /\ NoteFits(s) /\ RecordFits(s)

\* A step leaves a note, leaves a record, replaces a record, ends a request
\* with its event, or leaves nothing and neither ends well nor comes nearer.
LEMMA EffectStep ==
  ASSUME TypeOK, StepsFitCalls, NEW r \in Request, Handle(r)
  PROVE  /\ answer[r] = "none"
         /\ \/ /\ AuditAdd(r) /\ UNCHANGED <<items, notes>>
               /\ pc[r] = "audit" /\ pc'[r] = "done" /\ answer'[r] = "ok"
            \/ /\ Adds(r) /\ call[r].kind = "create"
               /\ UNCHANGED <<events, notes, answer>>
            \/ /\ Replaces(r) /\ call[r].kind = "transition"
               /\ UNCHANGED <<events, notes, answer>>
            \/ /\ NoteAppend(r) /\ call[r].kind = "note"
               /\ pc[r] = "append" /\ pc'[r] = "audit"
               /\ UNCHANGED <<items, events, answer>>
            \/ /\ UNCHANGED <<items, events, notes>>
               /\ pc[r] # "audit" /\ pc'[r] # "audit" /\ answer'[r] # "ok"
<1>1. pc[r] # "done" /\ answer[r] = "none"
  BY DEF StepsFitCalls, Handle, BodyRefused, CreateRefused, CreateTaken, CreateExpires,
     CreatePut, TransitionGet, TransitionMove, TransitionUpdate, TransitionExpires,
     NoteGet, NoteAppend, AuditAdd
<1>2. CASE AuditAdd(r)
  BY <1>1, <1>2 DEF AuditAdd, Finish, TypeOK
<1>3. CASE CreatePut(r)
  BY <1>1, <1>3, PutAdds DEF CreatePut, Goto
<1>4. CASE TransitionUpdate(r) /\ CanUpdate(Key(r), call[r].expected)
  BY <1>1, <1>4, CommitReplaces DEF TransitionUpdate, StepsFitCalls, Goto
<1>5. CASE NoteAppend(r)
  BY <1>1, <1>5 DEF NoteAppend, StepsFitCalls, Goto, TypeOK
<1>6. CASE ~AuditAdd(r) /\ ~CreatePut(r) /\ ~NoteAppend(r)
           /\ ~(TransitionUpdate(r) /\ CanUpdate(Key(r), call[r].expected))
  <2>1. /\ UNCHANGED <<items, events, notes>>
        /\ pc[r] # "audit" /\ pc'[r] # "audit"
    BY <1>6 DEF Handle, BodyRefused, CreateRefused, CreateTaken, CreateExpires,
       TransitionGet, TransitionMove, TransitionUpdate, TransitionExpires, NoteGet, Goto,
       Finish, TypeOK
  <2>2. answer'[r] # "ok"
    BY <1>1, <1>6 DEF Handle, BodyRefused, CreateRefused, CreateTaken, CreateExpires,
       TransitionGet, TransitionMove, TransitionUpdate, TransitionExpires, NoteGet, Goto,
       Finish, UpdateError, TypeOK
  <2> QED
    BY <1>1, <2>1, <2>2
<1> QED
  BY <1>2, <1>3, <1>4, <1>5, <1>6

LEMMA EventStep ==
  ASSUME TypeOK, StepsFitCalls, NEW r \in Request, Handle(r),
         NEW s \in Request, EventFits(s)
  PROVE  EventFits(s)'
<1>1. call' = call /\ Key(s)' = Key(s)
  BY CallsNeverChange DEF Key, Next
<1>2. CASE AuditAdd(r)
  <2> DEFINE new == [by |-> r, record |-> Key(r), type |-> EventType[call[r].kind]]
             last == Len(events) + 1
  <2>1. Len(events) \in Nat /\ DOMAIN events = 1..Len(events)
    BY DEF TypeOK
  <2>2. new.by = r /\ new.record = Key(r) /\ new.type = EventType[call[r].kind]
    OBVIOUS
  <2>3. events' = Append(events, new)
    BY <1>2 DEF AuditAdd
  <2> HIDE DEF new
  <2>4. /\ DOMAIN events' = 1..last /\ events'[last] = new
        /\ \A k \in DOMAIN events : events'[k] = events[k]
    BY <2>1, <2>3 DEF TypeOK
  <2>5. CASE s = r
    <3>1. Mine(s) = {} /\ answer'[s] = "ok"
      BY <1>2, <2>5, EffectStep DEF EventFits, AuditAdd, Finish, TypeOK
    <3>2. Mine(s)' = {last}
      BY <2>1, <2>2, <2>4, <2>5, <3>1 DEF Mine
    <3> QED
      BY <1>1, <2>2, <2>4, <2>5, <3>1, <3>2 DEF EventFits
  <2>6. CASE s # r
    <3>1. Mine(s)' = Mine(s)
      BY <2>1, <2>2, <2>4, <2>6 DEF Mine
    <3>2. \A k \in Mine(s) : events'[k] = events[k]
      BY <2>4 DEF Mine
    <3>3. answer'[s] = answer[s]
      BY <2>6, StepIsLocal
    <3> QED
      BY <1>1, <3>1, <3>2, <3>3 DEF EventFits
  <2> QED
    BY <2>5, <2>6
<1>3. CASE events' = events /\ (answer'[s] = "ok" <=> answer[s] = "ok")
  BY <1>1, <1>3 DEF EventFits, Mine
<1>4. (events' = events /\ answer'[r] # "ok") \/ AuditAdd(r)
  BY EffectStep
<1>5. answer[r] # "ok" /\ (s # r => answer'[s] = answer[s])
  BY EffectStep, StepIsLocal
<1> QED
  BY <1>2, <1>3, <1>4, <1>5

LEMMA NoteStep ==
  ASSUME TypeOK, StepsFitCalls, NEW r \in Request, Handle(r),
         NEW s \in Request, NoteFits(s)
  PROVE  NoteFits(s)'
<1>1. /\ call' = call /\ Key(s)' = Key(s)
      /\ Key(s) \in RawId /\ Key(r) \in RawId
  BY CallsNeverChange, KeyIsId DEF Key, Next, TypeOK
<1>2. s # r => (Effective(s)' <=> Effective(s))
  BY StepIsLocal DEF Effective
<1>3. CASE NoteAppend(r) /\ call[r].kind = "note" /\ answer' = answer
           /\ pc[r] = "append" /\ pc'[r] = "audit"
  <2> DEFINE old == notes[Key(s)]
             new == notes'[Key(s)]
             last == Len(old) + 1
  <2>1. old \in Seq(Request) /\ Len(old) \in Nat /\ DOMAIN old = 1..Len(old)
    BY <1>1 DEF TypeOK
  <2>2. Noted(s) = {k \in DOMAIN old : old[k] = s}
        /\ Noted(s)' = {k \in DOMAIN new : new[k] = s}
    BY <1>1 DEF Noted
  <2>3. new = IF Key(s) = Key(r) THEN Append(old, r) ELSE old
    BY <1>1, <1>3 DEF NoteAppend, TypeOK
  <2> HIDE DEF old, new
  <2>4. CASE s = r
    <3>1. ~Effective(s) /\ Effective(s)'
      BY <1>3, <2>4, EffectStep DEF Effective
    <3>2. Noted(s) = {}
      BY <3>1 DEF NoteFits
    <3>3. Noted(s)' = {last}
      BY <2>1, <2>2, <2>3, <2>4, <3>2
    <3> QED
      BY <1>1, <1>3, <2>4, <3>1, <3>3 DEF NoteFits
  <2>5. CASE s # r
    <3>1. Noted(s)' = Noted(s)
      BY <2>1, <2>2, <2>3, <2>5
    <3> QED
      BY <1>1, <1>2, <2>5, <3>1 DEF NoteFits
  <2> QED
    BY <2>4, <2>5
<1>4. CASE notes' = notes /\ (call[s].kind = "note" => (Effective(s)' <=> Effective(s)))
  BY <1>1, <1>4 DEF NoteFits, Noted
<1>5. \/ NoteAppend(r) /\ call[r].kind = "note" /\ answer' = answer
         /\ pc[r] = "append" /\ pc'[r] = "audit"
      \/ /\ notes' = notes
         /\ call[r].kind = "note" => (Effective(r)' <=> Effective(r))
  BY EffectStep DEF Effective
<1> QED
  BY <1>2, <1>3, <1>4, <1>5

LEMMA RecordStep ==
  ASSUME IInv, NEW r \in Request, Handle(r), NEW s \in Request, RecordFits(s)
  PROVE  RecordFits(s)'
<1>1. /\ TypeOK /\ StepsFitCalls /\ call' = call /\ Key(s)' = Key(s)
      /\ items \in [RawId -> Record \cup {Absent}]
  BY CallsNeverChange DEF Key, Next, IInv, TypeOK, StoreTypeOK
<1>2. s # r => (Effective(s)' <=> Effective(s))
  BY <1>1, StepIsLocal DEF Effective
<1>3. CASE Adds(r) /\ call[r].kind = "create" /\ answer' = answer
  <2>1. /\ items'[Key(r)] # Absent /\ items'[Key(r)].origin = r /\ ~Stored(Key(r))
        /\ Key(r) \in RawId
    <3>1. call[r].status \in Status
      BY <1>1 DEF TypeOK, CallType
    <3>2. NewRecord(r, call[r].status) \in Record
          /\ NewRecord(r, call[r].status).origin = r
      BY <3>1, NewRecordIsRecord DEF NewRecord, Origin
    <3> QED
      BY <1>3, <3>2, AbsentAssumption DEF Adds, Stored
  <2>2. \A j \in RawId \ {Key(r)} : items'[j] = items[j]
    BY <1>3 DEF Adds
  <2>3. CASE s = r
    <3>1. ~Effective(s) /\ Effective(s)'
      BY <1>1, <1>3, <2>3, EffectStep DEF Effective, Adds
    <3>2. Created(s) = {}
      BY <3>1 DEF RecordFits
    <3>3. Created(s)' = {Key(r)}
      BY <2>1, <2>2, <2>3, <3>2 DEF Created, Stored
    <3> QED
      BY <1>1, <1>3, <2>3, <3>1, <3>3 DEF RecordFits
  <2>4. CASE s # r
    <3>1. Created(s)' = Created(s)
      BY <2>1, <2>2, <2>4 DEF Created, Stored
    <3> QED
      BY <1>1, <1>2, <2>4, <3>1 DEF RecordFits
  <2> QED
    BY <2>3, <2>4
<1>4. CASE Replaces(r) /\ call[r].kind = "transition"
  <2>1. items'[Key(r)].origin = items[Key(r)].origin
    BY <1>4 DEF Replaces, IInv, ReadsAreSound
  <2>2. Stored(Key(r)) /\ items'[Key(r)] # Absent
    BY <1>4, AbsentAssumption DEF Replaces, CanUpdate, Stored
  <2>3. \A j \in RawId \ {Key(r)} : items'[j] = items[j]
    BY <1>4 DEF Replaces
  <2>4. Created(s)' = Created(s)
    BY <2>1, <2>2, <2>3 DEF Created, Stored
  <2> QED
    BY <1>1, <1>2, <1>4, <2>4 DEF RecordFits
<1>5. CASE items' = items /\ (call[s].kind = "create" => (Effective(s)' <=> Effective(s)))
  BY <1>1, <1>5 DEF RecordFits, Created, Stored
<1>6. \/ Adds(r) /\ call[r].kind = "create" /\ answer' = answer
      \/ Replaces(r) /\ call[r].kind = "transition"
      \/ /\ items' = items
         /\ call[r].kind = "create" => (Effective(r)' <=> Effective(r))
  BY <1>1, EffectStep DEF Effective
<1> QED
  BY <1>2, <1>3, <1>4, <1>5, <1>6

\* The HTTP status tells a request that succeeded from one that did not.
LEMMA StatusTells ==
  ASSUME TypeOK, NEW r \in Request
  PROVE  HttpStatus(r) \in {200, 201} <=> answer[r] = "ok"
<1>1. CASE answer[r] = "ok"
  BY <1>1 DEF HttpStatus, SuccessStatus, TypeOK, CallType
<1>2. CASE answer[r] # "ok"
  <2>1. opsWriteError(answer[r]) \in {404, 409, 400, 500}
    BY DEF opsWriteError
  <2> QED
    BY <1>2, <2>1 DEF HttpStatus
<1> QED
  BY <1>1, <1>2

\* Whoever ran in between, a client that is told 2xx has exactly one event and
\* its one record or note in the store, and a client that is told anything
\* else has left nothing.
THEOREM AnswersTellEffects == Spec => []AnswersMatchEffects
<1>1. Init => EffectsFit
  <2> SUFFICES ASSUME Init, NEW s \in Request
               PROVE  EventFits(s) /\ NoteFits(s) /\ RecordFits(s)
    BY DEF EffectsFit
  <2>1. answer[s] = "none" /\ pc[s] # "audit"
    BY DEF Init
  <2>2. EventFits(s)
    BY <2>1 DEF Init, EventFits, Mine
  <2>3. NoteFits(s)
    <3>1. Key(s) \in RawId
      BY InitTyped, KeyIsId DEF TypeOK
    <3> QED
      BY <2>1, <3>1 DEF Init, NoteFits, Noted, Effective
  <2>4. RecordFits(s)
    <3>1. \A i \in RawId : items[i] = Absent \/ items[i].origin = "seed"
      BY DEF Init, Seeded, NewRecord
    <3> QED
      BY <2>1, <3>1, RequestAssumption DEF RecordFits, Created, Effective, Stored
  <2> QED
    BY <2>2, <2>3, <2>4
<1>2. IInv /\ EffectsFit /\ [Next]_vars => EffectsFit'
  <2> SUFFICES ASSUME IInv, EffectsFit, [Next]_vars PROVE EffectsFit'
    OBVIOUS
  <2>1. CASE UNCHANGED vars
    BY <2>1 DEF EffectsFit, EventFits, NoteFits, RecordFits, Mine, Noted, Created,
       Effective, Stored, Key, vars, requestVars
  <2>2. ASSUME NEW r \in Request, Handle(r) PROVE EffectsFit'
    BY <2>2, EventStep, NoteStep, RecordStep DEF EffectsFit, IInv
  <2> QED
    BY <2>1, <2>2 DEF Next, Idle
<1>3. IInv /\ EffectsFit => AnswersMatchEffects
  <2> SUFFICES ASSUME IInv, EffectsFit, NEW r \in Request, pc[r] = "done"
               PROVE  IF HttpStatus(r) \in {200, 201}
                        THEN /\ \E k \in Mine(r) :
                                  /\ Mine(r) = {k}
                                  /\ events[k].record = Key(r)
                                  /\ events[k].type = EventType[call[r].kind]
                             /\ Created(r) = IF call[r].kind = "create"
                                               THEN {Key(r)} ELSE {}
                             /\ Cardinality(Noted(r)) =
                                  IF call[r].kind = "note" THEN 1 ELSE 0
                        ELSE Mine(r) = {} /\ Noted(r) = {} /\ Created(r) = {}
    BY DEF AnswersMatchEffects, Mine, Noted, Created
  <2>1. EventFits(r) /\ NoteFits(r) /\ RecordFits(r)
    BY DEF EffectsFit
  <2>2. HttpStatus(r) \in {200, 201} <=> answer[r] = "ok"
    BY StatusTells DEF IInv
  <2>3. CASE answer[r] = "ok"
    <3>1. Cardinality(Noted(r)) = IF call[r].kind = "note" THEN 1 ELSE 0
      BY <2>1, <2>3, FS_Singleton, FS_EmptySet DEF NoteFits, Effective
    <3> QED
      BY <2>1, <2>2, <2>3, <3>1 DEF EventFits, RecordFits, Effective
  <2>4. CASE answer[r] # "ok"
    BY <2>1, <2>2, <2>4 DEF EventFits, NoteFits, RecordFits, Effective
  <2> QED
    BY <2>3, <2>4
<1> QED
  BY <1>1, <1>2, <1>3, IInvAlways, PTL DEF Spec

-----------------------------------------------------------------------------
(***************************************************************************)
(* Refinement.                                                             *)
(***************************************************************************)

\* The ledger moves and creates records the way the model does.
LEMMA LedgerIsOurs ==
  /\ Ledger!Status = Status
  /\ \A from, status : Ledger!NewRecord(from, status) = NewRecord(from, status)
  /\ \A from, to : Ledger!CanMove(from, to) <=> CanMove(from, to)
BY DEF Ledger!Status, Ledger!NamedStatus, Status, NamedStatus, NewRecord,
   Ledger!NewRecord, CanMove, Ledger!CanMove, opsTransitionTable,
   Ledger!opsTransitionTable

LEMMA InitRefines == Init => Ledger!Init
<1> SUFFICES ASSUME Init PROVE Ledger!Init
  OBVIOUS
<1>1. PICK S \in SUBSET {i \in RawId : Normal[i] = i} :
        \E status \in [S -> Status] :
          items = [i \in RawId |-> IF i \in S THEN NewRecord("seed", status[i])
                                              ELSE Absent]
  BY DEF Init, Seeded
<1>2. PICK status \in [S -> Status] :
        items = [i \in RawId |-> IF i \in S THEN NewRecord("seed", status[i])
                                            ELSE Absent]
  BY <1>1
<1>3. items = [i \in RawId |-> IF i \in S THEN Ledger!NewRecord("seed", status[i])
                                          ELSE Absent]
  BY <1>2, LedgerIsOurs
<1>4. status \in [S -> Ledger!Status]
  BY LedgerIsOurs
<1> QED
  BY <1>3, <1>4 DEF Ledger!Init

\* Replacing a record by the next revision of itself, along the table, is one
\* Change of the ledger.
LEMMA ReplacingRefines ==
  ASSUME StoreTypeOK, StoreTypeOK', NEW i \in RawId, Stored(i), NEW status \in Status,
         CanMove(items[i].status, status),
         items'[i] \in Record,
         items'[i].revision = items[i].revision + 1,
         items'[i].origin = items[i].origin,
         items'[i].status = status,
         \A j \in RawId \ {i} : items'[j] = items[j]
  PROVE  Ledger!Next
<1>1. items'[i] = [origin   |-> items[i].origin,
                   status   |-> status,
                   revision |-> items[i].revision + 1]
  BY DEF Record
<1>2. items' = [items EXCEPT ![i] = [origin   |-> items[i].origin,
                                     status   |-> status,
                                     revision |-> items[i].revision + 1]]
  BY <1>1 DEF StoreTypeOK
<1>3. Ledger!Change(i, status)
  BY <1>2, LedgerIsOurs DEF Stored, Ledger!Change
<1> QED
  BY <1>3, LedgerIsOurs DEF Ledger!Next

\* A request's step that changes the live records is one step of the ledger,
\* if a transition names a revision and its copy is sound.
LEMMA HandleRefines ==
  ASSUME TypeOK, StepsFitCalls, NEW r \in Request, Handle(r), items' # items,
         call[r].kind = "transition" => call[r].expected > 0,
         Sound(r)
  PROVE  Ledger!Next
<1>1. StoreTypeOK /\ StoreTypeOK' /\ call[r].status \in Status
  BY StepTyped DEF Next, TypeOK, CallType
<1>2. CASE Adds(r)
  <2>1. items' = [items EXCEPT ![Key(r)] = NewRecord(r, call[r].status)]
    BY <1>1, <1>2 DEF Adds, StoreTypeOK
  <2>2. Ledger!Create(r, Key(r), call[r].status)
    BY <1>2, <2>1, LedgerIsOurs DEF Adds, Stored, Ledger!Create
  <2> QED
    BY <1>1, <1>2, <2>2, LedgerIsOurs DEF Adds, Ledger!Next
<1>3. CASE Replaces(r)
  <2>1. call[r].kind = "transition" /\ CanMove(read[r].status, call[r].status)
    BY <1>3 DEF Replaces, StepsFitCalls
  <2>2. read[r] = items[Key(r)]
    BY <1>3, <2>1 DEF Replaces, CanUpdate, RevisionAgrees, StepsFitCalls, Sound
  <2> QED
    BY <1>1, <1>3, <2>1, <2>2, ReplacingRefines DEF Replaces, CanUpdate
<1> QED
  BY <1>2, <1>3, ItemsStep

\* No call of a program whose transitions name revisions lacks one.
LEMMA RevisionsNamed ==
  ASSUME 0 \notin Expected, call \in [Request -> Calls], NEW r \in Request,
         call[r].kind = "transition"
  PROVE  call[r].expected > 0
<1>1. call[r].expected \in Expected
  BY DEF Calls
<1>2. call[r].expected \in Nat /\ call[r].expected # 0
  BY <1>1, InputAssumption
<1> QED
  BY <1>2

\* When every transition names a revision, the interleaved handlers implement
\* the atomic ledger: a creation's put is Create, a transition's write is
\* Change of the record as it stands, and every other step is a stutter.
THEOREM GuardedRefinement ==
  ASSUME 0 \notin Expected
  PROVE  Spec => RefinesLedger
<1> DEFINE Given == call \in [Request -> Calls]
<1>1. Init => Given /\ Ledger!Init
  BY InitRefines DEF Init
<1>2. Given /\ [Next]_vars => Given'
  BY CallsNeverChange
<1>3. IInv /\ Given /\ [Next]_vars => [Ledger!Next]_items
  <2> SUFFICES ASSUME IInv, Given, [Next]_vars, items' # items
               PROVE  Ledger!Next
    OBVIOUS
  <2>1. PICK r \in Request : Handle(r)
    BY DEF Next, Idle, vars
  <2>2. TypeOK /\ StepsFitCalls /\ Sound(r)
    BY ReadsAreSoundOneByOne DEF IInv
  <2> QED
    BY <2>1, <2>2, RevisionsNamed, HandleRefines
<1> QED
  BY <1>1, <1>2, <1>3, IInvAlways, PTL DEF Spec, RefinesLedger, Ledger!Spec

=============================================================================
