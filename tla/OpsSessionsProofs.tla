-------------------------- MODULE OpsSessionsProofs --------------------------
(***************************************************************************)
(* Proofs about OpsSessions, for any capacity, records, bulks and lists of *)
(* session ids.                                                            *)
(*                                                                         *)
(* SInv, the inductive invariant, says that byRecord leads to exactly the  *)
(* open sessions, and that the goroutines that were told "ok" for a        *)
(* session name a completed one, and are one at most.                      *)
(***************************************************************************)
EXTENDS OpsSessions, FiniteSetTheorems, TLAPS

\* A goroutine has an answer from Complete once it has run, and is told "ok"
\* for a completed session only.
AnswersFitSteps ==
  \A b \in Bulk : \A g \in Goroutines(b) :
    /\ gpc[b][g] = "complete" => err[b][g] = "none"
    /\ err[b][g] = "ok" =>
         ids[b][g] \in Held /\ sessions[ids[b][g]].status = "completed"

SInv == TypeOK /\ OpenSessionsAreKnown /\ AnswersFitSteps

-----------------------------------------------------------------------------
(***************************************************************************)
(* What a step does to the sessions.                                       *)
(***************************************************************************)

Session == [record : RecordId, status : {"open", "completed", "aborted"}]

\* A set of positions has a first one.
LEMMA FirstPosition ==
  ASSUME NEW n \in Nat, NEW F, F \subseteq 1..n, F # {}
  PROVE  \E k \in F : \A j \in F : k <= j
<1> DEFINE Below(k) == {j \in F : j < k}
           T == {Below(k) : k \in F}
<1>1. IsFiniteSet(1..n)
  BY FS_Interval
<1>2. \A k \in F : Below(k) \in SUBSET (1..n)
  OBVIOUS
<1>3. T \subseteq FiniteSubsetsOf(1..n)
  <2> SUFFICES ASSUME NEW k \in F PROVE Below(k) \in FiniteSubsetsOf(1..n)
    OBVIOUS
  <2> QED
    BY <1>1, <1>2, FS_Subset DEF FiniteSubsetsOf
<1>4. PICK x \in T : \A y \in T : ~(<<y, x>> \in StrictSubsetOrdering(1..n))
  <2>1. T # {}
    OBVIOUS
  <2> HIDE DEF T
  <2> QED
    BY <1>3, <2>1, FS_StrictSubsetOrderingWellFounded, WFMin
<1>5. PICK k \in F : x = Below(k)
  OBVIOUS
<1>6. ASSUME NEW j \in F, j < k PROVE FALSE
  <2>0. F \subseteq Int
    OBVIOUS
  <2>1. /\ Below(j) \subseteq Below(k) /\ j \in Below(k) /\ j \notin Below(j)
    <3>1. \A i \in F : i < j => i < k
      BY <1>6, <2>0
    <3>2. ~(j < j)
      BY <2>0
    <3> QED
      BY <1>6, <3>1, <3>2, Zenon
  <2>2. Below(j) \in T
    OBVIOUS
  <2> QED
    BY <1>2, <1>4, <1>5, <2>1, <2>2 DEF StrictSubsetOrdering
<1> QED
  BY <1>6

\* Successes counts positions.
LEMMA SuccessesIsNat ==
  ASSUME NEW b \in Bulk, NEW last \in Nat
  PROVE  Successes(b, last) \in Nat
<1>1. IsFiniteSet(1..last)
  BY FS_Interval
<1>2. IsFiniteSet({k \in 1..last : results[b][k] = "ok"})
  <2> DEFINE S == {k \in 1..last : results[b][k] = "ok"}
  <2>1. S \in SUBSET (1..last)
    OBVIOUS
  <2> HIDE DEF S
  <2> QED
    BY <1>1, <2>1, FS_Subset
<1> QED
  BY <1>2, FS_CardinalityType DEF Successes

\* Ends takes one open session to its final status and frees its record, or
\* leaves the manager alone.
LEMMA EndsSession ==
  ASSUME TypeOK, NEW n, NEW status \in {"completed", "aborted"}, Ends(n, status)
  PROVE  /\ sessions' \in Seq(Session)
         /\ Len(sessions') = Len(sessions)
         /\ byRecord' \in [RecordId -> 0..Len(sessions)]
         /\ ~IsOpen(n) => UNCHANGED sessionVars
         /\ IsOpen(n) =>
              /\ n \in 1..Len(sessions)
              /\ sessions[n].record \in RecordId
              /\ sessions'[n] = [record |-> sessions[n].record, status |-> status]
              /\ byRecord'[sessions[n].record] = 0
              /\ \A r \in RecordId \ {sessions[n].record} : byRecord'[r] = byRecord[r]
         /\ \A m \in Held \ {n} : sessions'[m] = sessions[m]
<1>1. sessions \in Seq(Session) /\ byRecord \in [RecordId -> 0..Len(sessions)]
  BY DEF TypeOK, Session
<1>2. CASE IsOpen(n)
  <2>1. n \in 1..Len(sessions) /\ sessions[n] \in Session
    BY <1>1, <1>2 DEF IsOpen, Held
  <2>2. /\ sessions' = [sessions EXCEPT ![n].status = status]
        /\ byRecord' = [byRecord EXCEPT ![sessions[n].record] = 0]
    BY <1>2 DEF Ends
  <2> DEFINE ended == [sessions[n] EXCEPT !.status = status]
  <2>3. ended = [record |-> sessions[n].record, status |-> status] /\ ended \in Session
    BY <2>1 DEF Session
  <2>4. sessions' = [sessions EXCEPT ![n] = ended]
    BY <2>2
  <2>5. sessions[n].record \in RecordId
    BY <2>1 DEF Session
  <2> HIDE DEF ended
  <2>6. /\ sessions' \in Seq(Session) /\ Len(sessions') = Len(sessions)
        /\ sessions'[n] = ended
        /\ \A m \in Held \ {n} : sessions'[m] = sessions[m]
    BY <1>1, <2>1, <2>3, <2>4 DEF Held
  <2> QED
    BY <1>1, <1>2, <2>1, <2>2, <2>3, <2>5, <2>6
<1>3. CASE ~IsOpen(n)
  BY <1>1, <1>3 DEF Ends, sessionVars
<1> QED
  BY <1>2, <1>3

-----------------------------------------------------------------------------
(***************************************************************************)
(* Type correctness.                                                       *)
(***************************************************************************)

LEMMA InitSInv == Init => SInv
<1> SUFFICES ASSUME Init PROVE SInv
  OBVIOUS
<1> USE SessionAssumption, WindowAssumption
<1>1. /\ sessions \in Seq(Session) /\ Len(sessions) = 0
      /\ byRecord \in [RecordId -> 0..Len(sessions)]
      /\ Held = {}
  BY DEF Init, Held
<1>2. counted \in [Bulk -> BOOLEAN]
  BY Zenon DEF Init
<1>3. results \in [Bulk -> Seq(Codes)] /\ reply \in [Bulk -> [code : Codes, completed : Nat]]
  BY DEF Init, Codes
<1>4. /\ DOMAIN gpc = Bulk /\ DOMAIN err = Bulk
      /\ \A b \in Bulk : /\ gpc[b] = [g \in Goroutines(b) |-> "complete"]
                         /\ err[b] = [g \in Goroutines(b) |-> "none"]
  BY DEF Init, Goroutines
<1>5. latency \in 0..Window /\ errors \in Nat /\ uncounted \in 0..Len(sessions)
  BY <1>1 DEF Init, MetricsInit
<1>6. TypeOK
  BY <1>1, <1>2, <1>3, <1>4, <1>5 DEF TypeOK, Session, Codes, Init
<1>7. OpenSessionsAreKnown
  BY <1>1 DEF OpenSessionsAreKnown
<1>8. AnswersFitSteps
  BY <1>4 DEF AnswersFitSteps
<1> QED
  BY <1>6, <1>7, <1>8 DEF SInv

\* OpsMetrics.Record keeps its window within bounds.
LEMMA RecordTyped ==
  ASSUME latency \in 0..Window, errors \in Nat, NEW failed, Record(failed)
  PROVE  latency' \in 0..Window /\ errors' \in Nat
BY WindowAssumption DEF Record

\* Collect's reply is a code and a number.
LEMMA CollectTyped ==
  ASSUME TypeOK, NEW b \in Bulk, Collect(b)
  PROVE  reply' \in [Bulk -> [code : Codes, completed : Nat]]
<1>1. results[b] \in Seq(Codes) /\ Len(results[b]) \in Nat
  BY DEF TypeOK
<1>2. CASE Failures(b) = {}
  <2>1. Successes(b, Len(results[b])) \in Nat
    BY <1>1, SuccessesIsNat
  <2>2. reply' = [reply EXCEPT ![b] =
                    [code |-> "ok", completed |-> Successes(b, Len(results[b]))]]
    BY <1>2 DEF Collect
  <2> QED
    BY <2>1, <2>2 DEF TypeOK, Codes
<1>3. CASE Failures(b) # {}
  <2> DEFINE first == CHOOSE k \in Failures(b) : \A j \in Failures(b) : k <= j
  <2>1. Failures(b) \subseteq 1..Len(results[b])
    BY <1>1 DEF Failures
  <2>2. first \in Failures(b)
    <3>1. \E k \in Failures(b) : \A j \in Failures(b) : k <= j
      BY <1>1, <1>3, <2>1, FirstPosition
    <3> QED
      BY <3>1
  <2>3. reply' = [reply EXCEPT ![b] =
                    [code |-> results[b][first], completed |-> Successes(b, first)]]
    BY <1>3 DEF Collect
  <2> HIDE DEF first
  <2>4. first \in 1..Len(results[b]) /\ first \in Nat
    BY <1>1, <2>1, <2>2
  <2>5. results[b][first] \in Codes /\ Successes(b, first) \in Nat
    BY <1>1, <2>4, SuccessesIsNat
  <2> QED
    BY <2>3, <2>5 DEF TypeOK
<1> QED
  BY <1>2, <1>3

LEMMA StepTyped == SInv /\ [Next]_vars => TypeOK'
<1> SUFFICES ASSUME SInv, [Next]_vars PROVE TypeOK'
  OBVIOUS
<1> USE SessionAssumption
<1>1. /\ sessions \in Seq(Session) /\ Len(sessions) \in 0..Capacity
      /\ byRecord \in [RecordId -> 0..Len(sessions)]
      /\ uncounted \in 0..Len(sessions)
      /\ latency \in 0..Window /\ errors \in Nat
  BY DEF SInv, TypeOK, Session
<1>2. CASE UNCHANGED vars
  BY <1>2 DEF SInv, TypeOK, Goroutines, vars, sessionVars, bulkVars, handlerVars,
      metricsVars
<1>3. ASSUME NEW record \in RecordId, Open(record) PROVE TypeOK'
  <2> DEFINE new == [record |-> record, status |-> "open"]
  <2>1. new \in Session
    BY DEF Session
  <2>2. sessions' = Append(sessions, new)
    BY <1>3 DEF Open
  <2> HIDE DEF new
  <2>3. /\ sessions' \in Seq(Session) /\ Len(sessions') = Len(sessions) + 1
        /\ Len(sessions') <= Capacity
    BY <1>1, <1>3, <2>1, <2>2 DEF Open
  <2>4. byRecord' \in [RecordId -> 0..Len(sessions')] /\ uncounted' \in 0..Len(sessions')
    BY <1>1, <1>3, <2>3 DEF Open
  <2>5. UNCHANGED <<ids, gpc, err, results, reply, counted, created, latency, errors>>
    BY <1>3 DEF Open, bulkVars, metricsVars
  <2> QED
    BY <2>3, <2>4, <2>5 DEF SInv, TypeOK, Session, Goroutines
<1>4. CASE CountOpen
  <2>1. latency' \in 0..Window /\ errors' \in Nat
    BY <1>1, <1>4, RecordTyped DEF CountOpen
  <2>2. uncounted' \in 0..Len(sessions)
    BY <1>1, <1>4 DEF CountOpen
  <2>3. UNCHANGED <<sessions, byRecord, ids, gpc, err, results, reply, counted, created>>
    BY <1>4 DEF CountOpen, sessionVars, bulkVars
  <2> QED
    BY <2>1, <2>2, <2>3 DEF SInv, TypeOK, Goroutines
<1>5. ASSUME NEW n \in Held, Abort(n) PROVE TypeOK'
  <2>1. UNCHANGED <<ids, gpc, err, results, reply, uncounted, counted, created, latency, errors>>
    BY <1>5 DEF Abort, bulkVars, handlerVars, metricsVars
  <2>2. Ends(n, "aborted")
    BY <1>5 DEF Abort
  <2> QED
    BY <1>1, <2>1, <2>2, EndsSession DEF SInv, TypeOK, Session, Goroutines
<1>6. ASSUME NEW b \in Bulk, NEW g \in Goroutines(b), GoComplete(b, g) PROVE TypeOK'
  <2>1. UNCHANGED <<ids, results, reply, uncounted, counted, created, latency, errors>>
    BY <1>6 DEF GoComplete, handlerVars, metricsVars
  <2>2. /\ sessions' \in Seq(Session) /\ Len(sessions') = Len(sessions)
        /\ byRecord' \in [RecordId -> 0..Len(sessions)]
    BY <1>6, EndsSession DEF GoComplete, SInv
  <2>3. CompleteError(ids[b][g]) \in Codes
    BY DEF CompleteError, Codes
  <2>4. /\ DOMAIN gpc' = Bulk /\ DOMAIN err' = Bulk
        /\ \A c \in Bulk : /\ gpc'[c] \in [Goroutines(c) -> {"complete", "send", "done"}]
                           /\ err'[c] \in [Goroutines(c) -> Codes]
    BY <1>6, <2>3 DEF GoComplete, SInv, TypeOK
  <2> QED
    BY <1>1, <2>1, <2>2, <2>4 DEF SInv, TypeOK, Session, Goroutines
<1>7. ASSUME NEW b \in Bulk, NEW g \in Goroutines(b), GoExpires(b, g) PROVE TypeOK'
  <2>1. UNCHANGED <<sessions, byRecord, ids, results, reply, uncounted, counted,
                    created, latency, errors>>
    BY <1>7 DEF GoExpires, sessionVars, handlerVars, metricsVars
  <2>2. /\ DOMAIN gpc' = Bulk /\ DOMAIN err' = Bulk
        /\ \A c \in Bulk : /\ gpc'[c] \in [Goroutines(c) -> {"complete", "send", "done"}]
                           /\ err'[c] \in [Goroutines(c) -> Codes]
    BY <1>7 DEF GoExpires, SInv, TypeOK, Codes
  <2> QED
    BY <2>1, <2>2 DEF SInv, TypeOK, Goroutines
<1>8. ASSUME NEW b \in Bulk, NEW g \in Goroutines(b), GoSend(b, g) PROVE TypeOK'
  <2>1. UNCHANGED <<sessions, byRecord, ids, err, reply, uncounted, counted,
                    created, latency, errors>>
    BY <1>8 DEF GoSend, sessionVars, handlerVars, metricsVars
  <2>2. /\ DOMAIN gpc' = Bulk
        /\ \A c \in Bulk : gpc'[c] \in [Goroutines(c) -> {"complete", "send", "done"}]
    BY <1>8 DEF GoSend, SInv, TypeOK
  <2>3. results' \in [Bulk -> Seq(Codes)]
    <3>1. err[b][g] \in Codes /\ results[b] \in Seq(Codes)
      BY DEF SInv, TypeOK
    <3>2. Append(results[b], err[b][g]) \in Seq(Codes)
      BY <3>1
    <3> QED
      BY <1>8, <3>2 DEF GoSend, SInv, TypeOK
  <2> QED
    BY <2>1, <2>2, <2>3 DEF SInv, TypeOK, Goroutines
<1>9. ASSUME NEW b \in Bulk, Collect(b) PROVE TypeOK'
  <2>1. UNCHANGED <<sessions, byRecord, ids, gpc, err, results, uncounted, counted,
                    created, latency, errors>>
    BY <1>9 DEF Collect, sessionVars, handlerVars, metricsVars
  <2> QED
    BY <1>9, <2>1, CollectTyped DEF SInv, TypeOK, Goroutines
<1>10. ASSUME NEW b \in Bulk, CountBulk(b) PROVE TypeOK'
  <2>1. UNCHANGED <<sessions, byRecord, ids, gpc, err, results, reply, uncounted,
                    created>>
    BY <1>10 DEF CountBulk, sessionVars, bulkVars
  <2>2. latency' \in 0..Window /\ errors' \in Nat
    BY <1>1, <1>10, RecordTyped DEF CountBulk
  <2>3. counted' \in [Bulk -> BOOLEAN]
    BY <1>10, Zenon DEF CountBulk, SInv, TypeOK
  <2> QED
    BY <2>1, <2>2, <2>3 DEF SInv, TypeOK, Goroutines
<1>11. ASSUME NEW c \in Creation, CountCreate(c) PROVE TypeOK'
  <2>1. UNCHANGED <<sessions, byRecord, ids, gpc, err, results, reply, uncounted, counted>>
    BY <1>11 DEF CountCreate, sessionVars, bulkVars
  <2>2. latency' \in 0..Window /\ errors' \in Nat
    BY <1>1, <1>11, RecordTyped DEF CountCreate
  <2>3. created' \subseteq Creation
    BY <1>11 DEF CountCreate, SInv, TypeOK
  <2> QED
    BY <2>1, <2>2, <2>3 DEF SInv, TypeOK, Goroutines
<1> QED
  BY <1>2, <1>3, <1>4, <1>5, <1>6, <1>7, <1>8, <1>9, <1>10, <1>11 DEF Next, BulkComplete,
     OpenRefused

-----------------------------------------------------------------------------
(***************************************************************************)
(* byRecord, and the answers of the goroutines.                            *)
(***************************************************************************)

\* Sessions, and what byRecord leads to, change with an Open or an end only.
LEMMA SessionsStep ==
  ASSUME [Next]_vars
  PROVE  \/ UNCHANGED sessionVars
         \/ \E r \in RecordId : Open(r)
         \/ \E n \in Held : Abort(n)
         \/ \E b \in Bulk : \E g \in Goroutines(b) : GoComplete(b, g)
BY DEF Next, BulkComplete, vars, OpenRefused, CountOpen, CountCreate, GoExpires, GoSend,
    Collect, CountBulk

\* An end leaves every session that is still open known.
LEMMA EndsKnown ==
  ASSUME TypeOK, OpenSessionsAreKnown, NEW n, NEW status \in {"completed", "aborted"},
         Ends(n, status)
  PROVE  OpenSessionsAreKnown'
<1>1. CASE ~IsOpen(n)
  <2>1. UNCHANGED <<sessions, byRecord>>
    BY <1>1 DEF Ends, sessionVars
  <2> QED
    BY <2>1 DEF OpenSessionsAreKnown, IsOpen, Held
<1>2. CASE IsOpen(n)
  <2>1. /\ sessions' \in Seq(Session) /\ Len(sessions') = Len(sessions)
        /\ sessions \in Seq(Session)
        /\ n \in 1..Len(sessions)
        /\ sessions[n].record \in RecordId
        /\ sessions'[n] = [record |-> sessions[n].record, status |-> status]
        /\ byRecord'[sessions[n].record] = 0
        /\ \A r \in RecordId \ {sessions[n].record} : byRecord'[r] = byRecord[r]
        /\ \A m \in Held \ {n} : sessions'[m] = sessions[m]
    BY <1>2, EndsSession DEF TypeOK, Session
  <2>2. Held = 1..Len(sessions) /\ Held' = Held
    BY <2>1 DEF Held
  <2>3. byRecord[sessions[n].record] = n
    BY <1>2, <2>1, <2>2 DEF OpenSessionsAreKnown
  <2> SUFFICES ASSUME NEW m \in Held
               PROVE  sessions'[m].status = "open" <=> byRecord'[sessions'[m].record] = m
    BY <2>2 DEF OpenSessionsAreKnown, IsOpen
  <2>4. CASE m = n
    BY <2>1, <2>4
  <2>5. CASE m # n
    <3>1. sessions'[m] = sessions[m] /\ sessions[m] \in Session
      BY <2>1, <2>2, <2>5
    <3>2. sessions[m].status = "open" <=> byRecord[sessions[m].record] = m
      BY DEF OpenSessionsAreKnown, IsOpen
    <3>3. sessions[m].record \in RecordId
      BY <3>1 DEF Session
    <3>4. CASE sessions[m].record = sessions[n].record
      <4>1. m # 0
        BY <2>1, <2>2
      <4> QED
        BY <2>1, <2>3, <2>5, <3>1, <3>2, <3>4, <4>1
    <3>5. CASE sessions[m].record # sessions[n].record
      BY <2>1, <3>1, <3>2, <3>3, <3>5
    <3> QED
      BY <3>4, <3>5
  <2> QED
    BY <2>4, <2>5
<1> QED
  BY <1>1, <1>2

\* A new session is known, and its record had no open one.
LEMMA OpenKnown ==
  ASSUME TypeOK, OpenSessionsAreKnown, NEW record \in RecordId, Open(record)
  PROVE  /\ OpenSessionsAreKnown'
         /\ \A n \in Held : sessions[n].record = record => ~IsOpen(n)
<1> DEFINE new == [record |-> record, status |-> "open"]
<1>1. /\ sessions \in Seq(Session) /\ new \in Session
      /\ sessions' = Append(sessions, new)
      /\ byRecord[record] = 0
      /\ byRecord \in [RecordId -> 0..Len(sessions)]
      /\ byRecord' = [byRecord EXCEPT ![record] = Len(sessions) + 1]
  BY DEF TypeOK, Open, Session
<1>2. new.record = record /\ new.status = "open"
  OBVIOUS
<1> HIDE DEF new
<1>3. /\ Held = 1..Len(sessions) /\ Held' = 1..(Len(sessions) + 1)
      /\ \A m \in Held : sessions'[m] = sessions[m] /\ sessions[m] \in Session
      /\ sessions'[Len(sessions) + 1] = new
  BY <1>1 DEF Held
<1>4. \A m \in Held : sessions[m].status = "open" <=> byRecord[sessions[m].record] = m
  BY DEF OpenSessionsAreKnown, IsOpen
<1>5. ASSUME NEW m \in Held, sessions[m].record = record PROVE ~IsOpen(m)
  BY <1>1, <1>3, <1>4, <1>5 DEF IsOpen
<1>6. ASSUME NEW m \in Held'
      PROVE  sessions'[m].status = "open" <=> byRecord'[sessions'[m].record] = m
  <2>1. CASE m = Len(sessions) + 1
    BY <1>1, <1>2, <1>3, <2>1
  <2>2. CASE m \in Held
    <3>1. sessions[m].record \in RecordId
      BY <1>3, <2>2 DEF Session
    <3>2. byRecord[sessions[m].record] \in 0..Len(sessions) /\ m # Len(sessions) + 1
      BY <1>1, <1>3, <2>2, <3>1
    <3>3. CASE sessions[m].record = record
      BY <1>1, <1>3, <1>4, <1>5, <2>2, <3>2, <3>3 DEF IsOpen
    <3>4. CASE sessions[m].record # record
      BY <1>1, <1>3, <1>4, <2>2, <3>1, <3>4
    <3> QED
      BY <3>3, <3>4
  <2> QED
    BY <1>1, <1>3, <1>6, <2>1, <2>2
<1> QED
  BY <1>5, <1>6 DEF OpenSessionsAreKnown, IsOpen

LEMMA StepKnown == SInv /\ [Next]_vars => OpenSessionsAreKnown'
<1> SUFFICES ASSUME SInv, [Next]_vars PROVE OpenSessionsAreKnown'
  OBVIOUS
<1>1. CASE UNCHANGED sessionVars
  BY <1>1 DEF SInv, OpenSessionsAreKnown, IsOpen, Held, sessionVars
<1>2. CASE \E r \in RecordId : Open(r)
  BY <1>2, OpenKnown DEF SInv
<1>3. CASE \E n \in Held : Abort(n)
  BY <1>3, EndsKnown DEF SInv, Abort
<1>4. CASE \E b \in Bulk : \E g \in Goroutines(b) : GoComplete(b, g)
  BY <1>4, EndsKnown DEF SInv, GoComplete
<1> QED
  BY <1>1, <1>2, <1>3, <1>4, SessionsStep

\* A session that is completed stays so.
LEMMA CompletedStays ==
  ASSUME SInv, [Next]_vars, NEW n \in Held, sessions[n].status = "completed"
  PROVE  n \in Held' /\ sessions'[n].status = "completed"
<1>1. sessions \in Seq(Session) /\ Held = 1..Len(sessions)
  BY DEF SInv, TypeOK, Session, Held
<1>2. CASE UNCHANGED sessionVars
  BY <1>2 DEF Held, sessionVars
<1>3. ASSUME NEW r \in RecordId, Open(r) PROVE n \in Held' /\ sessions'[n] = sessions[n]
  BY <1>1, <1>3 DEF Open, Held
<1>4. ASSUME NEW m, NEW status \in {"completed", "aborted"}, Ends(m, status)
      PROVE  n \in Held' /\ sessions'[n] = sessions[n]
  <2>1. CASE IsOpen(m)
    <3>1. m # n
      BY <2>1 DEF IsOpen
    <3>2. /\ Len(sessions') = Len(sessions) /\ sessions' \in Seq(Session)
          /\ \A k \in Held \ {m} : sessions'[k] = sessions[k]
      <4>1. TypeOK
        BY DEF SInv
      <4> QED
        BY <1>4, <4>1, EndsSession
    <3> QED
      BY <1>1, <3>1, <3>2 DEF Held
  <2>2. CASE ~IsOpen(m)
    BY <1>4, <2>2 DEF Ends, sessionVars, Held
  <2> QED
    BY <2>1, <2>2
<1> QED
  BY <1>2, <1>3, <1>4, SessionsStep DEF Abort, GoComplete

LEMMA StepFits == SInv /\ [Next]_vars => AnswersFitSteps'
<1> SUFFICES ASSUME SInv, [Next]_vars, NEW c \in Bulk, NEW h \in Goroutines(c)
             PROVE  /\ gpc'[c][h] = "complete" => err'[c][h] = "none"
                    /\ err'[c][h] = "ok" =>
                         ids[c][h] \in Held' /\ sessions'[ids[c][h]].status = "completed"
  BY DEF AnswersFitSteps, Goroutines, Next, vars, bulkVars, Open, OpenRefused, CountOpen,
     CountCreate, Abort, BulkComplete, GoComplete, GoExpires, GoSend, Collect, CountBulk
<1>1. /\ gpc[c][h] = "complete" => err[c][h] = "none"
      /\ err[c][h] = "ok" => ids[c][h] \in Held /\ sessions[ids[c][h]].status = "completed"
  BY DEF SInv, AnswersFitSteps
<1>2. CASE err'[c][h] = err[c][h] /\ (gpc'[c][h] = gpc[c][h] \/ gpc'[c][h] # "complete")
  BY <1>1, <1>2, CompletedStays
<1>3. ASSUME GoComplete(c, h)
      PROVE  /\ gpc'[c][h] = "send"
             /\ err'[c][h] = "ok" =>
                  ids[c][h] \in Held' /\ sessions'[ids[c][h]].status = "completed"
  <2>1. gpc'[c][h] = "send" /\ err'[c][h] = CompleteError(ids[c][h])
    BY <1>3 DEF GoComplete, SInv, TypeOK
  <2>2. ASSUME err'[c][h] = "ok"
        PROVE  ids[c][h] \in Held' /\ sessions'[ids[c][h]].status = "completed"
    <3>1. IsOpen(ids[c][h]) /\ Ends(ids[c][h], "completed")
      BY <1>3, <2>1, <2>2 DEF CompleteError, GoComplete
    <3> DEFINE n == ids[c][h]
    <3>2. /\ sessions'[n] = [record |-> sessions[n].record, status |-> "completed"]
          /\ n \in 1..Len(sessions)
          /\ sessions' \in Seq(Session) /\ Len(sessions') = Len(sessions)
      <4>1. TypeOK /\ "completed" \in {"completed", "aborted"}
        BY DEF SInv
      <4> HIDE DEF n
      <4> QED
        BY <3>1, <4>1, EndsSession DEF n
    <3> QED
      BY <3>2 DEF Held
  <2> QED
    BY <2>1, <2>2
<1>4. ASSUME GoExpires(c, h) PROVE gpc'[c][h] = "send" /\ err'[c][h] = "internal"
  BY <1>4 DEF GoExpires, SInv, TypeOK
<1>5. \/ GoComplete(c, h) \/ GoExpires(c, h)
      \/ err'[c][h] = err[c][h] /\ (gpc'[c][h] = gpc[c][h] \/ gpc'[c][h] # "complete")
  <2>1. CASE UNCHANGED <<gpc, err>>
    BY <2>1
  <2>2. ASSUME NEW b \in Bulk, NEW g \in Goroutines(b), b # c \/ g # h,
               GoComplete(b, g) \/ GoExpires(b, g)
        PROVE  err'[c][h] = err[c][h] /\ gpc'[c][h] = gpc[c][h]
    <3>1. PICK code : /\ err' = [err EXCEPT ![b][g] = code]
                      /\ gpc' = [gpc EXCEPT ![b][g] = "send"]
      BY <2>2 DEF GoComplete, GoExpires
    <3> QED
      BY <2>2, <3>1 DEF SInv, TypeOK
  <2>3. ASSUME NEW b \in Bulk, NEW g \in Goroutines(b), GoSend(b, g)
        PROVE  err'[c][h] = err[c][h] /\ (gpc'[c][h] = gpc[c][h] \/ gpc'[c][h] # "complete")
    BY <2>3 DEF GoSend, SInv, TypeOK
  <2> QED
    BY <2>1, <2>2, <2>3 DEF Next, BulkComplete, vars, bulkVars, Open, OpenRefused,
       CountOpen, CountCreate, Abort, Collect, CountBulk
<1> QED
  BY <1>2, <1>3, <1>4, <1>5

\* The inductive invariant holds in every reachable state.
THEOREM SInvAlways == Spec => []SInv
<1>1. SInv /\ [Next]_vars => SInv'
  BY StepTyped, StepKnown, StepFits DEF SInv
<1> QED
  BY <1>1, InitSInv, PTL DEF Spec

\* Every variable keeps its type; in particular the manager never holds more
\* sessions than its capacity.
THEOREM SessionsTyped == Spec => []TypeOK
BY SInvAlways, PTL DEF SInv

\* A session is open exactly while byRecord leads to it, however completions,
\* aborts and new sessions of the same record interleave: so a record has one
\* open session at most.
THEOREM OneOpenSession == Spec => []OpenSessionsAreKnown
BY SInvAlways, PTL DEF SInv

-----------------------------------------------------------------------------
(***************************************************************************)
(* Refinement.                                                             *)
(***************************************************************************)

\* The sessions as SessionLedger sees them.
Shown(n) == [record |-> sessions[n].record, status |-> sessions[n].status,
             by |-> Completers(n)]
Shows == [n \in Held |-> Shown(n)]

ShownSession == [record : RecordId, status : {"open", "completed", "aborted"},
                 by : SUBSET Callers]

LEMMA CompletersSame ==
  ASSUME ids' = ids, NEW n,
         \A b \in Bulk : \A g \in Goroutines(b) :
           ids[b][g] = n => (err'[b][g] = "ok" <=> err[b][g] = "ok")
  PROVE  Completers(n)' = Completers(n)
<1>1. \A b : Goroutines(b)' = Goroutines(b)
  BY DEF Goroutines
<1> QED
  BY <1>1 DEF Completers, Callers

\* What SessionLedger sees is a sequence, as long as the manager's.
LEMMA ShowsTyped ==
  ASSUME TypeOK
  PROVE  /\ Shows \in Seq(ShownSession) /\ Len(Shows) = Len(sessions)
         /\ Held = 1..Len(sessions)
         /\ \A n \in Held : Shows[n] = Shown(n) /\ Shown(n) \in ShownSession
<1>1. sessions \in Seq(Session) /\ Held = 1..Len(sessions)
  BY DEF TypeOK, Session, Held
<1>2. ASSUME NEW n \in Held PROVE Shown(n) \in ShownSession
  <2>1. Completers(n) \subseteq Callers
    BY DEF Completers
  <2>2. sessions[n] \in Session
    BY <1>1
  <2> QED
    BY <2>1, <2>2 DEF Shown, ShownSession, Session
<1> QED
  BY <1>1, <1>2 DEF Shows

LEMMA IsAppend ==
  ASSUME NEW S, NEW s \in Seq(S), NEW t \in Seq(S), NEW e \in S,
         Len(t) = Len(s) + 1, t[Len(s) + 1] = e,
         \A i \in 1..Len(s) : t[i] = s[i]
  PROVE  t = Append(s, e)
OBVIOUS

\* An end of a session that leaves its completers alone or sets them to one.
LEMMA EndsShows ==
  ASSUME SInv, TypeOK', NEW n, NEW status \in {"completed", "aborted"}, Ends(n, status),
         IsOpen(n), \A m \in Held \ {n} : Completers(m)' = Completers(m)
  PROVE  /\ n \in Held /\ n \in DOMAIN Shows /\ Shows[n].status = "open"
         /\ Completers(n) = {}
         /\ Shows' = [Shows EXCEPT ![n] = [record |-> Shows[n].record, status |-> status,
                                          by |-> Completers(n)']]
<1>1. TypeOK
  BY DEF SInv
<1>2. /\ Len(sessions') = Len(sessions) /\ n \in Held
      /\ sessions'[n] = [record |-> sessions[n].record, status |-> status]
      /\ \A m \in Held \ {n} : sessions'[m] = sessions[m]
  BY <1>1, EndsSession DEF Held, IsOpen
<1>3. Held' = Held
  BY <1>1, <1>2, ShowsTyped DEF Held, TypeOK
<1>4. Shows'[n] = [record |-> sessions[n].record, status |-> status,
                   by |-> Completers(n)']
  BY <1>2, <1>3 DEF Shows, Shown
<1>5. \A m \in Held \ {n} : Shows'[m] = Shows[m]
  BY <1>2, <1>3 DEF Shows, Shown
<1>6. Shows[n] = Shown(n) /\ DOMAIN Shows = Held /\ DOMAIN Shows' = Held
  BY <1>2, <1>3 DEF Shows
<1>7. Completers(n) = {}
  BY DEF Completers, Callers, SInv, AnswersFitSteps, IsOpen
<1>8. Shows' = [Shows EXCEPT ![n] = Shows'[n]]
  BY <1>3, <1>5, <1>6 DEF Shows
<1> QED
  BY <1>2, <1>4, <1>6, <1>7, <1>8 DEF IsOpen, Shown

\* Goroutines, requests and aborts together implement SessionLedger: Open,
\* Abort and the one completion that finds the session open are its steps,
\* with the goroutine as the caller, and every other step is a stutter.
THEOREM ContractRefined == Spec => RefinesContract
<1>1. Init => Contract!Init
  <2> SUFFICES ASSUME Init PROVE Shows = << >>
    BY DEF Contract!Init, Shows, Shown
  <2>1. Held = {}
    BY DEF Init, Held
  <2> QED
    BY <2>1 DEF Shows
<1>2. SInv /\ SInv' /\ [Next]_vars => Shows' = Shows \/ Contract!Next
  <2> SUFFICES ASSUME SInv, SInv', [Next]_vars
               PROVE  Shows' = Shows \/ Contract!Next
    OBVIOUS
  <2>1. TypeOK /\ TypeOK' /\ DOMAIN Shows = Held
    BY DEF SInv, Shows
  <2>2. ids' = ids /\ \A b : Goroutines(b)' = Goroutines(b)
    BY DEF Next, vars, bulkVars, Open, OpenRefused, CountOpen, CountCreate, Abort,
       BulkComplete, GoComplete, GoExpires, GoSend, Collect, CountBulk, Goroutines
  <2>3. ASSUME UNCHANGED sessions,
               \A b \in Bulk : \A g \in Goroutines(b) :
                 err'[b][g] = "ok" <=> err[b][g] = "ok"
        PROVE  Shows' = Shows
    BY <2>2, <2>3, CompletersSame DEF Shows, Shown, Held
  <2>4. ASSUME NEW record \in RecordId, Open(record) PROVE Contract!Next
    <3> DEFINE new == [record |-> record, status |-> "open", by |-> {}]
    <3>0. PICK last : last = Len(sessions) + 1
      OBVIOUS
    <3>1. /\ sessions' = Append(sessions, [record |-> record, status |-> "open"])
          /\ Len(sessions) < Capacity /\ err' = err
      BY <2>4 DEF Open, bulkVars
    <3>2. \A n : Completers(n)' = Completers(n)
      BY <2>2, <3>1, CompletersSame
    <3>3. Completers(last) = {}
      <4>1. last \notin Held
        BY <2>1, <3>0, ShowsTyped DEF TypeOK
      <4> QED
        BY <4>1 DEF Completers, Callers, SInv, AnswersFitSteps
    <3>4. /\ Len(sessions') = Len(sessions) + 1
          /\ sessions'[Len(sessions) + 1] = [record |-> record, status |-> "open"]
          /\ \A m \in 1..Len(sessions) : sessions'[m] = sessions[m]
          /\ Held' = 1..(Len(sessions) + 1) /\ Held = 1..Len(sessions)
      BY <2>1, <3>1 DEF TypeOK, Held
    <3>5. Shows'[last] = new /\ new \in ShownSession
      <4>1. last \in Held'
        BY <2>1, <3>0, <3>4 DEF TypeOK
      <4>2. Completers(last)' = {}
        BY <3>2, <3>3
      <4>3. new \in ShownSession
        BY DEF ShownSession
      <4>4. Shows'[last] = [record |-> sessions'[last].record,
                            status |-> sessions'[last].status,
                            by |-> Completers(last)']
        BY <4>1 DEF Shows, Shown
      <4>5. sessions'[last] = [record |-> record, status |-> "open"]
        BY <3>0, <3>4
      <4>6. sessions'[last].record = record /\ sessions'[last].status = "open"
        BY <4>5
      <4> QED
        BY <4>2, <4>3, <4>4, <4>6
    <3>6. \A m \in 1..Len(sessions) : Shows'[m] = Shows[m]
      BY <3>2, <3>4 DEF Shows, Shown
    <3>7. Shows' = Append(Shows, new)
      <4>1. /\ Shows \in Seq(ShownSession) /\ Len(Shows) = Len(sessions)
            /\ Shows' \in Seq(ShownSession) /\ Len(Shows') = Len(sessions')
        <5>1. (TypeOK => Shows \in Seq(ShownSession) /\ Len(Shows) = Len(sessions))'
          BY ShowsTyped, PTL
        <5> QED
          BY <2>1, <5>1, ShowsTyped DEF ShownSession, Callers
      <4> HIDE DEF new
      <4> QED
        BY <3>0, <3>4, <3>5, <3>6, <4>1, IsAppend
    <3>8. \A n \in Held : Shows[n].record = record => Shows[n].status # "open"
      BY <2>1, <2>4, OpenKnown DEF SInv, Shows, Shown, IsOpen
    <3>9. Contract!Open(record)
      BY <2>1, <3>1, <3>7, <3>8, ShowsTyped
      DEF Contract!Open, Contract!IsOpen, Shows, Shown
    <3> QED
      BY <3>9 DEF Contract!Next
  <2>5. ASSUME NEW n \in Held, Abort(n) PROVE Shows' = Shows \/ Contract!Next
    <3>1. Ends(n, "aborted") /\ err' = err
      BY <2>5 DEF Abort, bulkVars
    <3>2. \A m : Completers(m)' = Completers(m)
      BY <2>2, <3>1, CompletersSame
    <3>3. CASE ~IsOpen(n)
      BY <2>3, <3>1, <3>3 DEF Ends, sessionVars
    <3>4. CASE IsOpen(n)
      <4>1. /\ n \in DOMAIN Shows /\ Shows[n].status = "open" /\ Completers(n) = {}
            /\ Shows' = [Shows EXCEPT ![n] =
                           [record |-> Shows[n].record, status |-> "aborted", by |-> {}]]
        BY <2>1, <3>1, <3>2, <3>4, EndsShows
      <4>2. Shows[n] = [record |-> Shows[n].record, status |-> "open", by |-> {}]
        BY <4>1 DEF Shows, Shown
      <4>3. Shows' = [Shows EXCEPT ![n].status = "aborted"]
        <5>1. [Shows[n] EXCEPT !.status = "aborted"]
                = [record |-> Shows[n].record, status |-> "aborted", by |-> {}]
          BY <4>2
        <5> QED
          BY <4>1, <5>1
      <4>4. Contract!Abort(n)
        BY <4>1, <4>3 DEF Contract!Abort, Contract!IsOpen, Shows, Shown
      <4> QED
        BY <4>1, <4>4 DEF Contract!Next, Shows, Shown
    <3> QED
      BY <3>3, <3>4
  <2>6. ASSUME NEW b \in Bulk, NEW g \in Goroutines(b), GoComplete(b, g)
        PROVE  Shows' = Shows \/ Contract!Next
    <3>0. PICK n : n = ids[b][g]
      OBVIOUS
    <3>1. /\ Ends(n, "completed") /\ gpc[b][g] = "complete"
          /\ err' = [err EXCEPT ![b][g] = CompleteError(n)]
      BY <2>6, <3>0 DEF GoComplete
    <3>2. err[b][g] = "none" /\ err'[b][g] = CompleteError(n)
      BY <3>0, <3>1 DEF SInv, AnswersFitSteps, TypeOK
    <3>3. \A c \in Bulk : \A h \in Goroutines(c) : c # b \/ h # g => err'[c][h] = err[c][h]
      BY <3>1 DEF SInv, TypeOK
    <3>4. CASE ~IsOpen(n)
      <4>1. CompleteError(n) # "ok" /\ UNCHANGED sessions
        BY <3>1, <3>4 DEF CompleteError, Ends, sessionVars
      <4> QED
        BY <2>3, <3>2, <3>3, <4>1
    <3>5. CASE IsOpen(n)
      <4>1. CompleteError(n) = "ok"
        BY <3>5 DEF CompleteError, IsOpen
      <4>2. \A m \in Held \ {n} : Completers(m)' = Completers(m)
        BY <2>2, <3>0, <3>2, <3>3, CompletersSame
      <4>3. /\ n \in DOMAIN Shows /\ Shows[n].status = "open" /\ Completers(n) = {}
            /\ Shows' = [Shows EXCEPT ![n] =
                           [record |-> Shows[n].record, status |-> "completed",
                            by |-> Completers(n)']]
        BY <2>1, <3>1, <3>5, <4>2, EndsShows
      <4>4. Completers(n)' = {<<b, g>>}
        <5>1. \A d \in Bulk : \A h \in Goroutines(d) : ids[d][h] = n => err[d][h] # "ok"
          BY <3>5 DEF SInv, AnswersFitSteps, IsOpen
        <5>2. \A d \in Bulk : \A h \in Goroutines(d) :
                ids[d][h] = n /\ err'[d][h] = "ok" <=> d = b /\ h = g
          BY <3>0, <3>2, <3>3, <4>1, <5>1
        <5>3. <<b, g>> \in Callers
          BY DEF Callers, Goroutines, SInv, TypeOK
        <5> QED
          BY <2>2, <5>2, <5>3 DEF Completers, Callers
      <4>5. <<b, g>> \in Callers
        BY DEF Callers, Goroutines, SInv, TypeOK
      <4>6. Shows' = [Shows EXCEPT ![n].status = "completed", ![n].by = {<<b, g>>}]
        <5>1. Shows[n] = [record |-> Shows[n].record, status |-> "open", by |-> {}]
          BY <4>3 DEF Shows, Shown
        <5> QED
          BY <4>3, <4>4, <5>1
      <4>7. Contract!Complete(n, <<b, g>>)
        BY <4>3, <4>6 DEF Contract!Complete, Contract!IsOpen, Shows, Shown
      <4> QED
        BY <4>3, <4>5, <4>7 DEF Contract!Next, Shows, Shown
    <3> QED
      BY <3>4, <3>5
  <2>7. ASSUME NEW b \in Bulk, NEW g \in Goroutines(b), GoExpires(b, g)
        PROVE  Shows' = Shows
    <3>1. err' = [err EXCEPT ![b][g] = "internal"] /\ err[b][g] = "none"
      BY <2>7 DEF GoExpires, SInv, AnswersFitSteps
    <3>2. \A c \in Bulk : \A h \in Goroutines(c) : err'[c][h] = "ok" <=> err[c][h] = "ok"
      BY <3>1 DEF SInv, TypeOK
    <3> QED
      BY <2>3, <2>7, <3>2 DEF GoExpires, sessionVars
  <2> QED
    BY <2>3, <2>4, <2>5, <2>6, <2>7 DEF Next, vars, sessionVars, bulkVars, OpenRefused,
       CountOpen, CountCreate, BulkComplete, GoSend, Collect, CountBulk
<1>3. SInv /\ SInv' /\ [Next]_vars => [Contract!Next]_(Shows)
  BY <1>2
<1> QED
  BY <1>1, <1>3, SInvAlways, PTL DEF Spec, RefinesContract, Contract!Spec, Shows, Shown

-----------------------------------------------------------------------------
(***************************************************************************)
(* What a bulk reports.                                                    *)
(***************************************************************************)

\* The goroutines that were told "ok" and have sent it, and the places of "ok"
\* in the channel.
Sent(b) == {g \in Goroutines(b) : gpc[b][g] = "done" /\ err[b][g] = "ok"}
Oks(b) == {k \in DOMAIN results[b] : results[b][k] = "ok"}

\* The channel has one "ok" for each goroutine that sent one; a bulk replies
\* when all have sent, and is counted when it has replied without an error.
BulkFits(b) ==
  /\ Cardinality(Oks(b)) = Cardinality(Sent(b))
  /\ reply[b].code # "none" => \A g \in Goroutines(b) : gpc[b][g] = "done"
  /\ reply[b].code = "ok" => reply[b].completed = Cardinality(Sent(b))
  /\ counted[b] => reply[b].code = "ok"

LEMMA SentIsFinite ==
  ASSUME TypeOK, NEW b \in Bulk
  PROVE  /\ IsFiniteSet(Sent(b)) /\ Cardinality(Sent(b)) \in Nat
         /\ IsFiniteSet(Oks(b)) /\ Cardinality(Oks(b)) \in Nat
<1>1. ids[b] \in Seq(Nat \ {0}) /\ results[b] \in Seq(Codes)
  BY SessionAssumption DEF TypeOK
<1>2. /\ Len(ids[b]) \in Nat /\ Sent(b) \in SUBSET (1..Len(ids[b]))
      /\ Len(results[b]) \in Nat /\ Oks(b) \in SUBSET (1..Len(results[b]))
  BY <1>1 DEF Sent, Oks, Goroutines
<1>3. \A n \in Nat : IsFiniteSet(1..n)
  BY FS_Interval
<1> QED
  BY <1>2, <1>3, FS_Subset, FS_CardinalityType

\* What a step does to a bulk.
LEMMA BulkStep ==
  ASSUME TypeOK, [Next]_vars, NEW b \in Bulk
  PROVE  /\ ids' = ids
         /\ \/ /\ gpc'[b] = gpc[b] /\ err'[b] = err[b] /\ results'[b] = results[b]
               /\ reply'[b] = reply[b] /\ counted'[b] = counted[b]
            \/ CountBulk(b) \/ Collect(b)
            \/ \E g \in Goroutines(b) : GoComplete(b, g) \/ GoExpires(b, g) \/ GoSend(b, g)
<1>1. ids' = ids
  BY DEF Next, vars, bulkVars, Open, OpenRefused, CountOpen, CountCreate, Abort,
     BulkComplete, GoComplete, GoExpires, GoSend, Collect, CountBulk
<1>2. ASSUME NEW c \in Bulk, c # b, BulkComplete(c)
      PROVE  /\ gpc'[b] = gpc[b] /\ err'[b] = err[b] /\ results'[b] = results[b]
             /\ reply'[b] = reply[b] /\ counted'[b] = counted[b]
  <2>1. gpc'[b] = gpc[b] /\ err'[b] = err[b]
    BY <1>2 DEF BulkComplete, GoComplete, GoExpires, GoSend, Collect, CountBulk, TypeOK,
       bulkVars
  <2>2. results'[b] = results[b] /\ reply'[b] = reply[b]
    BY <1>2 DEF BulkComplete, GoComplete, GoExpires, GoSend, Collect, CountBulk, TypeOK,
       bulkVars
  <2>3. counted'[b] = counted[b]
    BY <1>2 DEF BulkComplete, GoComplete, GoExpires, GoSend, Collect, CountBulk, TypeOK,
       handlerVars
  <2> QED
    BY <2>1, <2>2, <2>3
<1>3. CASE UNCHANGED <<gpc, err, results, reply, counted>>
  BY <1>1, <1>3
<1>4. UNCHANGED <<gpc, err, results, reply, counted>> \/ \E c \in Bulk : BulkComplete(c)
  BY DEF Next, vars, bulkVars, handlerVars, Open, OpenRefused, CountOpen, CountCreate, Abort
<1> QED
  BY <1>1, <1>2, <1>3, <1>4 DEF BulkComplete

\* The reply of a bulk without an error is the number of "ok"s in its channel.
LEMMA CollectCounts ==
  ASSUME TypeOK, NEW b \in Bulk, Collect(b), reply'[b].code = "ok"
  PROVE  reply'[b].completed = Cardinality(Oks(b))
<1>1. results[b] \in Seq(Codes) /\ Len(results[b]) \in Nat
  BY DEF TypeOK
<1>2. CASE Failures(b) = {}
  <2>1. reply'[b].completed = Successes(b, Len(results[b]))
    BY <1>2 DEF Collect, TypeOK
  <2>2. Oks(b) = {k \in 1..Len(results[b]) : results[b][k] = "ok"}
    BY <1>1 DEF Oks
  <2> QED
    BY <2>1, <2>2 DEF Successes
<1>3. CASE Failures(b) # {}
  <2> DEFINE first == CHOOSE k \in Failures(b) : \A j \in Failures(b) : k <= j
  <2>1. Failures(b) \subseteq 1..Len(results[b])
    BY <1>1 DEF Failures
  <2>2. first \in Failures(b)
    <3>1. \E k \in Failures(b) : \A j \in Failures(b) : k <= j
      BY <1>1, <1>3, <2>1, FirstPosition
    <3> QED
      BY <3>1
  <2>3. reply'[b].code = results[b][first]
    BY <1>3 DEF Collect, TypeOK
  <2> HIDE DEF first
  <2> QED
    BY <2>2, <2>3 DEF Failures
<1> QED
  BY <1>2, <1>3

\* A goroutine sends what it was told, once.
LEMMA SendCounts ==
  ASSUME TypeOK, NEW b \in Bulk, NEW g \in Goroutines(b), GoSend(b, g),
         Cardinality(Oks(b)) = Cardinality(Sent(b))
  PROVE  Cardinality(Oks(b)') = Cardinality(Sent(b)')
<1> DEFINE last == Len(results[b]) + 1
<1>1. /\ results[b] \in Seq(Codes) /\ Len(results[b]) \in Nat
      /\ err[b][g] \in Codes /\ gpc[b][g] = "send"
  BY DEF TypeOK, GoSend
<1>2. results'[b] = Append(results[b], err[b][g])
  BY DEF GoSend, TypeOK
<1>3. /\ DOMAIN results'[b] = 1..last /\ DOMAIN results[b] = 1..Len(results[b])
      /\ results'[b][last] = err[b][g]
      /\ \A k \in 1..Len(results[b]) : results'[b][k] = results[b][k]
  BY <1>1, <1>2
<1>4. /\ gpc'[b][g] = "done"
      /\ \A h \in Goroutines(b) \ {g} : gpc'[b][h] = gpc[b][h]
      /\ err' = err /\ Goroutines(b)' = Goroutines(b)
  BY DEF GoSend, TypeOK, Goroutines
<1>5. /\ IsFiniteSet(Sent(b)) /\ Cardinality(Sent(b)) \in Nat
      /\ IsFiniteSet(Oks(b)) /\ Cardinality(Oks(b)) \in Nat
  BY SentIsFinite
<1>6. CASE err[b][g] = "ok"
  <2>1. Oks(b)' = Oks(b) \cup {last} /\ last \notin Oks(b)
    BY <1>1, <1>3, <1>6 DEF Oks
  <2>2. Sent(b)' = Sent(b) \cup {g} /\ g \notin Sent(b)
    BY <1>1, <1>4, <1>6 DEF Sent
  <2>3. Cardinality(Oks(b)') = Cardinality(Oks(b)) + 1
    BY <1>5, <2>1, FS_AddElement
  <2>4. Cardinality(Sent(b)') = Cardinality(Sent(b)) + 1
    BY <1>5, <2>2, FS_AddElement
  <2> QED
    BY <2>3, <2>4
<1>7. CASE err[b][g] # "ok"
  <2>1. Oks(b)' = Oks(b)
    BY <1>1, <1>3, <1>7 DEF Oks
  <2>2. Sent(b)' = Sent(b)
    BY <1>1, <1>4, <1>7 DEF Sent
  <2> QED
    BY <2>1, <2>2
<1> QED
  BY <1>6, <1>7

LEMMA StepFitsBulk ==
  ASSUME TypeOK, [Next]_vars, NEW b \in Bulk, BulkFits(b)
  PROVE  BulkFits(b)'
<1>1. ids' = ids /\ Goroutines(b)' = Goroutines(b)
  BY BulkStep DEF Goroutines
<1>2. CASE /\ gpc'[b] = gpc[b] /\ err'[b] = err[b] /\ results'[b] = results[b]
           /\ reply'[b] = reply[b] /\ counted'[b] = counted[b]
  <2>1. Sent(b)' = Sent(b) /\ Oks(b)' = Oks(b)
    BY <1>1, <1>2 DEF Sent, Oks
  <2> QED
    BY <1>1, <1>2, <2>1 DEF BulkFits
<1>3. CASE CountBulk(b)
  <2>1. UNCHANGED <<gpc, err, results, reply>> /\ reply[b].code = "ok"
    BY <1>3 DEF CountBulk, bulkVars
  <2>2. Sent(b)' = Sent(b) /\ Oks(b)' = Oks(b)
    BY <1>1, <2>1 DEF Sent, Oks
  <2> QED
    BY <1>1, <2>1, <2>2 DEF BulkFits
<1>4. CASE Collect(b)
  <2>1. /\ UNCHANGED <<gpc, err, results, counted>> /\ reply[b].code = "none"
        /\ \A g \in Goroutines(b) : gpc[b][g] = "done"
    BY <1>4 DEF Collect, handlerVars
  <2>2. Sent(b)' = Sent(b) /\ Oks(b)' = Oks(b)
    BY <1>1, <2>1 DEF Sent, Oks
  <2>3. reply'[b].code = "ok" => reply'[b].completed = Cardinality(Oks(b))
    BY <1>4, CollectCounts
  <2> QED
    BY <1>1, <2>1, <2>2, <2>3 DEF BulkFits
<1>5. ASSUME NEW g \in Goroutines(b), GoComplete(b, g) \/ GoExpires(b, g)
      PROVE  BulkFits(b)'
  <2>1. /\ gpc[b][g] = "complete" /\ gpc'[b][g] = "send"
        /\ \A h \in Goroutines(b) \ {g} : gpc'[b][h] = gpc[b][h] /\ err'[b][h] = err[b][h]
        /\ UNCHANGED <<results, reply, counted>>
    BY <1>5 DEF GoComplete, GoExpires, TypeOK, handlerVars
  <2>2. Sent(b)' = Sent(b) /\ Oks(b)' = Oks(b)
    BY <1>1, <2>1 DEF Sent, Oks
  <2>3. reply[b].code = "none"
    BY <2>1 DEF BulkFits
  <2> QED
    BY <1>1, <2>1, <2>2, <2>3 DEF BulkFits
<1>6. ASSUME NEW g \in Goroutines(b), GoSend(b, g)
      PROVE  BulkFits(b)'
  <2>1. gpc[b][g] = "send" /\ UNCHANGED <<reply, counted>>
    BY <1>6 DEF GoSend, handlerVars
  <2>2. reply[b].code = "none"
    BY <2>1 DEF BulkFits
  <2>3. Cardinality(Oks(b)') = Cardinality(Sent(b)')
    BY <1>6, SendCounts DEF BulkFits
  <2>4. Cardinality(Oks(b))' = Cardinality(Sent(b))'
    BY <2>3
  <2> QED
    BY <2>1, <2>2, <2>4 DEF BulkFits
<1> QED
  BY <1>2, <1>3, <1>4, <1>5, <1>6, BulkStep

BulksFit == \A b \in Bulk : BulkFits(b)

\* Every bulk fits its goroutines in every reachable state.
THEOREM BulksFitAlways == Spec => [](SInv /\ BulksFit)
<1>1. Init => BulksFit
  <2> SUFFICES ASSUME Init, NEW b \in Bulk PROVE BulkFits(b)
    BY DEF BulksFit
  <2>1. Sent(b) = {} /\ Oks(b) = {}
    BY DEF Init, Sent, Oks, Goroutines
  <2>2. reply[b].code = "none" /\ counted[b] = FALSE
    BY DEF Init
  <2> QED
    BY <2>1, <2>2 DEF BulkFits
<1>2. SInv /\ BulksFit /\ [Next]_vars => BulksFit'
  BY StepFitsBulk DEF SInv, BulksFit
<1> QED
  BY <1>1, <1>2, SInvAlways, PTL DEF Spec

\* What BulkComplete reports without an error is the number of its goroutines
\* that ended a session, whatever the order of their results in the channel.
THEOREM SuccessCounted == Spec => []SuccessCountsCompleted
<1>1. BulksFit => SuccessCountsCompleted
  <2> SUFFICES ASSUME BulksFit, NEW b \in Bulk, reply[b].code = "ok"
               PROVE  reply[b].completed =
                        Cardinality({g \in Goroutines(b) : err[b][g] = "ok"})
    BY DEF SuccessCountsCompleted
  <2>1. Sent(b) = {g \in Goroutines(b) : err[b][g] = "ok"}
    BY DEF BulksFit, BulkFits, Sent
  <2> QED
    BY <2>1 DEF BulksFit, BulkFits
<1> QED
  BY <1>1, BulksFitAlways, PTL

-----------------------------------------------------------------------------
(***************************************************************************)
(* The channel of a bulk.                                                  *)
(***************************************************************************)

\* The goroutines that have sent, whatever they sent: each result is of one.
Senders(b) == {g \in Goroutines(b) : gpc[b][g] = "done"}
ChannelFits == \A b \in Bulk : Len(results[b]) = Cardinality(Senders(b))

LEMMA SendersAreFinite ==
  ASSUME TypeOK, NEW b \in Bulk
  PROVE  /\ Senders(b) \in SUBSET Goroutines(b) /\ IsFiniteSet(Goroutines(b))
         /\ Cardinality(Goroutines(b)) = ChannelCapacity(b)
         /\ IsFiniteSet(Senders(b)) /\ Cardinality(Senders(b)) \in Nat
<1>1. ids[b] \in Seq(Nat \ {0})
  BY SessionAssumption DEF TypeOK
<1>2. Len(ids[b]) \in Nat /\ Goroutines(b) = 1..Len(ids[b])
  BY <1>1 DEF Goroutines
<1>3. IsFiniteSet(Goroutines(b)) /\ Cardinality(Goroutines(b)) = Len(ids[b])
  BY <1>2, FS_Interval
<1>4. Senders(b) \in SUBSET Goroutines(b)
  BY DEF Senders
<1> QED
  BY <1>3, <1>4, FS_Subset, FS_CardinalityType DEF ChannelCapacity

LEMMA StepFitsChannel ==
  ASSUME TypeOK, [Next]_vars, NEW b \in Bulk, Len(results[b]) = Cardinality(Senders(b))
  PROVE  Len(results'[b]) = Cardinality(Senders(b)')
<1>1. ids' = ids /\ Goroutines(b)' = Goroutines(b)
  BY BulkStep DEF Goroutines
<1>2. ASSUME NEW g \in Goroutines(b), GoSend(b, g)
      PROVE  Len(results'[b]) = Cardinality(Senders(b)')
  <2>1. /\ results[b] \in Seq(Codes) /\ err[b][g] \in Codes /\ gpc[b][g] = "send"
        /\ results'[b] = Append(results[b], err[b][g])
    BY <1>2 DEF TypeOK, GoSend
  <2>2. gpc'[b][g] = "done" /\ \A h \in Goroutines(b) \ {g} : gpc'[b][h] = gpc[b][h]
    BY <1>2 DEF GoSend, TypeOK
  <2>3. Senders(b)' = Senders(b) \cup {g} /\ g \notin Senders(b)
    BY <1>1, <2>1, <2>2 DEF Senders
  <2>4. Cardinality(Senders(b)') = Cardinality(Senders(b)) + 1
    BY <2>3, SendersAreFinite, FS_AddElement
  <2> QED
    BY <2>1, <2>4
<1>3. CASE \A g \in Goroutines(b) : ~GoSend(b, g)
  <2>1. results'[b] = results[b]
        /\ \A h \in Goroutines(b) : gpc'[b][h] = "done" <=> gpc[b][h] = "done"
    <3>1. ASSUME NEW g \in Goroutines(b), GoComplete(b, g) \/ GoExpires(b, g)
          PROVE  results'[b] = results[b]
                 /\ \A h \in Goroutines(b) : gpc'[b][h] = "done" <=> gpc[b][h] = "done"
      BY <3>1 DEF GoComplete, GoExpires, TypeOK
    <3>2. CASE Collect(b) \/ CountBulk(b)
      BY <3>2 DEF Collect, CountBulk, bulkVars
    <3> QED
      BY <1>3, <3>1, <3>2, BulkStep
  <2>2. Senders(b)' = Senders(b)
    BY <1>1, <2>1 DEF Senders
  <2> QED
    BY <2>1, <2>2
<1> QED
  BY <1>2, <1>3

\* BulkComplete waits for all goroutines before it reads what they sent, and yet
\* none of them waits for it, for lists of any length and with repeated ids.
THEOREM NoSenderWaits == Spec => []SendersNeverWait
<1>1. Init => ChannelFits
  <2> SUFFICES ASSUME Init, NEW b \in Bulk PROVE Len(results[b]) = Cardinality(Senders(b))
    BY DEF ChannelFits
  <2>1. Senders(b) = {} /\ results[b] = <<>>
    BY DEF Init, Senders, Goroutines
  <2> QED
    BY <2>1, FS_EmptySet
<1>2. SInv /\ ChannelFits /\ [Next]_vars => ChannelFits'
  BY StepFitsChannel DEF SInv, ChannelFits
<1>3. SInv /\ ChannelFits => SendersNeverWait
  <2> SUFFICES ASSUME SInv, ChannelFits, NEW b \in Bulk, NEW g \in Goroutines(b),
                      gpc[b][g] # "done"
               PROVE  Len(results[b]) < ChannelCapacity(b)
    BY DEF SendersNeverWait
  <2>1. /\ Senders(b) \in SUBSET Goroutines(b) /\ IsFiniteSet(Goroutines(b))
        /\ Cardinality(Goroutines(b)) = ChannelCapacity(b)
        /\ Cardinality(Senders(b)) \in Nat
    BY SendersAreFinite DEF SInv
  <2>2. Senders(b) # Goroutines(b)
    BY DEF Senders
  <2>3. /\ Cardinality(Senders(b)) <= ChannelCapacity(b)
        /\ Cardinality(Senders(b)) # ChannelCapacity(b)
    BY <2>1, <2>2, FS_Subset
  <2>4. ChannelCapacity(b) \in Nat
    BY <2>1, FS_CardinalityType
  <2> QED
    BY <2>1, <2>3, <2>4 DEF ChannelFits
<1> QED
  BY <1>1, <1>2, <1>3, SInvAlways, PTL DEF Spec

-----------------------------------------------------------------------------
(***************************************************************************)
(* What the metrics count.                                                 *)
(***************************************************************************)

\* The window holds the requests that were counted, as long as they fit.
MetricsFit ==
  /\ errors = Cardinality(Empty)
  /\ Requests <= Window => latency = Requests
  /\ Requests > Window => latency = Window

\* One more request is one more latency.
LEMMA WindowStep ==
  ASSUME NEW failed, Record(failed), NEW n \in Nat, latency \in 0..Window,
         n <= Window => latency = n,
         n > Window => latency = Window
  PROVE  /\ n + 1 <= Window => latency' = n + 1
         /\ n + 1 > Window => latency' = Window
BY WindowAssumption DEF Record

LEMMA CountsTyped ==
  ASSUME IsFiniteSet(Bulk), IsFiniteSet(Creation), TypeOK
  PROVE  /\ IsFiniteSet(Ran) /\ Cardinality(Ran) \in Nat
         /\ IsFiniteSet(Empty) /\ Cardinality(Empty) \in Nat
         /\ IsFiniteSet(created) /\ Cardinality(created) \in Nat
         /\ Len(sessions) \in Nat /\ uncounted \in 0..Len(sessions) /\ Requests \in Nat
         /\ latency \in 0..Window /\ errors \in Nat
<1>1. Ran \in SUBSET Bulk /\ Empty \in SUBSET Bulk /\ created \in SUBSET Creation
  BY DEF Ran, Empty, TypeOK
<1>2. /\ IsFiniteSet(Ran) /\ Cardinality(Ran) \in Nat
      /\ IsFiniteSet(Empty) /\ Cardinality(Empty) \in Nat
      /\ IsFiniteSet(created) /\ Cardinality(created) \in Nat
  BY <1>1, FS_Subset, FS_CardinalityType
<1>3. /\ Len(sessions) \in Nat /\ uncounted \in 0..Len(sessions)
      /\ latency \in 0..Window /\ errors \in Nat
  BY DEF TypeOK
<1>4. Requests \in Nat
  BY <1>2, <1>3 DEF Requests
<1> QED
  BY <1>2, <1>3, <1>4

\* The goroutines of a counted bulk have all been told, and no step of another
\* changes what they were told.
LEMMA CountedStays ==
  ASSUME SInv, BulksFit, [Next]_vars, NEW b \in Bulk, counted[b]
  PROVE  counted'[b] /\ err'[b] = err[b] /\ Goroutines(b)' = Goroutines(b)
<1>1. /\ TypeOK /\ reply[b].code = "ok"
      /\ \A g \in Goroutines(b) : gpc[b][g] = "done"
  BY DEF SInv, BulksFit, BulkFits
<1>2. ~CountBulk(b) /\ ~Collect(b)
      /\ \A g \in Goroutines(b) : ~GoComplete(b, g) /\ ~GoExpires(b, g) /\ ~GoSend(b, g)
  BY <1>1 DEF CountBulk, Collect, GoComplete, GoExpires, GoSend
<1>3. ids' = ids /\ err'[b] = err[b] /\ counted'[b] = counted[b]
  BY <1>1, <1>2, BulkStep
<1> QED
  BY <1>3 DEF Goroutines

\* Only CountBulk counts a bulk.
LEMMA OthersCount ==
  ASSUME SInv, BulksFit, [Next]_vars, counted' = counted
  PROVE  Ran' = Ran /\ Empty' = Empty
<1>1. \A b \in Ran : err'[b] = err[b] /\ Goroutines(b)' = Goroutines(b)
  BY CountedStays DEF Ran
<1> QED
  BY <1>1 DEF Ran, Empty

LEMMA StepCounts ==
  ASSUME IsFiniteSet(Bulk), IsFiniteSet(Creation), SInv, BulksFit, MetricsFit, [Next]_vars
  PROVE  MetricsFit'
<1>1. TypeOK /\ TypeOK'
  BY StepTyped DEF SInv
<1>2. /\ Cardinality(Ran) \in Nat /\ Cardinality(Empty) \in Nat
      /\ Cardinality(created) \in Nat
      /\ IsFiniteSet(Ran) /\ IsFiniteSet(Empty) /\ IsFiniteSet(created)
      /\ Len(sessions) \in Nat /\ uncounted \in 0..Len(sessions) /\ Requests \in Nat
      /\ latency \in 0..Window /\ errors \in Nat
  BY <1>1, CountsTyped
<1>3. CASE UNCHANGED <<counted, created, latency, errors>>
           /\ Len(sessions') - uncounted' = Len(sessions) - uncounted
  <2>1. Ran' = Ran /\ Empty' = Empty
    BY <1>3, OthersCount
  <2>2. Requests' = Requests
    BY <1>3, <2>1 DEF Requests
  <2> QED
    BY <1>3, <2>1, <2>2 DEF MetricsFit
<1>4. CASE CountOpen
  <2>1. /\ uncounted > 0 /\ uncounted' = uncounted - 1 /\ Record(FALSE)
        /\ sessions' = sessions /\ counted' = counted /\ created' = created
    BY <1>4 DEF CountOpen, sessionVars
  <2>2. Ran' = Ran /\ Empty' = Empty
    BY <2>1, OthersCount
  <2>3. Requests' = Requests + 1
    BY <1>2, <2>1, <2>2 DEF Requests
  <2>4. errors' = errors
    BY <2>1 DEF Record
  <2>5. /\ Requests + 1 <= Window => latency' = Requests + 1
        /\ Requests + 1 > Window => latency' = Window
    BY <1>2, <2>1, WindowStep DEF MetricsFit
  <2> QED
    BY <2>2, <2>3, <2>4, <2>5 DEF MetricsFit
<1>5. ASSUME NEW b \in Bulk, CountBulk(b) PROVE MetricsFit'
  <2> DEFINE nothing == reply[b].completed = 0
  <2>1. /\ reply[b].code = "ok" /\ b \notin Ran
        /\ Record(nothing)
        /\ UNCHANGED <<sessions, uncounted, created, ids, err>>
    BY <1>5 DEF CountBulk, sessionVars, bulkVars, Ran
  <2>2. Ran' = Ran \cup {b}
    BY <1>1, <1>5 DEF CountBulk, TypeOK, Ran
  <2>3. Cardinality(Ran') = Cardinality(Ran) + 1
    BY <1>2, <2>1, <2>2, FS_AddElement
  <2>4. Cardinality(Ran)' = Cardinality(Ran')
    OBVIOUS
  <2>5. Requests' = Requests + 1
    BY <1>2, <2>1, <2>3, <2>4 DEF Requests
  <2>6. /\ Requests + 1 <= Window => latency' = Requests + 1
        /\ Requests + 1 > Window => latency' = Window
    <3> HIDE DEF nothing
    <3> QED
      BY <1>2, <2>1, WindowStep DEF MetricsFit
  <2>7. nothing <=> \A g \in Goroutines(b) : err[b][g] # "ok"
    <3>1. /\ reply[b].completed = Cardinality(Sent(b))
          /\ \A g \in Goroutines(b) : gpc[b][g] = "done"
      BY <2>1 DEF BulksFit, BulkFits
    <3>2. IsFiniteSet(Sent(b)) /\ (Cardinality(Sent(b)) = 0 <=> Sent(b) = {})
      BY <1>1, SentIsFinite, FS_EmptySet
    <3> QED
      BY <3>1, <3>2 DEF Sent
  <2>8. \A c : Goroutines(c)' = Goroutines(c)
    BY <2>1 DEF Goroutines
  <2>9. errors' = Cardinality(Empty')
    <3>1. CASE nothing
      <4>1. Empty' = Empty \cup {b} /\ b \notin Empty
        BY <2>1, <2>2, <2>7, <2>8, <3>1 DEF Empty
      <4>2. Cardinality(Empty') = Cardinality(Empty) + 1
        BY <1>2, <4>1, FS_AddElement
      <4>3. errors' = errors + 1
        BY <2>1, <3>1 DEF Record
      <4> QED
        BY <4>2, <4>3 DEF MetricsFit
    <3>2. CASE ~nothing
      <4>1. Empty' = Empty
        BY <2>1, <2>2, <2>7, <2>8, <3>2 DEF Empty
      <4>2. errors' = errors
        BY <2>1, <3>2 DEF Record
      <4> QED
        BY <4>1, <4>2 DEF MetricsFit
    <3> QED
      BY <3>1, <3>2
  <2>10. Cardinality(Empty)' = Cardinality(Empty')
    OBVIOUS
  <2> QED
    BY <2>5, <2>6, <2>9, <2>10 DEF MetricsFit
<1>6. ASSUME NEW record \in RecordId, Open(record) PROVE MetricsFit'
  <2>1. /\ uncounted' = uncounted + 1 /\ Len(sessions') = Len(sessions) + 1
        /\ UNCHANGED <<counted, created, latency, errors>>
    BY <1>1, <1>6 DEF Open, metricsVars, TypeOK
  <2>2. Len(sessions') - uncounted' = Len(sessions) - uncounted
    BY <1>2, <2>1
  <2> QED
    BY <1>3, <2>1, <2>2
<1>7. ASSUME NEW n, NEW status \in {"completed", "aborted"}, Ends(n, status)
      PROVE  Len(sessions') = Len(sessions)
  BY <1>1, <1>7, EndsSession DEF Ends, sessionVars
<1>8. ASSUME NEW n \in Held, Abort(n) PROVE MetricsFit'
  <2>1. UNCHANGED <<uncounted, counted, created, latency, errors>> /\ Ends(n, "aborted")
    BY <1>8 DEF Abort, handlerVars, metricsVars
  <2> QED
    BY <1>3, <1>7, <2>1
<1>9. ASSUME NEW b \in Bulk, BulkComplete(b), ~CountBulk(b) PROVE MetricsFit'
  <2>1. UNCHANGED <<uncounted, counted, created, latency, errors>>
    BY <1>9 DEF BulkComplete, GoComplete, GoExpires, GoSend, Collect, handlerVars,
       metricsVars
  <2>2. Len(sessions') = Len(sessions)
    BY <1>7, <1>9 DEF BulkComplete, GoComplete, GoExpires, GoSend, Collect, sessionVars
  <2> QED
    BY <1>3, <2>1, <2>2
<1>10. CASE UNCHANGED vars
  BY <1>3, <1>10 DEF vars, sessionVars, handlerVars, metricsVars
<1>11. ASSUME NEW c \in Creation, CountCreate(c) PROVE MetricsFit'
  <2>1. /\ c \notin created /\ created' = created \cup {c} /\ Record(FALSE)
        /\ UNCHANGED <<sessions, uncounted, counted>>
    BY <1>11 DEF CountCreate, sessionVars
  <2>2. Ran' = Ran /\ Empty' = Empty
    BY <2>1, OthersCount
  <2>3. Cardinality(created') = Cardinality(created) + 1
    BY <1>2, <2>1, FS_AddElement
  <2>4. Requests' = Requests + 1
    BY <1>2, <2>1, <2>2, <2>3 DEF Requests
  <2>5. errors' = errors
    BY <2>1 DEF Record
  <2>6. /\ Requests + 1 <= Window => latency' = Requests + 1
        /\ Requests + 1 > Window => latency' = Window
    BY <1>2, <2>1, WindowStep DEF MetricsFit
  <2> QED
    BY <2>2, <2>4, <2>5, <2>6 DEF MetricsFit
<1> QED
  BY <1>4, <1>5, <1>6, <1>8, <1>9, <1>10, <1>11 DEF Next, OpenRefused

\* In whatever order OpsMetrics is called, the requests it shows are all that
\* were counted, up to a full window, and until it is full the errors are the
\* counted bulks that completed nothing.
THEOREM RequestsCounted ==
  ASSUME IsFiniteSet(Bulk), IsFiniteSet(Creation)
  PROVE  Spec => []MetricsCountRequests
<1>1. Init => MetricsFit
  <2> SUFFICES ASSUME Init PROVE MetricsFit
    OBVIOUS
  <2>1. Ran = {} /\ Empty = {} /\ created = {}
    BY DEF Init, Ran, Empty
  <2>2. Cardinality({}) = 0
    BY FS_EmptySet
  <2>3. Requests = 0
    BY <2>1, <2>2 DEF Requests, Init
  <2> QED
    BY <2>1, <2>2, <2>3, WindowAssumption DEF MetricsFit, Init, MetricsInit
<1>2. SInv /\ BulksFit /\ MetricsFit /\ [Next]_vars => MetricsFit'
  BY StepCounts
<1>3. SInv /\ MetricsFit => MetricsCountRequests
  BY CountsTyped, WindowAssumption DEF SInv, MetricsFit, MetricsCountRequests, Snapshot
<1> QED
  BY <1>1, <1>2, <1>3, BulksFitAlways, PTL DEF Spec

=============================================================================
