------------------------------ MODULE OpsSessions ------------------------------
(***************************************************************************)
(* OpsSessionManager: on-site conservation sessions.  Open, Complete and   *)
(* Abort hold the manager's lock for their whole body.  BulkComplete runs  *)
(* one goroutine per id, each of which completes its session and then puts *)
(* its result into a channel that BulkComplete reads when all are done:    *)
(*                                                                         *)
(*   goroutine   complete -> send -> done                                  *)
(*   bulk        run ---------- (all done) ---------> done                 *)
(*                                                                         *)
(* The handlers of requests that succeeded count them in OpsMetrics, under *)
(* its own lock, before they answer, as does the one that creates records. *)
(***************************************************************************)
EXTENDS OpsMetrics, Sequences, FiniteSets

CONSTANTS
  RecordId,   \* record ids that sessions are opened for; the id is not checked
  Capacity,   \* sessions the manager holds (50 in newOpsApp)
  Bulk,       \* requests to POST /api/ops/sessions/complete
  Creation,   \* requests to POST /api/ops/records that create their record
  IdList      \* the lists of session ids they carry

ASSUME SessionAssumption ==
  /\ Capacity \in Nat \ {0}
  /\ IdList \subseteq Seq(Nat \ {0})

VARIABLES
  sessions,   \* OpsSessionManager.sessions: session n is sessions[n]
  byRecord,   \* OpsSessionManager.byRecord: record id -> its session, or 0
  ids,        \* the list each bulk carries; never changes
  gpc,        \* what each goroutine of each bulk does next
  err,        \* what Complete gave each goroutine
  results,    \* the channel of each bulk
  reply,      \* what each bulk returned
  uncounted,  \* sessions whose openSession is about to call OpsMetrics.Record
  counted,    \* bulks whose completeSessions has called it
  created     \* creations whose createRecord has called it

sessionVars == <<sessions, byRecord>>
bulkVars == <<ids, gpc, err, results, reply>>
handlerVars == <<uncounted, counted, created, metricsVars>>
vars == <<sessionVars, bulkVars, handlerVars>>

-----------------------------------------------------------------------------

Held == DOMAIN sessions
IsOpen(n) == n \in Held /\ sessions[n].status = "open"

\* Mutant of Open: one session too many.
MutantOpenOneMore(record) ==
  /\ Len(sessions) <= Capacity
  /\ byRecord[record] = 0
  /\ sessions' = Append(sessions, [record |-> record, status |-> "open"])
  /\ byRecord' = [byRecord EXCEPT ![record] = Len(sessions) + 1]
  /\ uncounted' = uncounted + 1
  /\ UNCHANGED <<bulkVars, counted, created, metricsVars>>

\* Session ids count up, and no session is ever taken out of the map: the next
\* id is one more than the number of sessions.
Open(record) ==
  /\ Len(sessions) < Capacity
  /\ byRecord[record] = 0
  /\ sessions' = Append(sessions, [record |-> record, status |-> "open"])
  /\ byRecord' = [byRecord EXCEPT ![record] = Len(sessions) + 1]
  /\ uncounted' = uncounted + 1
  /\ UNCHANGED <<bulkVars, counted, created, metricsVars>>

\* openSession counts the session it opened.
CountOpen ==
  /\ uncounted > 0
  /\ uncounted' = uncounted - 1
  /\ Record(FALSE)
  /\ UNCHANGED <<sessionVars, bulkVars, counted, created>>

\* createRecord counts the record it created; OpsService has what it did before.
CountCreate(c) ==
  /\ c \notin created
  /\ created' = created \cup {c}
  /\ Record(FALSE)
  /\ UNCHANGED <<sessionVars, bulkVars, uncounted, counted>>

\* The manager is full or the record has a session: nothing happens.  The same
\* goes for a request without record or owner.
OpenRefused(record) ==
  /\ Len(sessions) >= Capacity \/ byRecord[record] # 0
  /\ UNCHANGED vars

\* Mutant of CompleteError: a session that has ended is completed again.
MutantCompleteAgain(n) == IF n \notin Held THEN "not_found" ELSE "ok"

CompleteError(n) ==
  IF n \notin Held THEN "not_found" ELSE IF IsOpen(n) THEN "ok" ELSE "transition"

\* Mutant of Ends: the session's status is not looked at.
MutantEndsAgain(n, status) ==
  IF n \in Held
    THEN /\ sessions' = [sessions EXCEPT ![n].status = status]
         /\ byRecord' = [byRecord EXCEPT ![sessions[n].record] = 0]
    ELSE UNCHANGED sessionVars

\* An open session takes a final status and frees its record.
Ends(n, status) ==
  IF IsOpen(n)
    THEN /\ sessions' = [sessions EXCEPT ![n].status = status]
         /\ byRecord' = [byRecord EXCEPT ![sessions[n].record] = 0]
    ELSE UNCHANGED sessionVars

\* Abort, for which there is no route yet.
Abort(n) == Ends(n, "aborted") /\ UNCHANGED <<bulkVars, handlerVars>>

-----------------------------------------------------------------------------
(***************************************************************************)
(* BulkComplete.                                                           *)
(***************************************************************************)

Goroutines(b) == DOMAIN ids[b]

GoComplete(b, g) ==
  /\ gpc[b][g] = "complete"
  /\ Ends(ids[b][g], "completed")
  /\ err' = [err EXCEPT ![b][g] = CompleteError(ids[b][g])]
  /\ gpc' = [gpc EXCEPT ![b][g] = "send"]
  /\ UNCHANGED <<ids, results, reply, handlerVars>>

\* The client is gone before the goroutine ran: it completes nothing.
GoExpires(b, g) ==
  /\ gpc[b][g] = "complete"
  /\ err' = [err EXCEPT ![b][g] = "internal"]
  /\ gpc' = [gpc EXCEPT ![b][g] = "send"]
  /\ UNCHANGED <<sessionVars, ids, results, reply, handlerVars>>

\* Mutant of ChannelCapacity: an unbuffered channel, which no one reads before
\* all goroutines are done.
MutantUnbuffered(b) == 0

\* Mutant of ChannelCapacity: room for a result of each session, not of each id.
MutantBySession(b) == Cardinality({ids[b][g] : g \in Goroutines(b)})

\* The channel has room for every result.
ChannelCapacity(b) == Len(ids[b])

GoSend(b, g) ==
  /\ gpc[b][g] = "send"
  /\ Len(results[b]) < ChannelCapacity(b)
  /\ results' = [results EXCEPT ![b] = Append(@, err[b][g])]
  /\ gpc' = [gpc EXCEPT ![b][g] = "done"]
  /\ UNCHANGED <<sessionVars, ids, err, reply, handlerVars>>

Failures(b) == {k \in DOMAIN results[b] : results[b][k] \notin {"ok", "not_found"}}

Successes(b, last) == Cardinality({k \in 1..last : results[b][k] = "ok"})

\* Mutant of Collect: an id that is not found counts as completed.
MutantCollectNotFound(b) ==
  /\ reply[b].code = "none"
  /\ \A g \in Goroutines(b) : gpc[b][g] = "done"
  /\ reply' = [reply EXCEPT ![b] =
       IF Failures(b) = {}
         THEN [code |-> "ok", completed |-> Len(results[b])]
         ELSE LET first == CHOOSE k \in Failures(b) : \A j \in Failures(b) : k <= j
              IN [code |-> results[b][first], completed |-> Successes(b, first)]]
  /\ UNCHANGED <<sessionVars, ids, gpc, err, results, handlerVars>>

\* After Wait, the results are counted in the order they were sent, up to the
\* first that is neither a success nor a missing session.
Collect(b) ==
  /\ reply[b].code = "none"
  /\ \A g \in Goroutines(b) : gpc[b][g] = "done"
  /\ reply' = [reply EXCEPT ![b] =
       IF Failures(b) = {}
         THEN [code |-> "ok", completed |-> Successes(b, Len(results[b]))]
         ELSE LET first == CHOOSE k \in Failures(b) : \A j \in Failures(b) : k <= j
              IN [code |-> results[b][first], completed |-> Successes(b, first)]]
  /\ UNCHANGED <<sessionVars, ids, gpc, err, results, handlerVars>>

\* Mutant of CountBulk: a bulk that completed less than it was asked to failed.
MutantCountPartly(b) ==
  /\ reply[b].code = "ok" /\ ~counted[b]
  /\ counted' = [counted EXCEPT ![b] = TRUE]
  /\ Record(reply[b].completed < Len(ids[b]))
  /\ UNCHANGED <<sessionVars, bulkVars, uncounted, created>>

\* completeSessions counts a bulk that ended without an error; one that
\* completed nothing has failed.
CountBulk(b) ==
  /\ reply[b].code = "ok" /\ ~counted[b]
  /\ counted' = [counted EXCEPT ![b] = TRUE]
  /\ Record(reply[b].completed = 0)
  /\ UNCHANGED <<sessionVars, bulkVars, uncounted, created>>

-----------------------------------------------------------------------------

Init ==
  /\ sessions = <<>>
  /\ byRecord = [r \in RecordId |-> 0]
  /\ ids \in [Bulk -> IdList]
  /\ gpc = [b \in Bulk |-> [g \in DOMAIN ids[b] |-> "complete"]]
  /\ err = [b \in Bulk |-> [g \in DOMAIN ids[b] |-> "none"]]
  /\ results = [b \in Bulk |-> <<>>]
  /\ reply = [b \in Bulk |-> [code |-> "none", completed |-> 0]]
  /\ uncounted = 0
  /\ counted = [b \in Bulk |-> FALSE] /\ created = {}
  /\ MetricsInit

BulkComplete(b) ==
  \/ \E g \in Goroutines(b) : GoComplete(b, g) \/ GoExpires(b, g) \/ GoSend(b, g)
  \/ Collect(b) \/ CountBulk(b)

Next ==
  \/ \E r \in RecordId : Open(r) \/ OpenRefused(r)
  \/ CountOpen \/ \E c \in Creation : CountCreate(c)
  \/ \E n \in Held : Abort(n)
  \/ \E b \in Bulk : BulkComplete(b)

Spec == Init /\ [][Next]_vars

\* A goroutine that can run does run.
Fairness == \A b \in Bulk : WF_vars(BulkComplete(b))

FairSpec == Spec /\ Fairness

-----------------------------------------------------------------------------
(***************************************************************************)
(* Properties.                                                             *)
(***************************************************************************)

Codes == {"none", "ok", "not_found", "transition", "internal"}

TypeOK ==
  /\ sessions \in Seq([record : RecordId, status : {"open", "completed", "aborted"}])
  /\ Len(sessions) <= Capacity
  /\ byRecord \in [RecordId -> 0..Len(sessions)]
  /\ ids \in [Bulk -> IdList]
  /\ DOMAIN gpc = Bulk /\ DOMAIN err = Bulk
  /\ \A b \in Bulk : /\ gpc[b] \in [Goroutines(b) -> {"complete", "send", "done"}]
                     /\ err[b] \in [Goroutines(b) -> Codes]
  /\ results \in [Bulk -> Seq(Codes)]
  /\ reply \in [Bulk -> [code : Codes, completed : Nat]]
  /\ uncounted \in 0..Len(sessions)
  /\ counted \in [Bulk -> BOOLEAN] /\ created \subseteq Creation
  /\ latency \in 0..Window /\ errors \in Nat

\* A record has at most one open session, and the manager knows it: a session
\* is open exactly while byRecord leads to it.  A late or repeated completion
\* of a record's earlier session does not free the record for a third.
OpenSessionsAreKnown ==
  \A n \in Held : IsOpen(n) <=> byRecord[sessions[n].record] = n

\* Every goroutine that a bulk may run.
Callers == Bulk \X UNION {DOMAIN list : list \in IdList}

\* The goroutines that were told that they completed session n.
Completers(n) ==
  {c \in Callers : /\ c[2] \in Goroutines(c[1])
                   /\ ids[c[1]][c[2]] = n /\ err[c[1]][c[2]] = "ok"}

Contract == INSTANCE SessionLedger WITH
  Caller <- Callers,
  held   <- [n \in Held |-> [record |-> sessions[n].record,
                             status |-> sessions[n].status,
                             by     |-> Completers(n)]]

\* Completions race each other, inside one bulk and between bulks, and aborts;
\* yet a record has one open session at most, every session ends once, and of
\* all goroutines only the one that ended it is told so.
RefinesContract == Contract!Spec

\* A bulk that ends without an error names the number of sessions it completed,
\* whatever the order in which its goroutines' results came.
SuccessCountsCompleted ==
  \A b \in Bulk : reply[b].code = "ok" =>
    reply[b].completed = Cardinality({g \in Goroutines(b) : err[b][g] = "ok"})

\* The bulks that were counted, those of them that completed nothing, and the
\* number of all requests that were counted.
Ran == {b \in Bulk : counted[b]}
Empty == {b \in Ran : \A g \in Goroutines(b) : err[b][g] # "ok"}
Requests == Len(sessions) - uncounted + Cardinality(created) + Cardinality(Ran)

\* Whatever the order in which handlers count, the requests are all that were
\* counted, up to a full window.  As long as it has dropped none, the errors are
\* the bulks that completed no session: not those that met an ended session,
\* although they were answered with an error, and none that completed some.
MetricsCountRequests ==
  /\ Snapshot.requests = IF Requests < Window THEN Requests ELSE Window
  /\ Requests <= Window => Snapshot.errors = Cardinality(Empty)

\* A goroutine never waits to send, although nothing is read from the channel
\* before all have sent: the channel takes a result of each, also when two ids
\* of the list are the same and when the client is gone.
SendersNeverWait ==
  \A b \in Bulk : \A g \in Goroutines(b) :
    gpc[b][g] # "done" => Len(results[b]) < ChannelCapacity(b)

\* Every bulk is answered: no goroutine is left waiting to send its result.
EveryBulkAnswered == \A b \in Bulk : <>(reply[b].code # "none")

\* BulkComplete "reports how many sessions were completed"
\* (ops_sessions.go:114), also when it ends with an error.
ReplyCountsCompleted ==
  \A b \in Bulk : reply[b].code # "none" =>
    reply[b].completed = Cardinality({g \in Goroutines(b) : err[b][g] = "ok"})

\* OpsMetrics is "a rolling window of recent request latencies and counts",
\* "bounded so old samples are dropped" (ops_metrics.go:16-17): the errors are
\* among the requests in the window.
ErrorsAreInWindow == Snapshot.errors <= Snapshot.requests

=============================================================================
