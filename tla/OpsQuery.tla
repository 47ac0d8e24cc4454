------------------------------- MODULE OpsQuery -------------------------------
(***************************************************************************)
(* OpsService.Search behind GET /api/ops/records, and a client that walks  *)
(* through its pages while records are written.  Each page is one request  *)
(* with one List of the store; pages are cut from a list that is sorted    *)
(* anew each time.                                                         *)
(***************************************************************************)
EXTENDS Integers, FiniteSets, SequencesExt

CONSTANTS
  Id,            \* record ids: numbers, in the order that List sorts by
  Nothing,       \* no record
  Draft,         \* what creations carry: subject, owner, priority, status
  NewStatus,     \* statuses that transitions move to
  Query,         \* filters of a walk; "" (or {}) filters nothing
  PageSize,      \* page_size values that clients send
  DefaultSize,   \* page size if the client sends none (25)
  MaxSize,       \* the largest page size (200)
  ExportSize,    \* lines of a work sheet if the client sends no limit (500)
  Digit,         \* base of the digits of a second's fraction (10), two of them
  MaxWrites      \* bound: writes to the store

ASSUME QueryAssumption ==
  /\ Id \subseteq Nat /\ IsFiniteSet(Id)
  /\ Draft \subseteq [subject : SUBSET STRING, owner : STRING, priority : STRING, status : STRING]
  /\ NewStatus \subseteq STRING
  /\ Nothing \notin [subject : SUBSET STRING, owner : STRING, priority : STRING,
                     status : STRING, updated : Nat]
  /\ PageSize \subseteq Int
  /\ {DefaultSize, MaxSize, ExportSize} \subseteq Nat \ {0} /\ DefaultSize <= MaxSize
  /\ Digit \in Nat \ {0}
  /\ MaxWrites \in Nat

VARIABLES
  live,     \* id -> a draft with the instant it was stamped with
  clock,    \* the instant of the last write
  walk,     \* the client: its query, next page, and the ids it was shown
  quiet,    \* nothing was written since the walk began
  kept,     \* what matched when the walk began and was not written since
  left,     \* a match of the walk's query has left the list since
  moved     \* the seconds in which one has been moved in the list since

walkVars == <<walk, quiet, kept, left, moved>>
queryVars == <<live, clock, walkVars>>

-----------------------------------------------------------------------------
(***************************************************************************)
(* Search.                                                                 *)
(***************************************************************************)

Weight(priority) ==
  CASE priority = "critical" -> 4 [] priority = "high" -> 3
    [] priority = "normal" -> 2   [] OTHER -> 1

\* The second of an instant, and the digits of its fraction in the text of its
\* stamp.  RFC 3339 leaves trailing zeros out, and sorts the "Z" that stands in
\* their place after every digit.
Fraction == Digit * Digit
Second(t) == t \div Fraction
FirstDigit(t)  == IF t % Fraction = 0 THEN Digit ELSE (t % Fraction) \div Digit
SecondDigit(t) == IF t % Digit = 0 THEN Digit ELSE t % Digit

\* The text of t is greater than that of u.
TextAfter(t, u) ==
  \/ Second(t) > Second(u)
  \/ Second(t) = Second(u) /\ FirstDigit(t) > FirstDigit(u)
  \/ /\ Second(t) = Second(u) /\ FirstDigit(t) = FirstDigit(u)
     /\ SecondDigit(t) > SecondDigit(u)

\* A subject is the set of what it contains.
opsMatch(record, query) ==
  /\ query.subject \subseteq record.subject
  /\ query.status \in {"", record.status}
  /\ query.priority \in {"", record.priority}
  /\ query.owner \in {"", record.owner}

Matching(query) == {i \in Id : live[i] # Nothing /\ opsMatch(live[i], query)}

\* Mutant of Before: of equally urgent records the oldest comes first.
MutantOldestFirst(i, j) ==
  LET wi == Weight(live[i].priority)
      wj == Weight(live[j].priority)
      ti == live[i].updated
      tj == live[j].updated
  IN \/ wi > wj
     \/ wi = wj /\ TextAfter(tj, ti)
     \/ wi = wj /\ ~TextAfter(ti, tj) /\ ~TextAfter(tj, ti) /\ i < j

\* sortOpsRecords, stable on a list that is sorted by id.
Before(i, j) ==
  LET wi == Weight(live[i].priority)
      wj == Weight(live[j].priority)
      ti == live[i].updated
      tj == live[j].updated
  IN \/ wi > wj
     \/ wi = wj /\ TextAfter(ti, tj)
     \/ wi = wj /\ ~TextAfter(ti, tj) /\ ~TextAfter(tj, ti) /\ i < j

\* The pairs of ids of S of which the first comes before the second.
Earlier(S) == {p \in S \X S : Before(p[1], p[2])}

\* What sorting makes of S, given such pairs.
Sorted(S, R) ==
  CHOOSE list \in [1..Cardinality(S) -> S] :
    \A j, k \in 1..Cardinality(S) : j < k => <<list[j], list[k]>> \in R

opsQueryDefaults(page, size) ==
  [ page |-> IF page < 1 THEN 1 ELSE page,
    size |-> IF size < 1 THEN DefaultSize ELSE IF size > MaxSize THEN MaxSize ELSE size ]

Least(a, b) == IF a < b THEN a ELSE b

\* Mutant of opsBounds: the page starts one record late.
MutantBoundsSkip(total, page, size) ==
  LET q == opsQueryDefaults(page, size)
      start == Least(q.page * q.size - q.size + 1, total)
  IN [start |-> start, end |-> Least(start + q.size, total)]

\* First and last + 1, counted from zero.  A walk's pages are far below the
\* ones whose product overflows.
opsBounds(total, page, size) ==
  LET q == opsQueryDefaults(page, size)
      start == Least((q.page - 1) * q.size, total)
  IN [start |-> start, end |-> Least(start + q.size, total)]

\* What pages are cut from.
Found(query) == Sorted(Matching(query), Earlier(Matching(query)))

Search(query, page, size) ==
  LET found == Found(query)
      q == opsQueryDefaults(page, size)
      bounds == opsBounds(Len(found), q.page, q.size)
  IN [ items   |-> SubSeq(found, bounds.start + 1, bounds.end),
       page    |-> q.page,
       hasNext |-> bounds.end < Len(found) ]

\* OpsExportService: the records of a status, by id, cut off at the limit.
Sheet(status) ==
  LET S == {i \in Id : live[i] # Nothing /\ status \in {"", live[i].status}}
  IN Sorted(S, {p \in S \X S : p[1] < p[2]})

Export(status, limit) ==
  LET size == IF limit < 1 THEN ExportSize ELSE limit
  IN SubSeq(Sheet(status), 1, Least(size, Len(Sheet(status))))

-----------------------------------------------------------------------------
(***************************************************************************)
(* The client.                                                             *)
(***************************************************************************)

NoWalk == [at |-> "idle"]

WalkBegins ==
  /\ walk.at # "walking"
  /\ \E query \in Query, size \in PageSize :
       /\ walk' = [at |-> "walking", query |-> query, size |-> size, page |-> 0, shown |-> <<>>]
       /\ kept' = Matching(query)
  /\ quiet' = TRUE /\ left' = FALSE /\ moved' = {}
  /\ UNCHANGED <<live, clock>>

\* The client names no page first, then the one after the page it was given.
WalkGoesOn ==
  /\ walk.at = "walking"
  /\ LET answer == Search(walk.query, walk.page, walk.size)
     IN walk' = [walk EXCEPT !.shown = @ \o answer.items, !.page = answer.page + 1,
                             !.at = IF answer.hasNext THEN "walking" ELSE "done"]
  /\ UNCHANGED <<live, clock, quiet, kept, left, moved>>

-----------------------------------------------------------------------------
(***************************************************************************)
(* Writes: what the handlers of OpsService and OpsArchive do to the store. *)
(***************************************************************************)

Stamped(draft, t) ==
  [subject |-> draft.subject, owner |-> draft.owner, priority |-> draft.priority,
   status |-> draft.status, updated |-> t]

\* A record of the list that the client walks through is written.
Listed(i) == walk.at = "walking" /\ i \in Matching(walk.query)

Store(i, record) ==
  /\ clock < MaxWrites + Cardinality(Id) - 1
  /\ clock' = clock + 1
  /\ live' = [live EXCEPT ![i] = record]
  /\ UNCHANGED walk
  /\ quiet' = FALSE
  /\ kept' = kept \ {i}
  /\ left' = (left \/ (Listed(i) /\ ~Listed(i)'))
  /\ moved' = IF Listed(i) /\ Listed(i)' THEN moved \cup {Second(clock')} ELSE moved

\* Create stamps its record before it asks for the store's lock; any number of
\* writes may come in between.
Created(i) ==
  /\ live[i] = Nothing
  /\ \E draft \in Draft, t \in 0..(clock + 1) : Store(i, Stamped(draft, t))

Moved(i) ==
  /\ live[i] # Nothing
  /\ \E status \in NewStatus :
       Store(i, [live[i] EXCEPT !.status = status, !.updated = clock + 1])

Archived(i) == live[i] # Nothing /\ Store(i, Nothing)

-----------------------------------------------------------------------------

\* The records that earlier creations left, stamped one after the other.
QueryInit ==
  /\ live \in [Id -> {Nothing} \cup {Stamped(draft, t) :
                                      draft \in Draft, t \in 0..(Cardinality(Id) - 1)}]
  /\ \A i, j \in Id : live[i] # Nothing /\ live[j] # Nothing /\ i # j =>
       live[i].updated # live[j].updated
  /\ clock = Cardinality(Id) - 1
  /\ walk = NoWalk /\ quiet = TRUE /\ kept = {} /\ left = FALSE /\ moved = {}

QueryNext ==
  \/ WalkBegins \/ WalkGoesOn
  \/ \E i \in Id : Created(i) \/ Moved(i) \/ Archived(i)

-----------------------------------------------------------------------------

\* A client that walks from page to page while nothing is written is shown
\* every match once, whatever size it asked for, the urgent ones first, and
\* of equally urgent ones those that were written seconds later first (within
\* a second the stamps' texts need not tell).  The work sheet of a status names
\* the same records, as long as they fit on it.
QuietWalkListsMatches ==
  walk.at = "done" /\ quiet =>
    /\ ToSet(walk.shown) = Matching(walk.query)
    /\ walk.query = [subject |-> {}, owner |-> "", priority |-> "", status |-> walk.query.status]
         => LET sheet == Export(walk.query.status, 0)
            IN ToSet(sheet) = ToSet(walk.shown) \/ Len(sheet) = ExportSize
    /\ \A j, k \in DOMAIN walk.shown : j < k =>
         LET a == live[walk.shown[j]]
             b == live[walk.shown[k]]
         IN /\ walk.shown[j] # walk.shown[k]
            /\ Weight(a.priority) >= Weight(b.priority)
            /\ Weight(a.priority) = Weight(b.priority) => Second(a.updated) >= Second(b.updated)

\* Writes between two pages move records from page to page.  A walk may show
\* one twice, but misses a record that was there all the time only if another
\* match left the list, by a transition or to the archive, or was moved within
\* the second that the missed record was stamped in: there a later stamp can
\* have the lesser text, and the match falls back behind the record.
WalkMissesOnlyAfterLeaving ==
  walk.at = "done" /\ ~left =>
    \A i \in kept : i \in ToSet(walk.shown) \/ Second(live[i].updated) \in moved

=============================================================================
