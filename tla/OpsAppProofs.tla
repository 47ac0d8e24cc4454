----------------------------- MODULE OpsAppProofs -----------------------------
(***************************************************************************)
(* Proofs about OpsApp, for any tabs, other clients and bounds.            *)
(*                                                                         *)
(* PagesFit, the inductive invariant, follows a treatment from the store   *)
(* to the page: the answer of a post, what the tab has noted of it, the    *)
(* answer of the last list the tab asked for, and the rows it shows.       *)
(***************************************************************************)
EXTENDS OpsApp, SequenceTheorems, TLAPS

\* What the store knows of an artifact, and what a page is answered.
Exhibit == [status : artifactStatuses, changes : Nat]
Given == {NoAnswer} \cup Nat \cup [Artifact -> Exhibit]
Fetch == [load : Nat, id : Artifact \cup {"all"}, answer : Given]

\* The nth update of an artifact made it a treatment, for all one can tell: it
\* is behind the store's state of the artifact, or is that state.
Treated(state, n) ==
  /\ state.changes >= n
  /\ state.changes = n /\ n > 0 => state.status = "treatment"

\* The rows show every treatment that was confirmed to the tab.
ShowsConfirmed(t, rows) ==
  /\ rows \in [Artifact -> Exhibit]
  /\ \A a \in Artifact : Treated(rows[a], confirmed[t][a])

\* A fetch that is a post is answered with the number of an update to a
\* treatment; one that is the last list asked for, with the confirmed ones.
FetchFits(t, fetch) ==
  /\ fetch \in Fetch /\ fetch.load <= loads[t]
  /\ fetch.load = 0 =>
       /\ fetch.id \in Artifact
       /\ fetch.answer # NoAnswer =>
            fetch.answer \in Nat /\ Treated(artifacts[fetch.id], fetch.answer)
  /\ fetch.load > 0 /\ fetch.load = loads[t] /\ fetch.answer # NoAnswer =>
       ShowsConfirmed(t, fetch.answer)

PageFits(t) ==
  /\ loads[t] \in Nat
  /\ confirmed[t] \in [Artifact -> Nat]
  /\ \A a \in Artifact : Treated(artifacts[a], confirmed[t][a])
  /\ fetches[t] \in Seq(Fetch)
  /\ \A k \in DOMAIN fetches[t] : FetchFits(t, fetches[t][k])
  /\ table[t].load \in Nat /\ table[t].load <= loads[t]
  /\ table[t].load = loads[t] => ShowsConfirmed(t, table[t].rows)

PagesFit ==
  /\ artifacts \in [Artifact -> Exhibit]
  /\ fetches \in [Tab -> Seq(Fetch)]
  /\ loads \in [Tab -> Nat]
  /\ table \in [Tab -> [load : Nat, rows : Given]]
  /\ confirmed \in [Tab -> [Artifact -> Nat]]
  /\ \A t \in Tab : PageFits(t)

-----------------------------------------------------------------------------
(***************************************************************************)
(* Sequences of fetches.                                                   *)
(***************************************************************************)

\* What is left when one element is taken out was there before.
LEMMA RemoveAtKeeps ==
  ASSUME NEW S, NEW s \in Seq(S), NEW k \in DOMAIN s
  PROVE  /\ RemoveAt(s, k) \in Seq(S)
         /\ \A j \in DOMAIN RemoveAt(s, k) : \E i \in DOMAIN s : RemoveAt(s, k)[j] = s[i]
<1>1. Len(s) \in Nat /\ DOMAIN s = 1..Len(s) /\ k \in 1..Len(s)
  BY LenProperties
<1>2. PICK n \in Nat : n = Len(s) /\ k \in 1..n /\ DOMAIN s = 1..n
  BY <1>1
<1>3. PICK front, back :
        /\ front = SubSeq(s, 1, k - 1) /\ back = SubSeq(s, k + 1, n)
        /\ front \in Seq(S) /\ back \in Seq(S)
        /\ Len(front) = k - 1 /\ Len(back) = n - k
        /\ \A j \in 1..(k - 1) : front[j] = s[j]
        /\ \A j \in 1..(n - k) : back[j] = s[k + j]
  <2>1. \A i \in 1..n : s[i] \in S
    BY <1>2, ElementOfSeq
  <2>2. SubSeq(s, 1, k - 1) \in Seq(S) /\ SubSeq(s, k + 1, n) \in Seq(S)
    BY <1>2, <2>1
  <2>3. Len(SubSeq(s, 1, k - 1)) = k - 1 /\ Len(SubSeq(s, k + 1, n)) = n - k
    BY <1>2, <2>1
  <2>4. \A j \in 1..(k - 1) : SubSeq(s, 1, k - 1)[j] = s[j]
    BY <1>2, <2>1
  <2>5. \A j \in 1..(n - k) : SubSeq(s, k + 1, n)[j] = s[k + j]
    BY <1>2, <2>1
  <2> QED
    BY <2>2, <2>3, <2>4, <2>5
<1>4. RemoveAt(s, k) = front \o back
  BY <1>2, <1>3 DEF RemoveAt
<1>5. PICK both : both = front \o back
  OBVIOUS
<1>6. /\ both \in Seq(S)
      /\ Len(both) = Len(front) + Len(back)
      /\ \A j \in 1..(Len(front) + Len(back)) :
           both[j] = IF j <= Len(front) THEN front[j] ELSE back[j - Len(front)]
  <2>1. front \in Seq(S) /\ back \in Seq(S)
    BY <1>3
  <2> QED
    BY <1>5, <2>1, ConcatProperties, Zenon
<1>7. DOMAIN both = 1..(n - 1)
  <2>1. DOMAIN both = 1..Len(both)
    BY <1>6, LenProperties
  <2>2. (k - 1) + (n - k) = n - 1
    BY <1>2
  <2> QED
    BY <1>3, <1>6, <2>1, <2>2
<1>8. ASSUME NEW j \in 1..(n - 1) PROVE \E i \in DOMAIN s : both[j] = s[i]
  <2>1. j \in 1..((k - 1) + (n - k))
    BY <1>2, <1>8
  <2>2. CASE j <= k - 1
    <3>1. j \in 1..(k - 1) /\ j \in 1..n
      BY <1>2, <1>8, <2>2
    <3>2. both[j] = front[j]
      BY <1>3, <1>6, <2>1, <2>2
    <3> QED
      BY <1>2, <1>3, <3>1, <3>2
  <2>3. CASE ~(j <= k - 1)
    <3>1. j - (k - 1) \in 1..(n - k) /\ k + (j - (k - 1)) = j + 1 /\ j + 1 \in 1..n
      BY <1>2, <1>8, <2>3
    <3>2. both[j] = back[j - (k - 1)]
      BY <1>3, <1>6, <2>1, <2>3
    <3> QED
      BY <1>2, <1>3, <3>1, <3>2
  <2> QED
    BY <2>2, <2>3
<1> QED
  BY <1>4, <1>5, <1>6, <1>7, <1>8

\* Appending keeps what there was and adds one.
LEMMA AppendKeeps ==
  ASSUME NEW S, NEW s \in Seq(S), NEW e \in S
  PROVE  /\ Append(s, e) \in Seq(S)
         /\ \A j \in DOMAIN Append(s, e) :
              Append(s, e)[j] = e \/ \E i \in DOMAIN s : Append(s, e)[j] = s[i]
<1>1. Append(s, e) \in Seq(S) /\ DOMAIN Append(s, e) = 1..(Len(s) + 1)
  OBVIOUS
<1>2. Len(s) \in Nat /\ DOMAIN s = 1..Len(s)
  BY LenProperties
<1> QED
  BY <1>1, <1>2

-----------------------------------------------------------------------------
(***************************************************************************)
(* Updates of the store.                                                   *)
(***************************************************************************)

\* The store may have been updated.
Updates ==
  /\ artifacts' \in [Artifact -> Exhibit]
  /\ \A a \in Artifact, n \in Nat :
       Treated(artifacts[a], n) => Treated(artifacts'[a], n)

\* An update leaves treatments behind the store's state, or is one.
LEMMA ChangeUpdates ==
  ASSUME artifacts \in [Artifact -> Exhibit],
         NEW id, NEW status, ChangeStatus(id, status)
  PROVE  /\ Updates
         /\ id \in Artifact /\ status = "treatment" =>
              /\ artifacts[id].changes + 1 \in Nat
              /\ Treated(artifacts'[id], artifacts[id].changes + 1)
<1>1. CASE ChangeAnswer(id, status) = 200
  <2>1. id \in Artifact /\ status \in artifactStatuses
    BY <1>1 DEF ChangeAnswer
  <2> DEFINE new == [status |-> status, changes |-> artifacts[id].changes + 1]
  <2>2. artifacts' = [artifacts EXCEPT ![id] = new]
    BY <1>1 DEF ChangeStatus, UpdateStatus
  <2>3. artifacts[id] \in Exhibit /\ artifacts[id].changes \in Nat
    BY <2>1 DEF Exhibit
  <2>4. /\ new \in Exhibit /\ new.status = status
        /\ new.changes = artifacts[id].changes + 1
    BY <2>1, <2>3 DEF Exhibit
  <2> HIDE DEF new
  <2>5. artifacts' \in [Artifact -> Exhibit] /\ artifacts'[id] = new
        /\ \A a \in Artifact \ {id} : artifacts'[a] = artifacts[a]
    BY <2>1, <2>2, <2>4
  <2>6. ASSUME NEW a \in Artifact, NEW n \in Nat, Treated(artifacts[a], n)
        PROVE  Treated(artifacts'[a], n)
    <3>1. CASE a = id
      BY <2>3, <2>4, <2>5, <2>6, <3>1 DEF Treated
    <3> QED
      BY <2>5, <2>6, <3>1
  <2>7. status = "treatment" => Treated(artifacts'[id], artifacts[id].changes + 1)
    BY <2>3, <2>4, <2>5 DEF Treated
  <2> QED
    BY <2>3, <2>5, <2>6, <2>7 DEF Updates
<1>2. CASE ChangeAnswer(id, status) # 200
  <2>1. artifacts' = artifacts
    BY <1>2 DEF ChangeStatus
  <2>2. ~(id \in Artifact /\ status = "treatment")
    BY <1>2 DEF ChangeAnswer, artifactStatuses
  <2> QED
    BY <2>1, <2>2 DEF Updates
<1> QED
  BY <1>1, <1>2

\* A fetch that fitted still fits when the store has been updated.
LEMMA FetchStaysFit ==
  ASSUME Updates, NEW t \in Tab, UNCHANGED <<loads[t], confirmed[t]>>,
         NEW fetch, FetchFits(t, fetch)
  PROVE  FetchFits(t, fetch)'
BY DEF FetchFits, Fetch, Updates, ShowsConfirmed, Treated

\* A page still fits when the store has been updated and its own fetches, if
\* they changed, fit.
LEMMA PageStaysFit ==
  ASSUME Updates, NEW t \in Tab, PageFits(t),
         UNCHANGED <<loads[t], confirmed[t]>>,
         fetches'[t] \in Seq(Fetch),
         \A k \in DOMAIN fetches'[t] :
           \/ \E j \in DOMAIN fetches[t] : fetches'[t][k] = fetches[t][j]
           \/ \E fetch : fetches'[t][k] = fetch /\ FetchFits(t, fetch)',
         \/ table'[t] = table[t]
         \/ /\ table'[t].load \in Nat /\ table'[t].load <= loads[t]
            /\ table'[t].load = loads[t] => ShowsConfirmed(t, table'[t].rows)
  PROVE  PageFits(t)'
<1>1. \A k \in DOMAIN fetches'[t] : \E fetch : fetches'[t][k] = fetch /\ FetchFits(t, fetch)'
  BY FetchStaysFit DEF PageFits
<1>3. \A k \in DOMAIN fetches'[t] : FetchFits(t, fetches[t][k])'
  BY <1>1 DEF FetchFits, ShowsConfirmed, Treated
<1>2. \A rows : ShowsConfirmed(t, rows)' <=> ShowsConfirmed(t, rows)
  BY DEF ShowsConfirmed, Treated
<1> QED
  BY <1>2, <1>3 DEF PageFits, Updates

-----------------------------------------------------------------------------
(***************************************************************************)
(* Steps of a page.                                                        *)
(***************************************************************************)

\* A step of one page, with or without an update of the store, keeps all pages
\* fit if it keeps its own fit.
LEMMA OthersStayFit ==
  ASSUME PagesFit, Updates, NEW t \in Tab, PageFits(t)',
         NEW f, fetches' = [fetches EXCEPT ![t] = f],
         NEW n, loads' = [loads EXCEPT ![t] = n],
         NEW s \in [load : Nat, rows : Given], table' = [table EXCEPT ![t] = s],
         NEW c, confirmed' = [confirmed EXCEPT ![t] = c]
  PROVE  PagesFit'
<1>1. ASSUME NEW u \in Tab, u # t PROVE PageFits(u)'
  <2>1. /\ fetches'[u] = fetches[u] /\ loads'[u] = loads[u] /\ table'[u] = table[u]
        /\ confirmed'[u] = confirmed[u] /\ PageFits(u)
    BY <1>1 DEF PagesFit
  <2> QED
    BY <2>1, PageStaysFit DEF PageFits
<1>2. f \in Seq(Fetch) /\ c \in [Artifact -> Nat] /\ n \in Nat
  BY DEF PagesFit, PageFits
<1> QED
  BY <1>1, <1>2 DEF PagesFit, Updates

LEMMA PageStep ==
  ASSUME PagesFit, NEW t \in Tab, Page(t)
  PROVE  PagesFit'
<1>1. /\ PageFits(t) /\ fetches[t] \in Seq(Fetch) /\ loads[t] \in Nat
      /\ \A k \in DOMAIN fetches[t] : FetchFits(t, fetches[t][k])
      /\ artifacts \in [Artifact -> Exhibit] /\ confirmed[t] \in [Artifact -> Nat]
      /\ DOMAIN fetches = Tab /\ DOMAIN loads = Tab /\ DOMAIN table = Tab
      /\ DOMAIN confirmed = Tab /\ table[t] \in [load : Nat, rows : Given]
  BY DEF PagesFit, PageFits
<1>2. UNCHANGED artifacts => Updates
  BY <1>1 DEF Updates
<1>3. /\ UNCHANGED loads => loads' = [loads EXCEPT ![t] = loads[t]]
      /\ UNCHANGED table => table' = [table EXCEPT ![t] = table[t]]
      /\ UNCHANGED confirmed => confirmed' = [confirmed EXCEPT ![t] = confirmed[t]]
  BY DEF PagesFit
<1>4. CASE Click(t)
  <2>1. PICK id \in Artifact : fetches' = [fetches EXCEPT ![t] = Append(@, Post(id))]
    BY <1>4 DEF Click
  <2>2. UNCHANGED <<artifacts, loads, table, confirmed>>
    BY <1>4 DEF Click
  <2>3. Post(id) \in Fetch /\ FetchFits(t, Post(id))
    BY <1>1 DEF Post, Fetch, Given, FetchFits
  <2>4. fetches'[t] = Append(fetches[t], Post(id))
    BY <1>1, <2>1
  <2>5. /\ fetches'[t] \in Seq(Fetch)
        /\ \A k \in DOMAIN fetches'[t] :
             \/ fetches'[t][k] = Post(id)
             \/ \E j \in DOMAIN fetches[t] : fetches'[t][k] = fetches[t][j]
    BY <1>1, <2>3, <2>4, AppendKeeps
  <2>6. FetchFits(t, Post(id))'
    BY <1>2, <2>2, <2>3, FetchStaysFit
  <2>7. PageFits(t)'
    BY <1>1, <1>2, <2>2, <2>5, <2>6, PageStaysFit
  <2> QED
    BY <1>1, <1>2, <1>3, <2>1, <2>2, <2>7, OthersStayFit
<1>5. ASSUME NEW k \in DOMAIN fetches[t], Serve(t, k) PROVE PagesFit'
  <2> DEFINE fetch == fetches[t][k]
  <2>1. PICK x : /\ fetches' = [fetches EXCEPT ![t][k].answer = x]
                 /\ \/ fetch.load > 0 /\ x = artifacts /\ UNCHANGED artifacts
                    \/ /\ fetch.load = 0 /\ ChangeStatus(fetch.id, "treatment")
                       /\ x = artifacts[fetch.id].changes + 1
    BY <1>5 DEF Serve
  <2>2. UNCHANGED <<loads, table, confirmed>>
    BY <1>5 DEF Serve
  <2>3. fetch \in Fetch /\ FetchFits(t, fetch)
    BY <1>1 DEF FetchFits
  <2>12. PICK served : served = [fetch EXCEPT !.answer = x]
    OBVIOUS
  <2>4. /\ x \in Nat \cup [Artifact -> Exhibit] /\ Updates
        /\ fetch.load = 0 => x \in Nat /\ Treated(artifacts'[fetch.id], x)
        /\ fetch.load > 0 => x = artifacts
    <3>1. CASE fetch.load > 0 /\ x = artifacts /\ UNCHANGED artifacts
      BY <1>1, <1>2, <3>1
    <3>2. CASE /\ fetch.load = 0 /\ ChangeStatus(fetch.id, "treatment")
               /\ x = artifacts[fetch.id].changes + 1
      <4>1. fetch.id \in Artifact
        BY <2>3, <3>2 DEF FetchFits
      <4> QED
        BY <1>1, <3>2, <4>1, ChangeUpdates
    <3> QED
      BY <2>1, <3>1, <3>2
  <2>5. served \in Fetch /\ served.load = fetch.load /\ served.id = fetch.id
        /\ served.answer = x
    BY <2>3, <2>4, <2>12 DEF Fetch, Given
  <2>6. /\ fetches'[t] = [fetches[t] EXCEPT ![k] = served]
        /\ fetches' = [fetches EXCEPT ![t] = [fetches[t] EXCEPT ![k] = served]]
    BY <1>1, <2>1, <2>12
  <2>7. /\ fetches'[t] \in Seq(Fetch)
        /\ \A j \in DOMAIN fetches'[t] :
             \/ fetches'[t][j] = served
             \/ j \in DOMAIN fetches[t] /\ fetches'[t][j] = fetches[t][j]
    BY <1>1, <2>5, <2>6, ExceptSeq
  <2>8. FetchFits(t, served)'
    <3>1. fetch.load > 0 => ShowsConfirmed(t, x)
      BY <1>1, <2>4 DEF ShowsConfirmed, PageFits
    <3> QED
      BY <2>2, <2>3, <2>4, <2>5, <3>1 DEF FetchFits, ShowsConfirmed, Treated
  <2>9. PageFits(t)'
    BY <1>1, <2>2, <2>4, <2>7, <2>8, PageStaysFit
  <2> QED
    BY <1>1, <1>3, <2>2, <2>4, <2>6, <2>9, OthersStayFit
<1>6. ASSUME NEW k \in DOMAIN fetches[t], Confirm(t, k) PROVE PagesFit'
  <2> DEFINE fetch == fetches[t][k]
  <2>0. PICK list, noted :
          /\ list = List(loads[t] + 1)
          /\ noted = [confirmed[t] EXCEPT ![fetch.id] = fetch.answer]
    OBVIOUS
  <2>1. /\ fetch.load = 0 /\ fetch.answer # NoAnswer
        /\ fetches' = [fetches EXCEPT ![t] = Append(RemoveAt(fetches[t], k), list)]
        /\ loads' = [loads EXCEPT ![t] = loads[t] + 1]
        /\ confirmed' = [confirmed EXCEPT ![t] = noted]
        /\ UNCHANGED <<artifacts, table>>
    BY <1>6, <2>0 DEF Confirm
  <2>2. /\ fetch \in Fetch /\ fetch.id \in Artifact /\ fetch.answer \in Nat
        /\ Treated(artifacts[fetch.id], fetch.answer)
    BY <1>1, <2>1 DEF FetchFits
  <2>3. noted \in [Artifact -> Nat] /\ \A a \in Artifact : Treated(artifacts[a], noted[a])
    BY <1>1, <2>0, <2>2 DEF PageFits
  <2>4. list \in Fetch /\ list.load = loads[t] + 1 /\ list.answer = NoAnswer
    BY <1>1, <2>0 DEF List, Fetch, Given
  <2>5. /\ fetches'[t] = Append(RemoveAt(fetches[t], k), list)
        /\ loads'[t] = loads[t] + 1 /\ confirmed'[t] = noted
    BY <1>1, <2>1
  <2>6. /\ fetches'[t] \in Seq(Fetch)
        /\ \A j \in DOMAIN fetches'[t] :
             \/ fetches'[t][j] = list
             \/ \E i \in DOMAIN fetches[t] : fetches'[t][j] = fetches[t][i]
    <3>1. /\ RemoveAt(fetches[t], k) \in Seq(Fetch)
          /\ \A j \in DOMAIN RemoveAt(fetches[t], k) :
               \E i \in DOMAIN fetches[t] : RemoveAt(fetches[t], k)[j] = fetches[t][i]
      BY <1>1, RemoveAtKeeps
    <3> QED
      BY <2>4, <2>5, <3>1, AppendKeeps
  <2>7. FetchFits(t, list)'
    BY <1>1, <2>4, <2>5 DEF FetchFits
  <2>8. ASSUME NEW f, FetchFits(t, f) PROVE FetchFits(t, f)'
    <3>1. f \in Fetch /\ f.load \in Nat /\ f.load <= loads[t]
      BY <2>8 DEF FetchFits, Fetch
    <3>2. f.load <= loads'[t] /\ f.load # loads'[t]
      BY <1>1, <2>5, <3>1
    <3> QED
      BY <2>1, <2>8, <3>1, <3>2 DEF FetchFits, Treated
  <2>9. table'[t].load \in Nat /\ table'[t].load <= loads'[t] /\ table'[t].load # loads'[t]
    BY <1>1, <2>1, <2>5 DEF PageFits
  <2>10. PageFits(t)'
    <3>0. \A j \in DOMAIN fetches'[t] : \E f : fetches'[t][j] = f /\ FetchFits(t, f)'
      BY <1>1, <2>6, <2>7, <2>8
    <3>1. \A j \in DOMAIN fetches'[t] : FetchFits(t, fetches[t][j])'
      BY <3>0 DEF FetchFits, ShowsConfirmed, Treated
    <3>2. \A a \in Artifact : Treated(artifacts[a], confirmed[t][a])'
      BY <2>1, <2>3, <2>5 DEF Treated
    <3> QED
      BY <1>1, <2>3, <2>5, <2>6, <2>9, <3>1, <3>2 DEF PageFits
  <2> QED
    BY <1>1, <1>2, <1>3, <2>1, <2>10, OthersStayFit
<1>7. ASSUME NEW k \in DOMAIN fetches[t], Show(t, k) \/ Fail(t, k) PROVE PagesFit'
  <2> DEFINE fetch == fetches[t][k]
  <2>1. /\ fetches' = [fetches EXCEPT ![t] = RemoveAt(fetches[t], k)]
        /\ UNCHANGED <<artifacts, loads, confirmed>>
    BY <1>7 DEF Show, Fail
  <2>2. /\ fetches'[t] = RemoveAt(fetches[t], k)
        /\ fetches'[t] \in Seq(Fetch)
        /\ \A j \in DOMAIN fetches'[t] :
             \E i \in DOMAIN fetches[t] : fetches'[t][j] = fetches[t][i]
    <3>1. fetches'[t] = RemoveAt(fetches[t], k)
      BY <1>1, <2>1
    <3> QED
      BY <1>1, <3>1, RemoveAtKeeps
  <2>3. CASE table' = table
    <3>1. PageFits(t)'
      BY <1>1, <1>2, <2>1, <2>2, <2>3, PageStaysFit
    <3> QED
      BY <1>1, <1>2, <1>3, <2>1, <2>3, <3>1, OthersStayFit
  <2>4. CASE Show(t, k)
    <3> DEFINE shown == [load |-> fetch.load, rows |-> fetch.answer]
    <3>1. /\ table' = [table EXCEPT ![t] = shown] /\ table'[t] = shown
          /\ fetch.load > 0 /\ fetch.answer # NoAnswer
      BY <1>1, <2>4 DEF Show
    <3>2. /\ fetch \in Fetch /\ shown \in [load : Nat, rows : Given]
          /\ fetch.load \in Nat /\ fetch.load <= loads[t]
          /\ fetch.load = loads[t] => ShowsConfirmed(t, fetch.answer)
      BY <1>1, <3>1 DEF FetchFits, Fetch
    <3>3. PageFits(t)'
      BY <1>1, <1>2, <2>1, <2>2, <3>1, <3>2, PageStaysFit
    <3> QED
      BY <1>2, <1>3, <2>1, <3>1, <3>2, <3>3, OthersStayFit
  <2> QED
    BY <1>7, <2>3, <2>4 DEF Fail
<1> QED
  BY <1>4, <1>5, <1>6, <1>7 DEF Page

-----------------------------------------------------------------------------
(***************************************************************************)
(* Alerts.                                                                 *)
(***************************************************************************)

\* The plan lists every planned record, once.
ScheduleFits ==
  /\ planned \in [Inspected -> ScheduleStatus \cup {"none"}]
  /\ order \in Seq(Inspected)
  /\ \A j, k \in DOMAIN order : order[j] = order[k] => j = k
  /\ \A k \in DOMAIN order : planned[order[k]] # "none"
  /\ \A i \in Inspected : planned[i] # "none" => \E k \in DOMAIN order : order[k] = i

\* An item that has not ended raises an alert, whose rank its status gives.
StatusRank(status) == CASE status = "planned" -> 1 [] status = "inspecting" -> 2 [] OTHER -> 3

AlertsTellStatus ==
  \A i \in Inspected :
    /\ InPlan(i) <=> planned[i] # "none"
    /\ \A j, k \in AlertsOf(i) : j = k
    /\ AlertRanks(i) = IF planned[i] \in {"none", "done", "cancelled"} THEN {}
                       ELSE {StatusRank(planned[i])}

LEMMA StatusTold == ScheduleFits => AlertsTellStatus
<1> SUFFICES ASSUME ScheduleFits, NEW i \in Inspected
             PROVE  /\ InPlan(i) <=> planned[i] # "none"
                    /\ \A j, k \in AlertsOf(i) : j = k
                    /\ AlertRanks(i) = IF planned[i] \in {"none", "done", "cancelled"} THEN {}
                                       ELSE {StatusRank(planned[i])}
  BY DEF AlertsTellStatus
<1>1. DOMAIN ScheduleList = DOMAIN order
      /\ \A k \in DOMAIN order : /\ ScheduleList[k].record = order[k]
                                 /\ ScheduleList[k].status = planned[order[k]]
  BY DEF ScheduleList
<1>2. InPlan(i) <=> planned[i] # "none"
  BY <1>1 DEF InPlan, ScheduleFits
<1>3. /\ DOMAIN Evaluate = {k \in DOMAIN order : planned[order[k]] \notin {"done", "cancelled"}}
      /\ \A k \in DOMAIN Evaluate :
           /\ Evaluate[k].record = order[k]
           /\ AlertRank(Evaluate[k].code) = StatusRank(planned[order[k]])
  <2> HIDE DEF ScheduleList
  <2>1. DOMAIN Evaluate = {k \in DOMAIN order : planned[order[k]] \notin {"done", "cancelled"}}
    BY <1>1 DEF Evaluate
  <2>2. ASSUME NEW k \in DOMAIN Evaluate
        PROVE  /\ Evaluate[k].record = order[k]
               /\ AlertRank(Evaluate[k].code) = StatusRank(planned[order[k]])
    BY <1>1, <2>1 DEF Evaluate, AlertRank, StatusRank
  <2> QED
    BY <2>1, <2>2
<1>4. AlertsOf(i) = {k \in DOMAIN order : order[k] = i /\ planned[i] \notin {"done", "cancelled"}}
  BY <1>3 DEF AlertsOf
<1>5. AlertRanks(i) = IF planned[i] \in {"none", "done", "cancelled"} THEN {}
                      ELSE {StatusRank(planned[i])}
  BY <1>3, <1>4 DEF AlertRanks, ScheduleFits
<1>6. \A j, k \in AlertsOf(i) : j = k
  BY <1>4 DEF ScheduleFits
<1> QED
  BY <1>2, <1>5, <1>6

LEMMA ScheduleFitsStays == ScheduleFits /\ ScheduleNext => ScheduleFits'
<1> SUFFICES ASSUME ScheduleFits, NEW i \in Inspected,
                    Plan(i) \/ \E target \in ScheduleStatus : MoveItem(i, target)
             PROVE  ScheduleFits'
  BY DEF ScheduleNext
<1>1. CASE Plan(i)
  <2>1. PICK n \in Nat : n = Len(order) /\ DOMAIN order = 1..n
    BY DEF ScheduleFits
  <2>2. /\ planned[i] = "none" /\ planned'[i] = "planned"
        /\ planned' \in [Inspected -> ScheduleStatus \cup {"none"}]
        /\ \A j \in Inspected \ {i} : planned'[j] = planned[j]
    BY <1>1 DEF Plan, ScheduleFits, ScheduleStatus
  <2>3. /\ order' \in Seq(Inspected) /\ DOMAIN order' = 1..(n + 1)
        /\ order'[n + 1] = i /\ \A k \in 1..n : order'[k] = order[k]
    BY <1>1, <2>1 DEF Plan, ScheduleFits
  <2>4. \A k \in 1..(n + 1) : k = n + 1 \/ k \in 1..n
    BY <2>1
  <2>5. \A k \in 1..n : order[k] \in Inspected /\ order[k] # i /\ k \in 1..(n + 1)
    BY <2>1, <2>2 DEF ScheduleFits
  <2> QED
    BY <2>1, <2>2, <2>3, <2>4, <2>5 DEF ScheduleFits
<1>2. ASSUME NEW target \in ScheduleStatus, MoveItem(i, target) PROVE ScheduleFits'
  <2>1. order' = order /\ planned[i] # "none" /\ target # "none"
        /\ planned' = [planned EXCEPT ![i] = target]
    BY <1>2 DEF MoveItem, ScheduleStatus
  <2> QED
    BY <2>1 DEF ScheduleFits
<1> QED
  BY <1>1, <1>2

LEMMA AlertsOfAStep ==
  ScheduleFits /\ ScheduleNext /\ AlertsTellStatus /\ AlertsTellStatus' => AlertsAdvance
<1> SUFFICES ASSUME ScheduleFits, ScheduleNext, AlertsTellStatus, AlertsTellStatus',
                    NEW i \in Inspected, InPlan(i)
             PROVE  /\ \A j, k \in AlertsOf(i)' : j = k
                    /\ \A now \in AlertRanks(i)' : \E before \in AlertRanks(i) : before <= now
  BY DEF AlertsAdvance
<1>1. planned[i] # "none"
  BY DEF AlertsTellStatus
<1>2. PICK from \in ScheduleStatus, to \in ScheduleStatus :
        from = planned[i] /\ to = planned'[i] /\ scheduleCanMove(from, to)
  <2>1. ASSUME NEW j \in Inspected, Plan(j) PROVE planned'[i] = planned[i]
    BY <1>1, <2>1 DEF Plan, ScheduleFits
  <2>2. ASSUME NEW j \in Inspected, NEW target \in ScheduleStatus, MoveItem(j, target)
        PROVE  planned'[i] = planned[i] \/
               (planned'[i] = target /\ scheduleCanMove(planned[i], target))
    BY <1>1, <2>2 DEF MoveItem, ScheduleFits
  <2>3. planned[i] \in ScheduleStatus
    BY <1>1 DEF ScheduleFits
  <2> QED
    BY <2>1, <2>2, <2>3 DEF ScheduleNext, scheduleCanMove
<1>3. /\ \A j, k \in AlertsOf(i)' : j = k
      /\ AlertRanks(i) = IF from \in {"none", "done", "cancelled"} THEN {} ELSE {StatusRank(from)}
      /\ AlertRanks(i)' = IF to \in {"none", "done", "cancelled"} THEN {} ELSE {StatusRank(to)}
  BY <1>2 DEF AlertsTellStatus, StatusRank
<1>4. to \notin {"done", "cancelled"} => /\ from \notin {"none", "done", "cancelled"}
                                        /\ StatusRank(from) <= StatusRank(to)
  BY <1>2 DEF scheduleCanMove, ScheduleStatus, StatusRank
<1> QED
  BY <1>3, <1>4

-----------------------------------------------------------------------------
(***************************************************************************)
(* Theorems.                                                               *)
(***************************************************************************)

LEMMA InitPages == ArtifactInit => PagesFit
<1> SUFFICES ASSUME ArtifactInit PROVE PagesFit
  OBVIOUS
<1>1. Exhibits \in [Artifact -> Exhibit] /\ \A a \in Artifact : Exhibits[a].changes = 0
  BY DEF Exhibits, Exhibit, artifactStatuses
<1>2. List(1) \in Fetch /\ List(1).load = 1 /\ List(1).answer = NoAnswer
  BY DEF List, Fetch, Given
<1>3. ASSUME NEW t \in Tab PROVE PageFits(t)
  <2>1. /\ fetches[t] = <<List(1)>> /\ loads[t] = 1
        /\ table[t].load = 0 /\ confirmed[t] = [a \in Artifact |-> 0]
        /\ artifacts = Exhibits
    BY DEF ArtifactInit
  <2>2. FetchFits(t, List(1))
    BY <1>2, <2>1 DEF FetchFits
  <2>3. \A a \in Artifact : Treated(artifacts[a], confirmed[t][a])
    BY <1>1, <2>1 DEF Treated
  <2> HIDE DEF List
  <2>4. fetches[t] \in Seq(Fetch) /\ \A k \in DOMAIN fetches[t] : fetches[t][k] = List(1)
    BY <1>2, <2>1
  <2> QED
    BY <2>1, <2>2, <2>3, <2>4 DEF PageFits
<1>4. /\ loads \in [Tab -> Nat] /\ table \in [Tab -> [load : Nat, rows : Given]]
      /\ confirmed \in [Tab -> [Artifact -> Nat]]
  BY <1>1 DEF ArtifactInit, Given
<1>5. fetches \in [Tab -> Seq(Fetch)] /\ artifacts \in [Artifact -> Exhibit]
  BY <1>1, <1>3 DEF ArtifactInit, PageFits
<1> QED
  BY <1>3, <1>4, <1>5 DEF PagesFit

LEMMA OtherPostsFit == ASSUME PagesFit, OtherPosts PROVE PagesFit'
<1>1. PICK id \in PostId, status \in PostStatus : ChangeStatus(id, status)
  BY DEF OtherPosts
<1>2. UNCHANGED <<fetches, loads, table, confirmed>>
  BY DEF OtherPosts
<1>3. Updates
  BY <1>1, ChangeUpdates DEF PagesFit
<1>4. ASSUME NEW t \in Tab PROVE PageFits(t)'
  BY <1>2, <1>3, PageStaysFit DEF PagesFit, PageFits
<1> QED
  BY <1>2, <1>3, <1>4 DEF PagesFit, Updates

\* Answers overtake each other and other clients post, but the list that a
\* click asks for is asked for after its post was answered: a page at rest that
\* shows the last list it asked for shows what was confirmed to it.  The other
\* parts of the application leave the artifacts alone.
THEOREM ConfirmedShown == AppSpec => []ConfirmedIsShown
<1>1. AppInit => PagesFit
  BY InitPages DEF AppInit
<1>2. PagesFit /\ [AppNext]_appVars => PagesFit'
  <2> SUFFICES ASSUME PagesFit, [AppNext]_appVars PROVE PagesFit'
    OBVIOUS
  <2>1. CASE ArtifactNext
    BY <2>1, OtherPostsFit, PageStep DEF ArtifactNext
  <2>2. CASE UNCHANGED artifactVars
    <3>1. UNCHANGED <<artifacts, fetches, loads, table, confirmed>>
      BY <2>2 DEF artifactVars
    <3>2. \A t \in Tab : PageFits(t)'
      BY <3>1 DEF PagesFit, PageFits, FetchFits, ShowsConfirmed, Treated
    <3> QED
      BY <3>1, <3>2 DEF PagesFit
  <2> QED
    BY <2>1, <2>2 DEF AppNext, appVars
<1>3. PagesFit => ConfirmedIsShown
  BY DEF PagesFit, PageFits, ShowsConfirmed, Treated, ConfirmedIsShown
<1> QED
  BY <1>1, <1>2, <1>3, PTL DEF AppSpec

\* Alerts never fall back: an inspection only goes forward, an ended one stays
\* ended, and a record is in the plan once, whatever the rest of the
\* application does meanwhile.
THEOREM AlertsGoForward == AppSpec => AlertsOnlyAdvance
<1>1. AppInit => ScheduleFits
  BY DEF AppInit, ScheduleInit, ScheduleFits
<1>2. ScheduleFits /\ [AppNext]_appVars => ScheduleFits'
  <2> SUFFICES ASSUME ScheduleFits, [AppNext]_appVars PROVE ScheduleFits'
    OBVIOUS
  <2>1. CASE UNCHANGED scheduleVars
    BY <2>1 DEF scheduleVars, ScheduleFits
  <2> QED
    BY <2>1, ScheduleFitsStays DEF AppNext, appVars
<1>3. /\ ScheduleFits /\ AlertsTellStatus /\ AlertsTellStatus' /\ [AppNext]_appVars
      => [AlertsAdvance]_scheduleVars
  BY AlertsOfAStep DEF AppNext, appVars
<1> QED
  BY <1>1, <1>2, <1>3, StatusTold, PTL DEF AppSpec, AlertsOnlyAdvance

=============================================================================
