------------------------------- MODULE Artifacts -------------------------------
(***************************************************************************)
(* ArtifactStore behind ConservationService, and the page that web/app.js  *)
(* runs in a browser tab.  A click posts a status and, once that is        *)
(* answered, loads the list anew; nothing keeps two clicks, or their       *)
(* loads, from being under way at once, and answers come in any order:     *)
(*                                                                         *)
(*   click ---> post sent -> answered ---> list sent -> answered ---> shown *)
(***************************************************************************)
EXTENDS Naturals, SequencesExt

CONSTANTS
  NoAnswer,    \* what a fetch has before its answer
  Tab,         \* browser tabs
  PostId,      \* ids that other clients post
  PostStatus,  \* statuses that they post
  MaxChanges,  \* bound: updates of the store
  MaxLoads     \* bound: lists that one tab loads

VARIABLES
  artifacts,   \* ArtifactStore.artifacts, each with its updates so far
  fetches,     \* tab -> its fetches that are under way, in the order sent
  loads,       \* tab -> the lists it has asked for
  table,       \* tab -> the rows it shows, and which of its loads gave them
  confirmed    \* tab -> the updates of an artifact when its post was answered

artifactVars == <<artifacts, fetches, loads, table, confirmed>>

\* NewArtifactStore.
Artifact == {"art-001", "art-002"}
Exhibits == [a \in Artifact |->
  [status |-> IF a = "art-001" THEN "stable" ELSE "watch", changes |-> 0]]

-----------------------------------------------------------------------------
(***************************************************************************)
(* The service.                                                            *)
(***************************************************************************)

artifactStatuses == {"stable", "watch", "treatment"}

\* An unknown status is refused before the id is looked up.
ChangeAnswer(id, status) ==
  CASE status \notin artifactStatuses -> 400
    [] id \notin Artifact             -> 404
    [] OTHER                          -> 200

UpdateStatus(id, status) ==
  artifacts' = [artifacts EXCEPT ![id] = [status |-> status, changes |-> @.changes + 1]]

Changes == artifacts["art-001"].changes + artifacts["art-002"].changes

ChangeStatus(id, status) ==
  IF ChangeAnswer(id, status) = 200
    THEN Changes < MaxChanges /\ UpdateStatus(id, status)
    ELSE UNCHANGED artifacts

\* Some other client.
OtherPosts ==
  /\ \E id \in PostId, status \in PostStatus : ChangeStatus(id, status)
  /\ UNCHANGED <<fetches, loads, table, confirmed>>

-----------------------------------------------------------------------------
(***************************************************************************)
(* The page.                                                               *)
(***************************************************************************)

\* The nth list that a tab asks for, and a post for one artifact.
List(n) == [load |-> n, id |-> "all", answer |-> NoAnswer]
Post(id) == [load |-> 0, id |-> id, answer |-> NoAnswer]

PostsUnderWay(t) == Len(SelectSeq(fetches[t], LAMBDA fetch : fetch.load = 0))

\* There are buttons once a list is shown.  Every click will want a load.
Click(t) ==
  /\ table[t].load > 0 /\ loads[t] + PostsUnderWay(t) < MaxLoads
  /\ \E id \in Artifact : fetches' = [fetches EXCEPT ![t] = Append(@, Post(id))]
  /\ UNCHANGED <<artifacts, loads, table, confirmed>>

\* The server handles a request whenever it comes to it.
Serve(t, k) ==
  LET fetch == fetches[t][k]
      Answers(x) == fetches' = [fetches EXCEPT ![t][k].answer = x]
  IN /\ fetch.answer = NoAnswer
     /\ \/ /\ fetch.load > 0
           /\ Answers(artifacts) /\ UNCHANGED artifacts
        \/ /\ fetch.load = 0
           /\ ChangeStatus(fetch.id, "treatment")
           /\ Answers(artifacts[fetch.id].changes + 1)
     /\ UNCHANGED <<loads, table, confirmed>>

\* Mutant of Confirm: the list is loaded while the post is under way, and not
\* again when it is answered.
MutantConfirmLoadsEarly(t, k) ==
  LET fetch == fetches[t][k]
  IN /\ fetch.load = 0
     /\ IF fetch.answer = NoAnswer
          THEN /\ loads[t] < MaxLoads
               /\ fetches' = [fetches EXCEPT ![t] = Append(@, List(loads[t] + 1))]
               /\ loads' = [loads EXCEPT ![t] = @ + 1]
               /\ UNCHANGED confirmed
          ELSE /\ fetches' = [fetches EXCEPT ![t] = RemoveAt(@, k)]
               /\ confirmed' = [confirmed EXCEPT ![t][fetch.id] = fetch.answer]
               /\ UNCHANGED loads
     /\ UNCHANGED <<artifacts, table>>

\* The post is answered: load().
Confirm(t, k) ==
  LET fetch == fetches[t][k]
  IN /\ fetch.load = 0 /\ fetch.answer # NoAnswer
     /\ fetches' = [fetches EXCEPT ![t] = Append(RemoveAt(@, k), List(loads[t] + 1))]
     /\ loads' = [loads EXCEPT ![t] = @ + 1]
     /\ confirmed' = [confirmed EXCEPT ![t][fetch.id] = fetch.answer]
     /\ UNCHANGED <<artifacts, table>>

\* A list is shown when it comes, also when a later one is shown already.
Show(t, k) ==
  LET fetch == fetches[t][k]
  IN /\ fetch.load > 0 /\ fetch.answer # NoAnswer
     /\ table' = [table EXCEPT ![t] = [load |-> fetch.load, rows |-> fetch.answer]]
     /\ fetches' = [fetches EXCEPT ![t] = RemoveAt(@, k)]
     /\ UNCHANGED <<artifacts, loads, confirmed>>

\* A fetch fails, before the server has handled it or after: the handler that
\* waits for it ends.  (If the server handles it later still, it is another
\* client's post to this page.)
Fail(t, k) ==
  /\ fetches' = [fetches EXCEPT ![t] = RemoveAt(@, k)]
  /\ UNCHANGED <<artifacts, loads, table, confirmed>>

-----------------------------------------------------------------------------

\* The page loads the list when it is opened.
ArtifactInit ==
  /\ artifacts = Exhibits
  /\ fetches = [t \in Tab |-> <<List(1)>>]
  /\ loads = [t \in Tab |-> 1]
  /\ table = [t \in Tab |-> [load |-> 0, rows |-> Exhibits]]
  /\ confirmed = [t \in Tab |-> [a \in Artifact |-> 0]]

Page(t) ==
  \/ Click(t)
  \/ \E k \in DOMAIN fetches[t] : Serve(t, k) \/ Confirm(t, k) \/ Show(t, k) \/ Fail(t, k)

ArtifactNext == OtherPosts \/ \E t \in Tab : Page(t)

-----------------------------------------------------------------------------
(***************************************************************************)
(* Properties.                                                             *)
(***************************************************************************)

\* A page at rest that shows the last list it asked for shows every treatment
\* that was confirmed to it, or what another client has made of the artifact
\* since: answers may overtake each other, but the list that a click asks for
\* is asked for after its post was answered.
ConfirmedIsShown ==
  \A t \in Tab : fetches[t] = <<>> /\ table[t].load = loads[t] =>
    \A a \in Artifact :
      /\ table[t].rows[a].changes >= confirmed[t][a]
      /\ table[t].rows[a].changes = confirmed[t][a] /\ confirmed[t][a] > 0
           => table[t].rows[a].status = "treatment"

=============================================================================
