---------------------------- MODULE MCOpsSessions ----------------------------
(***************************************************************************)
(* Model values for TLC: a list that repeats an id and one that has the   *)
(* same id and another, so that goroutines of one bulk and of two meet on  *)
(* one session; both may name sessions that are not open yet.              *)
(***************************************************************************)
EXTENDS OpsSessions, TLC

CONSTANTS b1, b2   \* bulks

MCIdList == {<<1, 1>>, <<1, 2>>}

\* For liveness, where symmetry is not sound: a bulk with each of the lists.
MCInit == Init /\ ids = (b1 :> <<1, 1>>) @@ (b2 :> <<1, 2>>)

MCFairSpec == MCInit /\ [][Next]_vars /\ Fairness

Symmetry == Permutations(RecordId) \cup Permutations(Bulk)

=============================================================================
