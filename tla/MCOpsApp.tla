------------------------------- MODULE MCOpsApp -------------------------------
(***************************************************************************)
(* A small application for TLC.  The parts share no variable, so what is   *)
(* true of each part is true of all of them together, whatever the others  *)
(* do; a behaviour here exercises one part and leaves the other as it was. *)
(***************************************************************************)
EXTENDS OpsApp

MCDraft ==
  {[subject |-> {"bronze"}, owner |-> "ann", priority |-> "high", status |-> "queued"],
   [subject |-> {"bronze", "silk"}, owner |-> "bob", priority |-> "low", status |-> "queued"]}

MCQuery ==
  {[subject |-> {}, owner |-> "", priority |-> "", status |-> ""],
   [subject |-> {"bronze"}, owner |-> "", priority |-> "", status |-> "queued"]}

RecordsUntouched == clock = Cardinality(Id) - 1 /\ walk = NoWalk

PageUntouched == artifacts = Exhibits /\ \A t \in Tab : fetches[t] = <<List(1)>>

MCNext ==
  /\ AppNext
  /\ asked # {} \/ asked' # {} => order = <<>> /\ order' = <<>> /\ RecordsUntouched'
  /\ order' # <<>> => RecordsUntouched'
  /\ ~PageUntouched' => asked' = {} /\ order' = <<>> /\ RecordsUntouched'

MCSpec == AppInit /\ [][MCNext]_appVars

=============================================================================
