-------------------------------- MODULE OpsApp --------------------------------
(***************************************************************************)
(* NewRouter: parts of the application that share nothing but the process. *)
(* A searching client and writers meet in the store, inspections and       *)
(* alerts in the schedule, browser tabs and other clients in the artifact  *)
(* store; the rule catalogue is fixed.                                     *)
(***************************************************************************)
EXTENDS OpsQuery, OpsSchedule, OpsRules, Artifacts

appVars == <<queryVars, scheduleVars, rulesVars, artifactVars>>

AppInit == QueryInit /\ ScheduleInit /\ RulesInit /\ ArtifactInit

AppNext ==
  \/ QueryNext /\ UNCHANGED <<scheduleVars, rulesVars, artifactVars>>
  \/ ScheduleNext /\ UNCHANGED <<queryVars, rulesVars, artifactVars>>
  \/ RulesNext /\ UNCHANGED <<queryVars, scheduleVars, artifactVars>>
  \/ ArtifactNext /\ UNCHANGED <<queryVars, scheduleVars, rulesVars>>

AppSpec == AppInit /\ [][AppNext]_appVars

=============================================================================
