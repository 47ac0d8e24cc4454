----------------------------- MODULE OpsSchedule -----------------------------
(***************************************************************************)
(* OpsScheduleService and OpsAlertEngine.  Every method holds the          *)
(* schedule's lock for its whole body, and Evaluate reads the schedule     *)
(* with one List.  Calls that answer an error change nothing.              *)
(***************************************************************************)
EXTENDS Naturals, Sequences

CONSTANT Inspected   \* record ids that inspections are planned for

VARIABLES
  planned,   \* record id -> the status of its item, or "none"
  order      \* the ids in the order they were planned

scheduleVars == <<planned, order>>

ScheduleStatus == {"planned", "inspecting", "treating", "done", "cancelled"}

\* Mutant of Plan: a record may be planned again.
MutantPlanAgain(i) ==
  planned' = [planned EXCEPT ![i] = "planned"] /\ order' = Append(order, i)

\* A record is planned once, and need not exist.
Plan(i) ==
  /\ planned[i] = "none"
  /\ planned' = [planned EXCEPT ![i] = "planned"]
  /\ order' = Append(order, i)

scheduleCanMove(from, to) ==
  \/ from = to
  \/ <<from, to>> \in {<<"planned", "inspecting">>, <<"inspecting", "treating">>,
                       <<"treating", "done">>}
  \/ from \in {"planned", "inspecting", "treating"} /\ to = "cancelled"

\* Of the targets a request may name, only these five are ever granted.
MoveItem(i, target) ==
  /\ planned[i] # "none" /\ scheduleCanMove(planned[i], target)
  /\ planned' = [planned EXCEPT ![i] = target]
  /\ UNCHANGED order

ScheduleInit == planned = [i \in Inspected |-> "none"] /\ order = <<>>

ScheduleNext ==
  \E i \in Inspected :
    Plan(i) \/ \E target \in ScheduleStatus : MoveItem(i, target)

-----------------------------------------------------------------------------

ScheduleList == [k \in DOMAIN order |-> [record |-> order[k], status |-> planned[order[k]]]]

\* An alert for each listed item that has not ended, at the item's place.
Evaluate ==
  LET Open(item) == item.status \notin {"done", "cancelled"}
  IN [k \in {k \in DOMAIN ScheduleList : Open(ScheduleList[k])} |->
        [ record |-> ScheduleList[k].record,
          code   |-> CASE ScheduleList[k].status = "planned"    -> "SCHED-PLANNED"
                       [] ScheduleList[k].status = "inspecting" -> "SCHED-INSPECTING"
                       [] OTHER                                 -> "SCHED-TREATING" ]]

AlertRank(code) == CASE code = "SCHED-PLANNED" -> 1 [] code = "SCHED-INSPECTING" -> 2
                     [] code = "SCHED-TREATING" -> 3
AlertsOf(i) == {k \in DOMAIN Evaluate : Evaluate[k].record = i}
AlertRanks(i) == {AlertRank(Evaluate[k].code) : k \in AlertsOf(i)}
InPlan(i) == \E k \in DOMAIN ScheduleList : ScheduleList[k].record = i

\* The alerts that an operator sees of a planned record, while it and others
\* are planned and moved: at most one at a time, with a code that only goes up,
\* and none ever again once there is none.
AlertsAdvance ==
  \A i \in Inspected : InPlan(i) =>
    /\ \A j, k \in AlertsOf(i)' : j = k
    /\ \A now \in AlertRanks(i)' : \E before \in AlertRanks(i) : before <= now

AlertsOnlyAdvance == [][AlertsAdvance]_scheduleVars

=============================================================================
