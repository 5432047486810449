------------------------------ MODULE RunStatus ------------------------------
(***************************************************************************)
(* The status of an AgenticRun as the adapter reads it: the conditions the *)
(* agentic operator has written, the phase derived from them, and the time *)
(* the adapter takes for the end of a terminal run                         *)
(* (internal/adapter/adapter.go, terminalTime and its helpers).            *)
(***************************************************************************)
EXTENDS Integers, Sequences, FiniteSetsExt

ConditionTypes ==
  {"Analyzed", "Executed", "Verified", "Denied", "Escalated", "EmergencyStopped"}

\* What the operator may report about a run, without the time it does so.
Report == [type   : ConditionTypes,
           status : {"True", "False", "Unknown"},
           reason : {"", "NoActionRequired"}]

\* A report with its LastTransitionTime.
Condition == [report : Report, at : Nat]

\* The nil *time.Time.
NilTime == -1

Holds(conditions, type, status) ==
  \E i \in DOMAIN conditions : /\ conditions[i].report.type = type
                               /\ conditions[i].report.status = status

\* A run whose analysis found nothing to do is complete without the
\* execution and verification steps.
NoActionRequired(conditions) ==
  \E i \in DOMAIN conditions :
    conditions[i].report = [type |-> "Analyzed", status |-> "True",
                            reason |-> "NoActionRequired"]

\* External: agenticv1alpha1.DerivePhase. All non-terminal phases (Pending,
\* Analyzing, Proposed, Executing, ...) are one phase here, "Active", because
\* the adapter only asks whether a phase is terminal and which one.
DerivePhase(conditions) ==
  IF Holds(conditions, "EmergencyStopped", "True") THEN "EmergencyStopped"
  ELSE IF Holds(conditions, "Denied", "True")      THEN "Denied"
  ELSE IF Holds(conditions, "Escalated", "True")   THEN "Escalated"
  ELSE IF \/ Holds(conditions, "Verified", "True")
          \/ NoActionRequired(conditions)          THEN "Completed"
  ELSE IF \E type \in {"Analyzed", "Executed", "Verified"} :
            Holds(conditions, type, "False")       THEN "Failed"
  ELSE "Active"

isTerminal(phase) ==
  phase \in {"Completed", "Failed", "Denied", "Escalated", "EmergencyStopped"}

\* The type of the first condition with status False, "" when none has it.
findFailedConditionType(conditions) ==
  LET failed == {i \in DOMAIN conditions : conditions[i].report.status = "False"}
  IN  IF failed = {} THEN "" ELSE conditions[Min(failed)].report.type

\* Mutant: the switch has no case for EmergencyStopped.
terminalConditionType_NoStop(conditions) ==
  LET phase == DerivePhase(conditions)
  IN  CASE phase = "Completed" -> "Verified"
        [] phase = "Failed"    -> findFailedConditionType(conditions)
        [] phase \in {"Denied", "Escalated"} -> phase
        [] OTHER -> ""

\* The type of the condition whose transition time terminalTime looks up.
terminalConditionType(conditions) ==
  LET phase == DerivePhase(conditions)
  IN  CASE phase = "Completed" -> "Verified"
        [] phase = "Failed"    -> findFailedConditionType(conditions)
        [] phase \in {"Denied", "Escalated", "EmergencyStopped"} -> phase
        [] OTHER -> ""

\* The time the adapter counts the post-run delay from, or NilTime.
terminalTime(conditions) ==
  LET type  == terminalConditionType(conditions)
      found == {i \in DOMAIN conditions : conditions[i].report.type = type}
  IN  IF found = {} THEN NilTime ELSE conditions[Min(found)].at
==============================================================================
