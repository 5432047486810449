-------------------------- MODULE PollLoopAdmission --------------------------
(***************************************************************************)
(* PollLoop implements Admission.  The slots are the labels and groups the *)
(* adapter's runs carry; a slot's state is read off the runs the API       *)
(* server keeps.                                                           *)
(***************************************************************************)
EXTENDS PollLoop

AdmissionSlots == {t.label : t \in Targets} \X Groups

RunsIn(slot) == {r \in runs : r.label = slot[1] /\ r.group = slot[2]}

ActiveCount == [slot \in AdmissionSlots |-> Cardinality({r \in RunsIn(slot) : Active(r)})]

LastEnd == [slot \in AdmissionSlots |-> Max({r.ended : r \in RunsIn(slot)} \cup {NilTime})]

Admitted == INSTANCE Admission
  WITH Slots <- AdmissionSlots, active <- ActiveCount, ended <- LastEnd

\* Every run the adapter makes the API server keep is one Admission would admit
\* at that moment: of stale lists, lost answers, restarts and clashing names
\* none lets a second run of a group start, or one within the cooldown
\* (reconcileTarget, CreateAgenticRun).
ImplementsAdmission == Admitted!Spec
==============================================================================
