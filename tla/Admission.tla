------------------------------ MODULE Admission ------------------------------
(***************************************************************************)
(* What the adapter promises, without the adapter: an admission control    *)
(* for AgenticRuns.  A slot is a target and an alert group.  A slot has at *)
(* most one run under way, and after a run has ended the slot stays empty  *)
(* for PostRunDelay.  How a run is asked for, what is read when, and what  *)
(* fails, is left out; PollLoopAdmission shows that PollLoop implements    *)
(* this specification.                                                     *)
(***************************************************************************)
EXTENDS Integers

CONSTANTS
  Slots,          \* target labels and alert groups
  PostRunDelay

VARIABLES
  clock,
  active,         \* slot -> how many runs it has under way
  ended           \* slot -> when the last of its runs that are kept ended, or Never

vars == <<clock, active, ended>>

Never == -1

Init ==
  /\ clock = 0
  /\ active = [s \in Slots |-> 0]
  /\ ended = [s \in Slots |-> Never]

CooledDown(s) == ended[s] = Never \/ clock - ended[s] >= PostRunDelay

Admit(s) ==
  /\ active[s] = 0
  /\ CooledDown(s)
  /\ active' = [active EXCEPT ![s] = 1]
  /\ UNCHANGED <<clock, ended>>

Finish(s) ==
  /\ active[s] = 1
  /\ active' = [active EXCEPT ![s] = 0]
  /\ ended' = [ended EXCEPT ![s] = clock]
  /\ UNCHANGED clock

\* Somebody deletes the run under way.
Discard(s) ==
  /\ active[s] = 1
  /\ active' = [active EXCEPT ![s] = 0]
  /\ UNCHANGED <<clock, ended>>

\* Somebody deletes the run that ended last: an earlier one takes its place.
Forget(s) ==
  /\ \E earlier \in Never .. ended[s] : ended' = [ended EXCEPT ![s] = earlier]
  /\ UNCHANGED <<clock, active>>

Tick == clock' = clock + 1 /\ UNCHANGED <<active, ended>>

Next == Tick \/ \E s \in Slots : Admit(s) \/ Finish(s) \/ Discard(s) \/ Forget(s)

Spec == Init /\ [][Next]_vars
==============================================================================
