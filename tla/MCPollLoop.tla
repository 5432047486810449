----------------------------- MODULE MCPollLoop ------------------------------
(* Instances of PollLoop for TLC. *)
EXTENDS PollLoopAdmission

local == LocalTarget(FALSE)     \* the only target without --multicluster
hub   == LocalTarget(TRUE)      \* the local target with --multicluster
spoke == SpokeTarget("east")

lower(w) == [word |-> w, case |-> "lower"]
upper(w) == [word |-> w, case |-> "upper"]
MCReceivers == {lower("ops"), upper("ops"), lower("other")}
MCAllowedReceivers == {lower("ops")}

\* An alert of the group, passing every fixed filter.
alert(stem, group, startsAt) ==
  [stem |-> stem, group |-> group, startsAt |-> startsAt,
   receivers |-> {upper("ops"), lower("other")}, fingerprint |-> TRUE]

unrouted   == [alert("s1", "g1", 0) EXCEPT !.receivers = {lower("other")}]
undated    == [alert("s1", "g1", 0) EXCEPT !.startsAt = NilTime]
unprinted  == [alert("s1", "g1", 0) EXCEPT !.fingerprint = FALSE]

report(type, status) == [type |-> type, status |-> status, reason |-> ""]
analyzed  == report("Analyzed", "True")
failed    == report("Executed", "False")
verified  == report("Verified", "True")
stopped   == report("EmergencyStopped", "True")
denied    == report("Denied", "True")
escalated == report("Escalated", "True")

\* Two alerts of a group (two pods of a namespace, say), the second firing later.
first  == alert("s1", "g1", 0)
second == alert("s1", "g1", 1)

OneTarget  == {local}
OneAlert   == [t \in Targets |-> {<<first>>}]
Siblings   == [t \in Targets |-> {<<first>>, <<first, second>>}]
BadSiblings == [t \in Targets |-> {<<unrouted, first, second>>, <<undated, unprinted>>}]
HubAndSpoke == {hub, spoke}
SpokeOnly == {spoke}
AllTargets == {Targets}
AnySnapshot == SUBSET Targets

AllEndings == {analyzed, failed, verified, stopped, denied, escalated}
StopOnly == {stopped}
==============================================================================
