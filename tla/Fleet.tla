-------------------------------- MODULE Fleet --------------------------------
(***************************************************************************)
(* The poll loop with the registry it takes its targets from               *)
(* (internal/multicluster/registry.go) while the SpokeCluster controller   *)
(* adds and removes spokes.  The registry's lock makes each operation one  *)
(* step, between any two steps of the loop; a cycle works on the copy that *)
(* Targets has given it.                                                   *)
(***************************************************************************)
EXTENDS PollLoop

VARIABLES
  registry,  \* Registry.local and Registry.spokes
  goneSince  \* history: when the controller last removed a target it has not added again

fleetVars == <<vars, registry, goneSince>>

Locals == {t \in Targets : isLocal(t)}

\* NewRegistry: the local target, and the spokes main has found.
FleetInit ==
  /\ Init
  /\ registry \in {r \in Snapshots : Locals \subseteq r}
  /\ goneSince = [t \in Targets |-> IF t \in registry THEN NilTime ELSE 0]

\* The controller has work to do, until QuietAfter.
MayHold(targets) == targets \in Snapshots /\ clock < QuietAfter

\* Mutant: the target is stored where Targets does not look.
SetSpoke_Dropped(t) ==
  /\ t \notin registry /\ MayHold(registry \cup {t})
  /\ registry' = registry
  /\ goneSince' = [goneSince EXCEPT ![t] = NilTime]
  /\ UNCHANGED vars

SetSpoke(t) ==
  /\ t \notin registry /\ MayHold(registry \cup {t})
  /\ registry' = registry \cup {t}
  /\ goneSince' = [goneSince EXCEPT ![t] = NilTime]
  /\ UNCHANGED vars

\* Mutant: the target stays in the map.
RemoveSpoke_Kept(t) ==
  /\ t \in registry \ Locals /\ MayHold(registry \ {t})
  /\ registry' = registry
  /\ goneSince' = [goneSince EXCEPT ![t] = clock]
  /\ UNCHANGED vars

RemoveSpoke(t) ==
  /\ t \in registry \ Locals /\ MayHold(registry \ {t})
  /\ registry' = registry \ {t}
  /\ goneSince' = [goneSince EXCEPT ![t] = clock]
  /\ UNCHANGED vars

\* A cycle begins with a copy of what the registry holds then.
TakeTargets == loop.pc # "spawn" /\ loop'.pc = "spawn" => loop'.pending = registry

PollStep == Next /\ TakeTargets /\ UNCHANGED <<registry, goneSince>>

FleetNext == PollStep \/ \E t \in Targets : SetSpoke(t) \/ RemoveSpoke(t)

FleetSpec == FleetInit /\ [][FleetNext]_fleetVars

UnresponsiveSpec == FleetSpec /\ ProcessFairness
HealthySpec == UnresponsiveSpec /\ ServerFairness
------------------------------------------------------------------------------
(* Properties *)

Removed(t) == goneSince[t] # NilTime

\* After a spoke's removal the cycle under way may still create runs for it; when
\* the longest cycle is over none is created any more, whatever the workers were
\* doing, until the spoke is added again (RemoveSpoke, Targets, targetCtx).
RemovalHonoured ==
  [][\A t \in Targets : \A p \in NewRuns :
       Removed(t) /\ p.label = t.label
         => clock - goneSince[t] <= Rounds * PollInterval]_fleetVars

\* Alert a fires on target t all the time; it is complete, and a receiver of its
\* is allowed, in whatever case it is written.
Firing(t, a) ==
  /\ \A alerts \in AlertLists[t] : \E i \in DOMAIN alerts : alerts[i] = a
  /\ \E r \in a.receivers, allowed \in AllowedReceivers : r.word = allowed.word
  /\ a.fingerprint /\ a.startsAt # NilTime

RunsOf(t, a) == {r \in runs : r.label = t.label /\ r.group = a.group}

Alerts(t) == UNION {{alerts[i] : i \in DOMAIN alerts} : alerts \in AlertLists[t]}

\* The group of an alert that keeps firing gets a run: on a spoke the controller
\* has just added too, after errors, backoff and restarts, and while other
\* targets hang, unless the spoke is removed or the adapter told to stop
\* (SetSpoke, Targets, a deadline and an error log per target).
FiringAlertServed ==
  \A t \in Responsive : \A a \in Alerts(t) :
    Firing(t, a) => (~Removed(t)) ~> (RunsOf(t, a) # {} \/ Removed(t) \/ cancelled)

\* When the run of an alert that keeps firing is emergency-stopped, the alert's
\* group gets another run, though the deterministic name is taken
\* (hasEmergencyStoppedNameConflict, NextAvailableName).
EmergencyStopReplaced ==
  \A t \in Responsive : \A a \in Alerts(t) :
    Firing(t, a) =>
      ((\E r \in RunsOf(t, a) : /\ r.name = BuildForTarget(a, t).name
                                /\ DerivePhase(r.conds) = "EmergencyStopped")
         ~> ((\E r \in RunsOf(t, a) : Active(r)) \/ Removed(t) \/ cancelled))
==============================================================================
