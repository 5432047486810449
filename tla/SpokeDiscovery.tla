--------------------------- MODULE SpokeDiscovery ----------------------------
(***************************************************************************)
(* Where the spoke targets of the registry come from with --multicluster:  *)
(* the list of SpokeClusters newTargets makes at startup                   *)
(* (cmd/alerts-adapter/main.go), then the controller's Reconcile           *)
(* (internal/multicluster), which reads SpokeClusters from the cache its   *)
(* informer fills and credential Secrets from the API server.              *)
(***************************************************************************)
EXTENDS Naturals, FiniteSets

CONSTANTS
  Clusters,              \* SpokeCluster names
  Secrets,               \* Secret names a credential label may have
  Contents,              \* what a usable Secret may hold
  ChangesDuringStartup,  \* may SpokeClusters change before the informer has listed them?
  MaxChanges,            \* bound: changes of SpokeClusters and Secrets
  MaxFaults              \* bound: failed reads and restarts

None == "none"
  \* What a missing or incomplete Secret holds.

\* A SpokeCluster: its credential label's value, "unlabelled" or "absent".
Objects == Secrets \cup {"unlabelled", "absent"}

Target == [secret : Secrets, content : Contents]

NoTarget == [secret |-> None, content |-> None]

ASSUME DiscoveryAssumption ==
  /\ {"unlabelled", "absent", None} \cap Secrets = {}
  /\ None \notin Contents
  /\ ChangesDuringStartup \in BOOLEAN
  /\ MaxChanges \in Nat /\ MaxFaults \in Nat

VARIABLES
  hub,       \* API server: SpokeClusters
  secrets,   \* API server: credential Secrets, None when missing or incomplete
  changes,   \* changes so far
  faults,    \* faults so far
  main,      \* main's goroutine: "list", "build", "started" or "exited"
  todo,      \* newTargets: listed SpokeClusters not built yet
  spokes,    \* Registry.spokes
  cache,     \* the manager's informer: SpokeClusters as it knows them
  synced,    \* has the informer listed them?
  queue,     \* the controller's work queue
  request    \* the Reconcile under way, none or one: [name, object, target, read]

hubVars     == <<hub, secrets, changes>>
processVars == <<main, todo, spokes, cache, synced, queue, request>>
vars        == <<hubVars, faults, processVars>>

Init ==
  /\ hub \in [Clusters -> Objects]
  /\ secrets \in [Secrets -> Contents \cup {None}]
  /\ changes = 0
  /\ faults = 0
  /\ main = "list"
  /\ todo = [c \in Clusters |-> "absent"]
  /\ spokes = [c \in Clusters |-> NoTarget]
  /\ cache = [c \in Clusters |-> "absent"]
  /\ synced = FALSE
  /\ queue = {}
  /\ request = {}

Fault == faults < MaxFaults /\ faults' = faults + 1

\* Mutant: an incomplete Secret is used as it is.
BuildTarget_Unchecked(object) ==
  IF object \in Secrets THEN [secret |-> object, content |-> secrets[object]] ELSE NoTarget

\* The Secret's credentials, or none: no label, no such Secret, an empty value.
BuildTarget(object) ==
  IF object \in Secrets /\ secrets[object] # None
  THEN [secret |-> object, content |-> secrets[object]]
  ELSE NoTarget
------------------------------------------------------------------------------
(* newTargets, newTargetRegistry *)

ListSpokeClusters ==
  /\ main = "list"
  /\ todo' = hub
  /\ main' = "build"
  /\ UNCHANGED <<hubVars, faults, spokes, cache, synced, queue, request>>

\* The process exits with status 1.
ListFails ==
  /\ main = "list" /\ Fault
  /\ main' = "exited"
  /\ UNCHANGED <<hubVars, todo, spokes, cache, synced, queue, request>>

\* A listed SpokeCluster becomes a target, unless its Secret cannot be read.
BuildListed(c) ==
  /\ main = "build" /\ todo[c] # "absent"
  /\ todo' = [todo EXCEPT ![c] = "absent"]
  /\ \/ spokes' = [spokes EXCEPT ![c] = BuildTarget(todo[c])] /\ UNCHANGED faults
     \/ todo[c] \in Secrets /\ Fault /\ UNCHANGED spokes
  /\ UNCHANGED <<hubVars, main, cache, synced, queue, request>>

\* The registry is filled and the controller's manager started.
StartController ==
  /\ main = "build" /\ \A c \in Clusters : todo[c] = "absent"
  /\ main' = "started"
  /\ UNCHANGED <<hubVars, faults, todo, spokes, cache, synced, queue, request>>
------------------------------------------------------------------------------
(* The informer and its queue (external: controller-runtime) *)

\* The informer lists SpokeClusters; each one it finds is an event.
Sync ==
  /\ main = "started" /\ ~synced
  /\ cache' = hub
  /\ queue' = {c \in Clusters : hub[c] # "absent"}
  /\ synced' = TRUE
  /\ UNCHANGED <<hubVars, faults, main, todo, spokes, request>>

\* The watch brings the cache up to date with a change.
Deliver(c) ==
  /\ synced /\ cache[c] # hub[c]
  /\ cache' = [cache EXCEPT ![c] = hub[c]]
  /\ queue' = queue \cup {c}
  /\ UNCHANGED <<hubVars, faults, main, todo, spokes, synced, request>>

\* The periodic resync hands every SpokeCluster of the cache to the controller.
Resync ==
  /\ synced
  /\ queue' = queue \cup {c \in Clusters : cache[c] # "absent"}
  /\ UNCHANGED <<hubVars, faults, main, todo, spokes, cache, synced, request>>
------------------------------------------------------------------------------
(* Reconcile: one at a time, as the controller has one worker *)

\* Get finds the SpokeCluster in the cache, or that it is gone.
GetSpokeCluster(c) ==
  /\ request = {} /\ c \in queue
  /\ queue' = queue \ {c}
  /\ request' = {[name |-> c, object |-> cache[c], target |-> NoTarget, read |-> FALSE]}
  /\ UNCHANGED <<hubVars, faults, main, todo, spokes, cache, synced>>

\* A Get that fails otherwise is an error, and the request is queued again.
GetFails(c) ==
  /\ request = {} /\ c \in queue /\ Fault
  /\ UNCHANGED <<hubVars, main, todo, spokes, cache, synced, queue, request>>

\* BuildTarget reads the Secret, or fails to.
ReadSecret ==
  /\ \E q \in request :
       /\ q.object \in Secrets /\ ~q.read
       /\ \/ /\ request' = {[q EXCEPT !.read = TRUE, !.target = BuildTarget(q.object)]}
             /\ UNCHANGED faults
          \/ /\ Fault
             /\ request' = {[q EXCEPT !.read = TRUE]}
  /\ UNCHANGED <<hubVars, main, todo, spokes, cache, synced, queue>>

\* Mutant: RemoveSpoke is not called.
SetSpoke_NoRemove(name, target) ==
  IF target = NoTarget THEN spokes ELSE [spokes EXCEPT ![name] = target]

\* Mutant: a target that exists is kept.
SetSpoke_NoReplace(name, target) ==
  [spokes EXCEPT ![name] = IF @ # NoTarget /\ target # NoTarget THEN @ ELSE target]

\* The registry after SetSpoke; after RemoveSpoke if there is no target.
SetSpoke(name, target) == [spokes EXCEPT ![name] = target]

\* The SpokeCluster's target is set, or removed when it is gone, not labelled, or
\* has no usable credentials.
UpdateRegistry ==
  /\ \E q \in request :
       /\ q.object \in Secrets => q.read
       /\ spokes' = SetSpoke(q.name, q.target)
  /\ request' = {}
  /\ UNCHANGED <<hubVars, faults, main, todo, cache, synced, queue>>
------------------------------------------------------------------------------
(* Environment *)

Change == changes < MaxChanges /\ changes' = changes + 1

\* Somebody creates, labels or deletes a SpokeCluster.
ChangeCluster(c, object) ==
  /\ Change /\ hub[c] # object
  /\ ChangesDuringStartup \/ synced
  /\ hub' = [hub EXCEPT ![c] = object]
  /\ UNCHANGED <<secrets, faults, processVars>>

\* Somebody writes or deletes a Secret.
ChangeSecret(s, content) ==
  /\ Change /\ secrets[s] # content
  /\ secrets' = [secrets EXCEPT ![s] = content]
  /\ UNCHANGED <<hub, faults, processVars>>

\* The process is replaced; the registry and the cache are lost.
Restart ==
  /\ Fault
  /\ main' = "list"
  /\ todo' = [c \in Clusters |-> "absent"]
  /\ spokes' = [c \in Clusters |-> NoTarget]
  /\ cache' = [c \in Clusters |-> "absent"]
  /\ synced' = FALSE
  /\ queue' = {}
  /\ request' = {}
  /\ UNCHANGED hubVars
------------------------------------------------------------------------------
StartupStep == \/ ListSpokeClusters \/ StartController
               \/ \E c \in Clusters : BuildListed(c)

ControllerStep == \/ Sync \/ ReadSecret \/ UpdateRegistry
                  \/ \E c \in Clusters : Deliver(c) \/ GetSpokeCluster(c)

Failure == ListFails \/ Restart \/ \E c \in Clusters : GetFails(c)

HubStep == \/ \E c \in Clusters, object \in Objects : ChangeCluster(c, object)
           \/ \E s \in Secrets, content \in Contents \cup {None} : ChangeSecret(s, content)

Next == StartupStep \/ ControllerStep \/ Resync \/ Failure \/ HubStep

Spec == Init /\ [][Next]_vars

\* The process takes its steps, a Deployment restarts it after an exit, and the
\* watch delivers.  The queue is first in, first out: a name in it gets its turn.
DiscoverySpec ==
  /\ Spec
  /\ WF_vars(StartupStep)
  /\ \A c \in Clusters : WF_vars(Deliver(c)) /\ SF_vars(GetSpokeCluster(c))
  /\ WF_vars(Sync) /\ WF_vars(ReadSecret) /\ WF_vars(UpdateRegistry)

\* The resync comes round again and again.
ResyncSpec == DiscoverySpec /\ WF_vars(Resync)
------------------------------------------------------------------------------
(* Properties *)

Request == [name : Clusters, object : Objects, target : Target \cup {NoTarget}, read : BOOLEAN]

\* Every variable has the type its Go counterpart gives it.
TypeOK ==
  /\ hub \in [Clusters -> Objects]
  /\ secrets \in [Secrets -> Contents \cup {None}]
  /\ changes \in Nat /\ faults \in Nat
  /\ main \in {"list", "build", "started", "exited"}
  /\ todo \in [Clusters -> Objects]
  /\ spokes \in [Clusters -> Target \cup {NoTarget}]
  /\ cache \in [Clusters -> Objects]
  /\ synced \in BOOLEAN
  /\ queue \subseteq Clusters
  /\ request \subseteq Request /\ \A q, r \in request : q = r

InHand(c) == c \in queue \/ \E q \in request : q.name = c

\* A target whose Secret is not the one the cached SpokeCluster names, or whose
\* SpokeCluster is gone, is one the controller still has to reconcile: no event
\* is lost between the startup list, the informer and an old request.
NoLostUpdate ==
  synced => \A c \in Clusters :
    InHand(c) \/ spokes[c] = NoTarget \/ spokes[c].secret = cache[c]

\* Before the informer has listed the SpokeClusters the registry holds what
\* newTargets made of them.
StartupFollowsHub ==
  /\ synced => main = "started"
  /\ ~synced =>
       /\ request = {} /\ queue = {}
       /\ \A c \in Clusters :
            /\ todo[c] \in {"absent", hub[c]}
            /\ spokes[c] = NoTarget \/ spokes[c].secret = hub[c]

\* A Reconcile works on the SpokeCluster as it is cached, or will run again.
RequestsCurrent ==
  \A q \in request :
    /\ q.target = NoTarget \/ q.target.secret = q.object
    /\ q.object = cache[q.name] \/ q.name \in queue

\* Why NoLostUpdate holds (Reconcile reads the cache before the Secret, and an
\* event that comes in between queues the SpokeCluster again).
DiscoveryInv == NoLostUpdate /\ StartupFollowsHub /\ RequestsCurrent

\* The target of a SpokeCluster that is deleted, or loses its label, leaves the
\* registry, though the Reconcile under way may put it back first.
RemovalTakesHold ==
  \A c \in Clusters :
    (hub[c] \notin Secrets) ~> (spokes[c] = NoTarget \/ hub[c] \in Secrets \/ main = "exited")

\* A SpokeCluster with usable credentials gets a target with them, after failed
\* reads, a change of Secret or a Secret that came late, if the resync comes.
DiscoveryTakesHold ==
  \A c \in Clusters : \A t \in Target :
    (hub[c] = t.secret /\ secrets[t.secret] = t.content)
      ~> (spokes[c] = t \/ hub[c] # t.secret \/ secrets[t.secret] # t.content
          \/ main = "exited")
==============================================================================
