------------------------ MODULE SpokeDiscoveryProofs -------------------------
(* Theorems about the spoke registry, for every value of the constants. *)
EXTENDS SpokeDiscovery, TLAPS

LEMMA InitInv == Init => TypeOK /\ DiscoveryInv
<1>1. ASSUME Init PROVE TypeOK
  <2>1. "absent" \in Objects
    BY DEF Objects
  <2>2. /\ todo \in [Clusters -> Objects] /\ cache \in [Clusters -> Objects]
        /\ spokes \in [Clusters -> Target \cup {NoTarget}]
    BY <1>1, <2>1 DEF Init
  <2>. QED BY <1>1, <2>2 DEF Init, TypeOK
<1>2. Init => DiscoveryInv
  BY DEF Init, DiscoveryInv, NoLostUpdate, StartupFollowsHub, RequestsCurrent
<1>. QED BY <1>1, <1>2

\* What BuildTarget returns is a target with the label's Secret, or none.
LEMMA BuildTargetType ==
  ASSUME TypeOK, NEW object \in Objects
  PROVE  /\ BuildTarget(object) \in Target \cup {NoTarget}
         /\ BuildTarget(object) = NoTarget \/ BuildTarget(object).secret = object
BY DEF BuildTarget, TypeOK, Target, NoTarget

LEMMA NextTypeOK == TypeOK /\ [Next]_vars => TypeOK'
<1>. SUFFICES ASSUME TypeOK, [Next]_vars PROVE TypeOK'
  OBVIOUS
<1>. USE DiscoveryAssumption DEF hubVars, processVars
<1>1. CASE ListSpokeClusters \/ StartController \/ ListFails
  BY <1>1 DEF ListSpokeClusters, StartController, ListFails, Fault, TypeOK
<1>2. ASSUME NEW c \in Clusters, BuildListed(c) PROVE TypeOK'
  BY <1>2, BuildTargetType DEF BuildListed, Fault, TypeOK, Objects
<1>3. CASE Sync
  BY <1>3 DEF Sync, TypeOK
<1>4. ASSUME NEW c \in Clusters, Deliver(c) PROVE TypeOK'
  BY <1>4 DEF Deliver, TypeOK
<1>5. CASE Resync
  BY <1>5 DEF Resync, TypeOK
<1>6. ASSUME NEW c \in Clusters, GetSpokeCluster(c) PROVE TypeOK'
  BY <1>6 DEF GetSpokeCluster, TypeOK, Request
<1>7. ASSUME NEW c \in Clusters, GetFails(c) PROVE TypeOK'
  BY <1>7 DEF GetFails, Fault, TypeOK
<1>8. CASE ReadSecret
  <2>1. PICK q \in request : /\ q.object \in Secrets
                             /\ \/ request' = {[q EXCEPT !.read = TRUE,
                                                          !.target = BuildTarget(q.object)]}
                                \/ request' = {[q EXCEPT !.read = TRUE]}
    BY <1>8 DEF ReadSecret
  <2>2. q \in Request /\ BuildTarget(q.object) \in Target \cup {NoTarget}
    BY <2>1, BuildTargetType DEF TypeOK, Objects
  <2>3. request' \subseteq Request /\ \A r, s \in request' : r = s
    BY <2>1, <2>2 DEF Request
  <2>. QED BY <1>8, <2>3 DEF ReadSecret, Fault, TypeOK
<1>9. CASE UpdateRegistry
  <2>1. PICK q \in request : spokes' = [spokes EXCEPT ![q.name] = q.target]
    BY <1>9 DEF UpdateRegistry, SetSpoke
  <2>2. q.name \in Clusters /\ q.target \in Target \cup {NoTarget}
    BY <2>1 DEF TypeOK, Request
  <2>. QED BY <1>9, <2>1, <2>2 DEF UpdateRegistry, TypeOK
<1>10. CASE Restart
  <2>1. "absent" \in Objects
    BY DEF Objects
  <2>2. /\ UNCHANGED <<hub, secrets, changes>> /\ faults' = faults + 1
        /\ main' = "list" /\ synced' = FALSE /\ queue' = {} /\ request' = {}
        /\ todo' = [c \in Clusters |-> "absent"] /\ cache' = [c \in Clusters |-> "absent"]
        /\ spokes' = [c \in Clusters |-> NoTarget]
    BY <1>10 DEF Restart, Fault
  <2>3. /\ todo' \in [Clusters -> Objects] /\ cache' \in [Clusters -> Objects]
        /\ spokes' \in [Clusters -> Target \cup {NoTarget}]
    BY <2>1, <2>2
  <2>4. faults' \in Nat
    BY <2>2 DEF TypeOK
  <2>6. synced' \in BOOLEAN /\ queue' \subseteq Clusters
    BY <2>2, Zenon
  <2>5. request' \subseteq Request /\ \A q, r \in request' : q = r
    BY <2>2
  <2>. QED BY <2>2, <2>3, <2>4, <2>5, <2>6 DEF TypeOK
<1>11. ASSUME NEW c \in Clusters, NEW object \in Objects, ChangeCluster(c, object) PROVE TypeOK'
  BY <1>11 DEF ChangeCluster, Change, TypeOK
<1>12. ASSUME NEW s \in Secrets, NEW content \in Contents \cup {None}, ChangeSecret(s, content)
       PROVE TypeOK'
  BY <1>12 DEF ChangeSecret, Change, TypeOK
<1>13. CASE UNCHANGED vars
  BY <1>13 DEF vars, TypeOK
<1>. QED BY <1>1, <1>2, <1>3, <1>4, <1>5, <1>6, <1>7, <1>8, <1>9, <1>10, <1>11, <1>12, <1>13
         DEF Next, StartupStep, ControllerStep, Failure, HubStep

LEMMA NextDiscoveryInv ==
  ASSUME ~ChangesDuringStartup, TypeOK, TypeOK', DiscoveryInv, [Next]_vars
  PROVE  DiscoveryInv'
<1>. USE DEF hubVars, processVars, DiscoveryInv, NoLostUpdate, StartupFollowsHub, RequestsCurrent
<1>1. CASE ListSpokeClusters \/ StartController \/ ListFails
  BY <1>1 DEF ListSpokeClusters, StartController, ListFails, InHand
<1>2. ASSUME NEW c \in Clusters, BuildListed(c) PROVE DiscoveryInv'
  <2>1. BuildTarget(todo[c]) = NoTarget \/ BuildTarget(todo[c]).secret = todo[c]
    BY BuildTargetType DEF TypeOK
  <2>2. /\ todo' = [todo EXCEPT ![c] = "absent"] /\ todo[c] # "absent"
        /\ spokes' \in {spokes, [spokes EXCEPT ![c] = BuildTarget(todo[c])]}
        /\ UNCHANGED <<hub, cache, synced, queue, request>>
    BY <1>2 DEF BuildListed
  <2>3. CASE synced
    <3>1. main = "build"
      BY <1>2 DEF BuildListed
    <3>. QED BY <2>1, <2>2, <2>3, <3>1 DEF InHand, TypeOK
  <2>4. CASE ~synced
    BY <2>1, <2>2, <2>4 DEF InHand, TypeOK
  <2>. QED BY <2>3, <2>4
<1>3. CASE Sync
  BY <1>3 DEF Sync, InHand, TypeOK, NoTarget
<1>4. ASSUME NEW c \in Clusters, Deliver(c) PROVE DiscoveryInv'
  BY <1>4 DEF Deliver, InHand, TypeOK
<1>5. CASE Resync
  BY <1>5 DEF Resync, InHand
<1>6. ASSUME NEW c \in Clusters, GetSpokeCluster(c) PROVE DiscoveryInv'
  BY <1>6 DEF GetSpokeCluster, InHand
<1>7. ASSUME NEW c \in Clusters, GetFails(c) PROVE DiscoveryInv'
  BY <1>7 DEF GetFails, InHand
<1>8. CASE ReadSecret
  <2>1. PICK q \in request : /\ q.object \in Secrets
                             /\ \/ request' = {[q EXCEPT !.read = TRUE,
                                                          !.target = BuildTarget(q.object)]}
                                \/ request' = {[q EXCEPT !.read = TRUE]}
    BY <1>8 DEF ReadSecret
  <2>2. /\ q \in Request /\ \A r \in request : r = q
        /\ BuildTarget(q.object) = NoTarget \/ BuildTarget(q.object).secret = q.object
    BY <2>1, BuildTargetType DEF TypeOK, Objects
  <2>3. PICK r : /\ request' = {r} /\ r.name = q.name /\ r.object = q.object
                 /\ r.target = NoTarget \/ r.target.secret = q.object
    <3>. DEFINE read == [q EXCEPT !.read = TRUE, !.target = BuildTarget(q.object)]
                none == [q EXCEPT !.read = TRUE]
    <3>1. /\ read.name = q.name /\ read.object = q.object
          /\ read.target = BuildTarget(q.object)
      BY <2>2 DEF Request
    <3>2. none.name = q.name /\ none.object = q.object /\ none.target = q.target
      BY <2>2 DEF Request
    <3>3. request' = {read} \/ request' = {none}
      BY <2>1
    <3>4. q.target = NoTarget \/ q.target.secret = q.object
      BY <2>1
    <3>. HIDE DEF read, none
    <3>. QED BY <2>2, <3>1, <3>2, <3>3, <3>4
  <2>. QED BY <1>8, <2>1, <2>2, <2>3 DEF ReadSecret, InHand
<1>9. CASE UpdateRegistry
  <2>1. PICK q \in request : spokes' = [spokes EXCEPT ![q.name] = q.target]
    BY <1>9 DEF UpdateRegistry, SetSpoke
  <2>2. q.name \in Clusters /\ \A r \in request : r = q
    BY <2>1 DEF TypeOK, Request
  <2>3. synced /\ UNCHANGED <<cache, queue, synced, main>> /\ request' = {}
    BY <1>9, <2>1 DEF UpdateRegistry
  <2>4. \A c \in Clusters : c # q.name => spokes'[c] = spokes[c]
    BY <2>1, <2>2 DEF TypeOK
  <2>5. spokes'[q.name] = q.target
    BY <2>1, <2>2 DEF TypeOK
  <2>6. \A c \in Clusters : c # q.name => (InHand(c)' <=> InHand(c))
    BY <2>2, <2>3 DEF InHand
  <2>7. q.name \in queue \/ q.target = NoTarget \/ q.target.secret = cache[q.name]
    BY <2>1
  <2>. QED BY <2>2, <2>3, <2>4, <2>5, <2>6, <2>7 DEF InHand
<1>10. CASE Restart
  BY <1>10 DEF Restart
<1>11. ASSUME NEW c \in Clusters, NEW object \in Objects, ChangeCluster(c, object)
       PROVE DiscoveryInv'
  BY <1>11 DEF ChangeCluster, InHand
<1>12. ASSUME NEW s \in Secrets, NEW content \in Contents \cup {None}, ChangeSecret(s, content)
       PROVE DiscoveryInv'
  BY <1>12 DEF ChangeSecret, InHand
<1>13. CASE UNCHANGED vars
  BY <1>13 DEF vars, InHand
<1>. QED BY <1>1, <1>2, <1>3, <1>4, <1>5, <1>6, <1>7, <1>8, <1>9, <1>10, <1>11, <1>12, <1>13
         DEF Next, StartupStep, ControllerStep, Failure, HubStep

\* Every variable of the spoke registry keeps its type: what the controller has
\* stored under a SpokeCluster's name is a target with usable credentials or none
\* (BuildTarget, SetSpoke, RemoveSpoke).
THEOREM DiscoveryTypeSafe == Spec => []TypeOK
BY InitInv, NextTypeOK, PTL DEF Spec

\* If no SpokeCluster changes between the startup list and the informer's own, a
\* target that differs from its cached SpokeCluster is still to be reconciled
\* (Reconcile, newTargets), whatever is read late and whatever fails.
THEOREM DiscoveryKeepsUp ==
  ASSUME ~ChangesDuringStartup
  PROVE  Spec => []DiscoveryInv
BY InitInv, NextTypeOK, NextDiscoveryInv, PTL DEF Spec
==============================================================================
