--------------------------- MODULE LifecycleProofs ---------------------------
(***************************************************************************)
(* Theorems about the life of a process, for every file and environment it *)
(* may find and every interleaving of main, the manager's goroutine and    *)
(* the signals.                                                            *)
(***************************************************************************)
EXTENDS Lifecycle, TLAPS

\* What a startup step has let through stays so: the configuration is the one
\* LoadFromFile made of one file, and later steps run in an environment the
\* earlier ones took (main up to adapter.NewWithMaxConcurrentTargets).
StartupInv ==
  /\ env \in Env /\ file \in ConfigFile
  /\ \A f \in loaded : f \in ConfigFile /\ cfg = LoadFromFile(f, env.skillsImage) /\ cfg # {}
  /\ loaded = {} => cfg = {}
  /\ pc \notin {"limit", "exited"} => multiclusterMaxConcurrentTargets(env) # {}
  /\ pc \notin {"limit", "config", "exited"} => loaded # {}
  /\ pc \in {"list", "build", "controller", "run", "check"} => ~cannotTarget(env)

LifecycleInv == TypeOK /\ HandoverInv /\ StartupInv
------------------------------------------------------------------------------
(* What the operators of Configuration return *)

\* A configuration has usable times and lower-case receivers, whatever the file
\* says (LoadFromFile's checks of the durations, strings.ToLower).
LEMMA LoadedUsable ==
  ASSUME NEW f \in ConfigFile, NEW image, NEW c \in LoadFromFile(f, image)
  PROVE  /\ c.pollInterval > 0 /\ c.preRunDelay >= 0 /\ c.postRunDelay >= 0
         /\ \A r \in c.allowedReceivers : r.case = "lower"
<1>1. CASE f.content = "missing"
  <2>1. c = Default
    BY <1>1 DEF LoadFromFile
  <2>2. /\ c.pollInterval = PollDefault /\ c.preRunDelay = 0 /\ c.postRunDelay = PostRunDefault
        /\ c.allowedReceivers = {}
    BY <2>1 DEF Default
  <2>. QED BY <2>2, ConfigurationAssumption
<1>2. CASE f.content # "missing"
  <2>1. c = parsed(f, image)
    BY <1>2 DEF LoadFromFile
  <2>2. /\ f.pollInterval \in Setting /\ f.preRunDelay \in Setting /\ f.postRunDelay \in Setting
        /\ f.allowedReceivers \subseteq SUBSET Receiver /\ f.filtering \subseteq SUBSET Receiver
    BY DEF ConfigFile, Optional
  <2>3. /\ pollIntervalOf(f.pollInterval) > 0
        /\ delayOf(f.preRunDelay, 0) >= 0
        /\ delayOf(f.postRunDelay, PostRunDefault) >= 0
    BY <2>2, ConfigurationAssumption DEF pollIntervalOf, delayOf, positive, Setting
  <2>4. \A r \in UNION rawReceivers(f) : ToLower(r).case = "lower"
    BY <2>2 DEF rawReceivers, ToLower, Receiver
  <2>. QED BY <2>1, <2>3, <2>4 DEF parsed
<1>. QED BY <1>1, <1>2

\* An error anywhere in the file and nothing is loaded (LoadFromFile's errors).
LEMMA LoadedWhole ==
  ASSUME NEW f, NEW image, LoadFromFile(f, image) # {}, f \in ConfigFile
  PROVE  \/ f.content = "missing"
         \/ f.content = "fields" /\ Invalid \notin {f.pollInterval, f.preRunDelay, f.postRunDelay}
<1>1. CASE f.content # "missing"
  <2>1. f.content # "unreadable" /\ ~cannotParse(f)
    BY <1>1 DEF LoadFromFile
  <2>2. f.content = "fields"
    BY <1>1, <2>1 DEF cannotParse, ConfigFile
  <2>3. \A d \in {f.pollInterval, f.preRunDelay, f.postRunDelay} : d # Invalid
    BY <2>1 DEF cannotParse, Invalid
  <2>. QED BY <2>2, <2>3
<1>. QED BY <1>1

\* The one list that is written is the one in force (rawReceivers, IgnoredLabels).
LEMMA LoadedLists ==
  ASSUME NEW f \in ConfigFile, NEW image, NEW c \in LoadFromFile(f, image),
         f.content = "fields"
  PROVE  /\ \A list \in f.filtering :
              {r.word : r \in c.allowedReceivers} = {r.word : r \in list}
         /\ f.filtering = {} => \A list \in f.allowedReceivers :
              {r.word : r \in c.allowedReceivers} = {r.word : r \in list}
         /\ \A list \in f.deduplication : c.ignoredLabels = list
<1>1. c = parsed(f, image)
  BY DEF LoadFromFile
<1>2. /\ f.allowedReceivers \in Optional(Receiver) /\ f.filtering \in Optional(Receiver)
      /\ f.deduplication \in Optional(STRING)
  BY DEF ConfigFile
<1>3. ASSUME NEW S, NEW lists \in Optional(S), NEW list \in lists PROVE UNION lists = list
  <2>1. lists = {list}
    BY <1>3 DEF Optional
  <2>. QED BY <2>1
<1>4. ASSUME NEW list \in SUBSET Receiver, c.allowedReceivers = {ToLower(r) : r \in list}
      PROVE  {r.word : r \in c.allowedReceivers} = {r.word : r \in list}
  <2>1. \A r \in list : ToLower(r).word = r.word
    BY DEF ToLower, Receiver
  <2>2. {r.word : r \in {ToLower(s) : s \in list}} = {ToLower(r).word : r \in list}
    OBVIOUS
  <2>. QED BY <1>4, <2>1, <2>2
<1>5. /\ c.allowedReceivers = {ToLower(r) : r \in UNION rawReceivers(f)}
      /\ f.deduplication # {} => c.ignoredLabels = UNION f.deduplication
  BY <1>1 DEF parsed
<1>6. ASSUME NEW list \in f.filtering
      PROVE  {r.word : r \in c.allowedReceivers} = {r.word : r \in list}
  <2>1. UNION rawReceivers(f) = list /\ list \in SUBSET Receiver
    BY <1>2, <1>3 DEF rawReceivers, Optional
  <2>. QED BY <1>4, <1>5, <2>1
<1>7. ASSUME f.filtering = {}, NEW list \in f.allowedReceivers
      PROVE  {r.word : r \in c.allowedReceivers} = {r.word : r \in list}
  <2>1. UNION rawReceivers(f) = list /\ list \in SUBSET Receiver
    BY <1>2, <1>3, <1>7 DEF rawReceivers, Optional
  <2>. QED BY <1>4, <1>5, <2>1
<1>8. ASSUME NEW list \in f.deduplication PROVE c.ignoredLabels = list
  <2>1. UNION f.deduplication = list
    BY <1>2, <1>3
  <2>. QED BY <1>5, <2>1
<1>. QED BY <1>6, <1>7, <1>8

\* What is mounted is what is written with a path and an image, its own or the
\* default (parseSkills).
LEMMA LoadedSkills ==
  ASSUME NEW f \in ConfigFile, NEW image \in STRING, NEW c \in LoadFromFile(f, image),
         f.content = "fields"
  PROVE  Mounts(c.skills) =
           {m \in Mounts([i \in DOMAIN f.skills |->
                            [f.skills[i] EXCEPT !.image = IF @ = "" THEN image ELSE @]]) :
              "" \notin {m[1], m[2]}}
<1>. DEFINE E == f.skills
            R(i) == resolvedImage(E[i], image)
            W == [i \in DOMAIN E |-> [E[i] EXCEPT !.image = IF @ = "" THEN image ELSE @]]
            K == parseSkills(E, image)
<1>1. c.skills = K
  BY DEF LoadFromFile, parsed
<1>2. E \in Seq([image : STRING, paths : Seq(STRING)])
  BY DEF ConfigFile
<1>3. \A i \in DOMAIN E : E[i] \in [image : STRING, paths : Seq(STRING)]
  <2>1. ASSUME NEW S, NEW q \in Seq(S), NEW i \in DOMAIN q PROVE q[i] \in S
    OBVIOUS
  <2>. DEFINE S == [image : STRING, paths : Seq(STRING)]
  <2>. HIDE DEF E, S
  <2>2. \A i \in DOMAIN E : E[i] \in S
    BY <1>2, <2>1 DEF S
  <2>. QED BY <2>2 DEF S
<1>. HIDE DEF E
<1>4. \A i \in DOMAIN E : W[i].image = R(i) /\ W[i].paths = E[i].paths
  BY <1>3 DEF resolvedImage
<1>5. \A i \in DOMAIN E : \A j : j \in DOMAIN pathsOf(E[i]) <=> j \in DOMAIN E[i].paths /\ E[i].paths[j] # ""
  BY DEF pathsOf
<1>6. \A i \in DOMAIN E : \A j \in DOMAIN pathsOf(E[i]) : pathsOf(E[i])[j] = E[i].paths[j]
  BY DEF pathsOf
<1>7. \A i : i \in DOMAIN K <=> i \in DOMAIN E /\ R(i) # "" /\ DOMAIN pathsOf(E[i]) # {}
  BY DEF parseSkills
<1>8. \A i \in DOMAIN K : K[i].image = R(i) /\ K[i].paths = pathsOf(E[i])
  BY DEF parseSkills
<1>9. DOMAIN W = DOMAIN E
  OBVIOUS
<1>. HIDE DEF K, W, R
<1>10. ASSUME NEW m \in Mounts(K) PROVE m \in Mounts(W) /\ "" \notin {m[1], m[2]}
  <2>1. PICK i \in DOMAIN K : \E j \in DOMAIN K[i].paths : m = <<K[i].image, K[i].paths[j]>>
    BY DEF Mounts
  <2>2. PICK j \in DOMAIN K[i].paths : m = <<K[i].image, K[i].paths[j]>>
    BY <2>1
  <2>3. i \in DOMAIN E /\ R(i) # "" /\ K[i].image = R(i) /\ K[i].paths = pathsOf(E[i])
    BY <1>7, <1>8
  <2>4. j \in DOMAIN E[i].paths /\ E[i].paths[j] # "" /\ K[i].paths[j] = E[i].paths[j]
    <3>1. j \in DOMAIN pathsOf(E[i])
      BY <2>3
    <3>. QED BY <1>5, <1>6, <2>3, <3>1
  <2>5. W[i].image = R(i) /\ W[i].paths = E[i].paths /\ i \in DOMAIN W
    BY <1>4, <1>9, <2>3
  <2>6. m = <<W[i].image, W[i].paths[j]>> /\ j \in DOMAIN W[i].paths
    BY <2>2, <2>3, <2>4, <2>5
  <2>7. m \in Mounts(W)
    BY <2>5, <2>6 DEF Mounts
  <2>8. m[1] = R(i) /\ m[2] = E[i].paths[j]
    BY <2>2, <2>3, <2>4
  <2>. QED BY <2>3, <2>4, <2>7, <2>8
<1>11. ASSUME NEW m \in Mounts(W), "" \notin {m[1], m[2]} PROVE m \in Mounts(K)
  <2>1. PICK i \in DOMAIN W : \E j \in DOMAIN W[i].paths : m = <<W[i].image, W[i].paths[j]>>
    BY DEF Mounts
  <2>2. PICK j \in DOMAIN W[i].paths : m = <<W[i].image, W[i].paths[j]>>
    BY <2>1
  <2>3. W[i].image # "" /\ W[i].paths[j] # ""
    BY <1>11, <2>2
  <2>4. i \in DOMAIN E /\ j \in DOMAIN pathsOf(E[i]) /\ R(i) # ""
    BY <1>4, <1>5, <1>9, <2>3
  <2>5. i \in DOMAIN K
    BY <1>7, <2>4
  <2>6. j \in DOMAIN K[i].paths /\ m = <<K[i].image, K[i].paths[j]>>
    BY <1>4, <1>6, <1>8, <2>2, <2>4, <2>5
  <2>. QED BY <2>5, <2>6 DEF Mounts
<1>12. Mounts(K) = {m \in Mounts(W) : "" \notin {m[1], m[2]}}
  BY <1>10, <1>11
<1>. QED BY <1>1, <1>12 DEF W, E
------------------------------------------------------------------------------
(* The invariant *)

LEMMA InitLifecycleInv == Init => LifecycleInv
<1>. SUFFICES ASSUME Init PROVE LifecycleInv
  OBVIOUS
<1>1. env \in Env /\ file \in ConfigFile
  BY LifecycleAssumption DEF Init
<1>2. TypeOK
  <2>1. signals \in 0 .. MaxSignals
    BY LifecycleAssumption DEF Init
  <2>2. {cancelled, notify, pending, startupFailed, managerFailed} \subseteq BOOLEAN
    BY Zenon DEF Init
  <2>. QED BY <2>1, <2>2 DEF Init, TypeOK, StartupSteps
<1>3. HandoverInv
  BY DEF Init, HandoverInv, Alive, StartupSteps
<1>4. StartupInv
  BY <1>1 DEF Init, StartupInv
<1>. QED BY <1>2, <1>3, <1>4 DEF LifecycleInv

LEMMA NextTypeOK == LifecycleInv /\ [Next]_vars => TypeOK'
<1>. SUFFICES ASSUME LifecycleInv, [Next]_vars PROVE TypeOK'
  OBVIOUS
<1>. USE LifecycleAssumption DEF LifecycleInv, TypeOK, configVars, contextVars, managerVars,
     mainVars, Exit, StartupSteps
<1>1. CASE StepSucceeds
  <2>1. pc' \in StartupSteps \cup {"run"}
    BY <1>1 DEF StepSucceeds, After
  <2>2. cfg' = {} <=> loaded' = {}
    BY <1>1 DEF StepSucceeds, Refused
  <2>3. manager' \in {"off", "running", "returned", "send", "stop", "done"}
    BY <1>1 DEF StepSucceeds
  <2>4. notify' \in BOOLEAN
    BY <1>1 DEF StepSucceeds
  <2>. QED BY <1>1, <2>1, <2>2, <2>3, <2>4 DEF StepSucceeds
<1>2. CASE StepFails
  BY <1>2 DEF StepFails
<1>3. CASE RunReturns
  BY <1>3 DEF RunReturns
<1>4. CASE CheckManager
  <2>1. CASE errCh = <<"error">>
    BY <1>4, <2>1 DEF CheckManager
  <2>2. CASE errCh = <<>>
    BY <1>4, <2>2 DEF CheckManager
  <2>. QED BY <2>1, <2>2
<1>5. CASE CheckContext
  BY <1>5 DEF CheckContext
<1>6. CASE Send
  <2>1. errCh = <<>>
    BY <1>6 DEF Send
  <2>2. errCh' = <<"error">>
    BY <1>6, <2>1 DEF Send
  <2>. QED BY <1>6, <2>2 DEF Send
<1>7. CASE StopLoop
  BY <1>7 DEF StopLoop
<1>8. CASE ManagerReturns
  BY <1>8 DEF ManagerReturns
<1>9. CASE Signal
  <2>1. signals' \in 0 .. MaxSignals
    BY <1>9 DEF Signal
  <2>2. pending' \in BOOLEAN
    BY <1>9 DEF Signal
  <2>. QED BY <1>9, <2>1, <2>2 DEF Signal
<1>10. CASE CancelContext
  BY <1>10 DEF CancelContext
<1>11. ASSUME NEW f \in Edits, Edit(f) PROVE TypeOK'
  BY <1>11 DEF Edit
<1>12. CASE UNCHANGED vars
  BY <1>12 DEF vars
<1>. QED BY <1>1, <1>2, <1>3, <1>4, <1>5, <1>6, <1>7, <1>8, <1>9, <1>10, <1>11, <1>12
         DEF Next, MainStep, ManagerStep

LEMMA NextHandoverInv == LifecycleInv /\ [Next]_vars => HandoverInv'
<1>. SUFFICES ASSUME LifecycleInv, [Next]_vars PROVE HandoverInv'
  OBVIOUS
<1>. USE LifecycleAssumption DEF LifecycleInv, TypeOK, HandoverInv, Alive, StartupSteps,
     configVars, contextVars, managerVars, mainVars, Exit
<1>1. CASE StepSucceeds
  <2>1. pc' # "check"
    BY <1>1 DEF StepSucceeds, After
  <2>2. /\ manager = "off" /\ manager' \in {"off", "running"}
        /\ pc' \in StartupSteps => manager' = "off"
        /\ UNCHANGED <<status, errCh, cancelled, pending, signals, managerFailed>>
    BY <1>1 DEF StepSucceeds, After
  <2>. QED BY <2>1, <2>2
<1>2. CASE StepFails
  BY <1>2 DEF StepFails
<1>3. CASE RunReturns
  BY <1>3 DEF RunReturns
<1>4. CASE CheckManager
  <2>1. errCh' # <<>> => errCh # <<>>
    BY <1>4 DEF CheckManager
  <2>. QED BY <1>4, <2>1 DEF CheckManager
<1>5. CASE CheckContext
  BY <1>5 DEF CheckContext
<1>6. CASE Send
  <2>1. errCh' # <<>>
    BY <1>6 DEF Send
  <2>. QED BY <1>6, <2>1 DEF Send
<1>7. CASE StopLoop
  BY <1>7 DEF StopLoop
<1>8. CASE ManagerReturns
  BY <1>8 DEF ManagerReturns
<1>9. CASE Signal
  BY <1>9 DEF Signal
<1>10. CASE CancelContext
  BY <1>10 DEF CancelContext
<1>11. ASSUME NEW f \in Edits, Edit(f) PROVE HandoverInv'
  BY <1>11 DEF Edit
<1>12. CASE UNCHANGED vars
  BY <1>12 DEF vars
<1>. QED BY <1>1, <1>2, <1>3, <1>4, <1>5, <1>6, <1>7, <1>8, <1>9, <1>10, <1>11, <1>12
         DEF Next, MainStep, ManagerStep

LEMMA NextStartupInv == LifecycleInv /\ [Next]_vars => StartupInv'
<1>. SUFFICES ASSUME LifecycleInv, [Next]_vars PROVE StartupInv'
  OBVIOUS
<1>. USE LifecycleAssumption DEF LifecycleInv, StartupInv, configVars, contextVars,
     managerVars, mainVars, Exit
<1>1. CASE StepSucceeds
  <2>1. /\ pc \in StartupSteps /\ pc' = After(pc) /\ ~Refused /\ UNCHANGED <<env, file>>
        /\ IF pc = "config" THEN cfg' = LoadFromFile(file, env.skillsImage) /\ loaded' = {file}
                            ELSE UNCHANGED <<cfg, loaded>>
    BY <1>1 DEF StepSucceeds
  <2>2. /\ pc = "limit" => pc' = "config"
        /\ pc # "limit" => pc' \notin {"limit", "config", "exited"}
        /\ pc' \in {"list", "build", "controller", "run", "check"} =>
             pc \in {"local", "list", "build", "controller"}
    BY <2>1 DEF StartupSteps, After
  <2>3. /\ pc = "limit" => multiclusterMaxConcurrentTargets(env) # {}
        /\ pc = "config" => LoadFromFile(file, env.skillsImage) # {}
        /\ pc = "local" => ~cannotTarget(env)
    BY <2>1 DEF Refused
  <2>4. pc # "exited"
    BY <2>1 DEF StartupSteps
  <2>5. /\ \A f \in loaded' : /\ f \in ConfigFile /\ cfg' = LoadFromFile(f, env.skillsImage)
                             /\ cfg' # {}
        /\ loaded' = {} => cfg' = {}
        /\ pc' \notin {"limit", "config", "exited"} => loaded' # {}
    BY <2>1, <2>2, <2>3, <2>4
  <2>6. multiclusterMaxConcurrentTargets(env') # {}
    BY <2>1, <2>3, <2>4
  <2>7. pc' \in {"list", "build", "controller", "run", "check"} => ~cannotTarget(env')
    BY <2>1, <2>2, <2>3
  <2>. QED BY <2>1, <2>5, <2>6, <2>7
<1>2. CASE StepFails
  BY <1>2 DEF StepFails
<1>3. CASE RunReturns
  BY <1>3 DEF RunReturns
<1>4. CASE CheckManager
  BY <1>4 DEF CheckManager
<1>5. CASE CheckContext \/ Send \/ StopLoop \/ ManagerReturns \/ CancelContext
  BY <1>5 DEF CheckContext, Send, StopLoop, ManagerReturns, CancelContext
<1>9. CASE Signal
  BY <1>9 DEF Signal
<1>11. ASSUME NEW f \in Edits, Edit(f) PROVE StartupInv'
  BY <1>11 DEF Edit
<1>12. CASE UNCHANGED vars
  BY <1>12 DEF vars
<1>. QED BY <1>1, <1>2, <1>3, <1>4, <1>5, <1>9, <1>11, <1>12 DEF Next, MainStep, ManagerStep
------------------------------------------------------------------------------
(* Theorems *)

LEMMA InvariantHolds == Spec => []LifecycleInv
<1>1. LifecycleInv /\ [Next]_vars => LifecycleInv'
  BY NextTypeOK, NextHandoverInv, NextStartupInv DEF LifecycleInv
<1>. QED BY InitLifecycleInv, <1>1, PTL DEF Spec

\* Every variable keeps the type its Go counterpart gives it.
THEOREM LifecycleTypeSafe == Spec => []TypeOK
<1>1. LifecycleInv => TypeOK
  BY DEF LifecycleInv
<1>. QED BY InvariantHolds, <1>1, PTL

\* main, the manager's goroutine and the signal context never misread each
\* other, in whatever order they run (runControllerManager, main after Run).
THEOREM HandoverCorrect == Spec => []HandoverInv
<1>1. LifecycleInv => HandoverInv
  BY DEF LifecycleInv
<1>. QED BY InvariantHolds, <1>1, PTL

\* Exit status 0 means that a signal came and that the manager's goroutine has
\* no error to report.
THEOREM SuccessIsSignalled == Spec => []SuccessMeansSignalled
<1>1. Init => SuccessMeansSignalled
  BY DEF Init, SuccessMeansSignalled
<1>2. LifecycleInv /\ SuccessMeansSignalled /\ [Next]_vars => SuccessMeansSignalled'
  <2>. SUFFICES ASSUME LifecycleInv, SuccessMeansSignalled, [Next]_vars
                PROVE  SuccessMeansSignalled'
    OBVIOUS
  <2>. USE DEF SuccessMeansSignalled, Alive, Exit, configVars, contextVars, managerVars, mainVars
  <2>1. CASE CheckManager
    BY <2>1 DEF CheckManager, LifecycleInv, HandoverInv
  <2>2. CASE StepFails \/ Signal
    BY <2>2 DEF StepFails, Signal
  <2>3. CASE \/ StepSucceeds \/ RunReturns \/ ManagerStep \/ ManagerReturns \/ CancelContext
             \/ \E f \in Edits : Edit(f)
    BY <2>3 DEF StepSucceeds, RunReturns, ManagerStep, CheckContext, Send, StopLoop,
                ManagerReturns, CancelContext, Edit
  <2>4. CASE UNCHANGED vars
    BY <2>4 DEF vars
  <2>. QED BY <2>1, <2>2, <2>3, <2>4 DEF Next, MainStep
<1>. QED BY InvariantHolds, <1>1, <1>2, PTL DEF Spec

\* Exit status 1 means that a startup step failed or that the manager gave up by
\* itself, never that it returned because of a signal.
THEOREM FailureIsError == Spec => []FailureMeansError
<1>1. Init => FailureMeansError
  BY DEF Init, FailureMeansError
<1>2. LifecycleInv /\ FailureMeansError /\ [Next]_vars => FailureMeansError'
  <2>. SUFFICES ASSUME LifecycleInv, FailureMeansError, [Next]_vars
                PROVE  FailureMeansError'
    OBVIOUS
  <2>. USE DEF FailureMeansError, Alive, Exit, configVars, contextVars, managerVars, mainVars
  <2>1. CASE CheckManager
    BY <2>1 DEF CheckManager, LifecycleInv, HandoverInv
  <2>2. CASE StepFails \/ Signal
    BY <2>2 DEF StepFails, Signal
  <2>3. CASE \/ StepSucceeds \/ RunReturns \/ ManagerStep \/ ManagerReturns \/ CancelContext
             \/ \E f \in Edits : Edit(f)
    BY <2>3 DEF StepSucceeds, RunReturns, ManagerStep, CheckContext, Send, StopLoop,
                ManagerReturns, CancelContext, Edit
  <2>4. CASE UNCHANGED vars
    BY <2>4 DEF vars
  <2>. QED BY <2>1, <2>2, <2>3, <2>4 DEF Next, MainStep
<1>. QED BY InvariantHolds, <1>1, <1>2, PTL DEF Spec

\* A process that polls has a limit, a target or spokes to come, a namespace,
\* usable times, lower-case receivers and an agent for every step, whatever the
\* file and the environment held.
THEOREM SettingsAreUsable == Spec => []SettingsUsable
<1>1. ASSUME LifecycleInv PROVE SettingsUsable
  <2>. SUFFICES ASSUME Looping PROVE SettingsUsable
    BY DEF SettingsUsable
  <2>. USE <1>1 DEF LifecycleInv, StartupInv, Looping
  <2>1. multiclusterMaxConcurrentTargets(env) \cap (Nat \ {0}) # {}
    <3>1. env.maxTargets \in Setting /\ multiclusterMaxConcurrentTargets(env) # {}
      BY DEF Env
    <3>2. \A n \in multiclusterMaxConcurrentTargets(env) : n \in Nat \ {0}
      BY <3>1, ConfigurationAssumption DEF multiclusterMaxConcurrentTargets, Setting
    <3>. QED BY <3>1, <3>2
  <2>2. localTargets(env) # {} \/ env.multicluster
    BY DEF cannotTarget
  <2>3. namespace(env) # ""
    BY DEF namespace
  <2>4. PICK f \in loaded : f \in ConfigFile /\ cfg = LoadFromFile(f, env.skillsImage) /\ cfg # {}
    OBVIOUS
  <2>5. PICK c \in cfg : TRUE
    BY <2>4
  <2>6. /\ c.pollInterval > 0 /\ c.preRunDelay >= 0 /\ c.postRunDelay >= 0
        /\ \A r \in c.allowedReceivers : r.case = "lower"
    BY <2>4, <2>5, LoadedUsable
  <2>7. "" \notin StepAgents(c.agent)
    BY DEF StepAgents, resolveAgent, defaultAgent
  <2>. QED BY <2>1, <2>2, <2>3, <2>5, <2>6, <2>7 DEF SettingsUsable
<1>. QED BY InvariantHolds, <1>1, PTL

\* A process polls with the defaults or with a file that is right in every part.
THEOREM StartupFailsClosed == Spec => []FailsClosed
<1>1. ASSUME LifecycleInv PROVE FailsClosed
  <2>. SUFFICES ASSUME Looping PROVE FailsClosed
    BY DEF FailsClosed
  <2>1. PICK f \in loaded : f \in ConfigFile /\ LoadFromFile(f, env.skillsImage) # {}
    BY <1>1 DEF LifecycleInv, StartupInv, Looping
  <2>. QED BY <2>1, LoadedWhole DEF FailsClosed
<1>. QED BY InvariantHolds, <1>1, PTL

\* The receivers and the ignored labels in force are the ones written.
THEOREM ListsAreAsWritten == Spec => []ListsAsWritten
<1>1. ASSUME LifecycleInv PROVE ListsAsWritten
  <2>. SUFFICES ASSUME NEW c \in cfg, NEW f \in loaded, f.content = "fields"
                PROVE  /\ \A list \in f.filtering :
                            {r.word : r \in c.allowedReceivers} = {r.word : r \in list}
                       /\ f.filtering = {} => \A list \in f.allowedReceivers :
                            {r.word : r \in c.allowedReceivers} = {r.word : r \in list}
                       /\ \A list \in f.deduplication : c.ignoredLabels = list
    BY DEF ListsAsWritten
  <2>1. f \in ConfigFile /\ c \in LoadFromFile(f, env.skillsImage)
    BY <1>1 DEF LifecycleInv, StartupInv
  <2>. QED BY <2>1, LoadedLists
<1>. QED BY InvariantHolds, <1>1, PTL

\* Runs get every path of every entry that names one and has an image, and
\* nothing else, whatever unusable entries the file has (parseSkills).
THEOREM SkillsAreComplete == Spec => []SkillsComplete
<1>1. ASSUME LifecycleInv PROVE SkillsComplete
  <2>. SUFFICES ASSUME NEW c \in cfg, NEW f \in loaded, f.content = "fields"
                PROVE  Mounts(c.skills) =
                         {m \in Mounts([i \in DOMAIN f.skills |->
                            [f.skills[i] EXCEPT !.image = IF @ = "" THEN env.skillsImage ELSE @]]) :
                            "" \notin {m[1], m[2]}}
    BY DEF SkillsComplete
  <2>1. /\ f \in ConfigFile /\ c \in LoadFromFile(f, env.skillsImage)
        /\ env.skillsImage \in STRING
    BY <1>1 DEF LifecycleInv, StartupInv, Env
  <2>. QED BY <2>1, LoadedSkills
<1>. QED BY InvariantHolds, <1>1, PTL
==============================================================================
