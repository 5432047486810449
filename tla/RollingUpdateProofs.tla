------------------------ MODULE RollingUpdateProofs --------------------------
(***************************************************************************)
(* Theorems about two overlapping processes, for every value of the        *)
(* constants.  What PollLoopProofs shows of one process it shows of the    *)
(* other (NewP); they meet in the runs the API server keeps.               *)
(***************************************************************************)
EXTENDS RollingUpdate, PollLoopProofs

NewP == INSTANCE PollLoopProofs
  WITH loop <- newLoop, worker <- newWorker, backoff <- newBackoff,
       ticker <- newTicker, cancelled <- newCancelled, streak <- newStreak
------------------------------------------------------------------------------
(* What the processes share *)

\* The assumptions on the constants are those of the new process, too.
LEMMA SharedConstants ==
  /\ \A n : NewP!SpokeTarget(n) = SpokeTarget(n)
  /\ \A b : NewP!LocalTarget(b) = LocalTarget(b)
  /\ NewP!Report = Report /\ NewP!Alert = Alert
  /\ NewP!IsFiniteSet(Targets) <=> IsFiniteSet(Targets)
<1>1. \A n : NewP!SpokeTarget(n) = SpokeTarget(n)
  BY DEF NewP!SpokeTarget, SpokeTarget, NewP!SpokeTargetID, SpokeTargetID
<1>2. \A b : NewP!LocalTarget(b) = LocalTarget(b)
  BY DEF NewP!LocalTarget, LocalTarget, NewP!NoID, NoID
<1>3. NewP!Report = Report /\ NewP!Alert = Alert
  BY DEF NewP!Report, Report, NewP!ConditionTypes, ConditionTypes,
         NewP!Alert, Alert, NewP!NilTime, NilTime
<1>4. NewP!IsFiniteSet(Targets) <=> IsFiniteSet(Targets)
  BY DEF NewP!IsFiniteSet, IsFiniteSet
<1>. QED BY <1>1, <1>2, <1>3, <1>4

\* Runs mean the same to both.
LEMMA SharedRuns ==
  /\ NewP!Run = Run
  /\ \A S : NewP!IsFiniteSet(S) <=> IsFiniteSet(S)
  /\ \A r : NewP!Active(r) <=> Active(r)
  /\ \A view : NewP!runNames(view) = runNames(view)
  /\ \A p : NewP!Store(p) = Store(p)
  /\ \A t, g : NewP!NoneActive(t, g) <=> NoneActive(t, g)
  /\ NewP!DistinctNames <=> DistinctNames
<1>1. NewP!Run = Run
  BY DEF NewP!Run, Run, NewP!RunName, RunName, NewP!Condition, Condition, NewP!Report, Report,
         NewP!ConditionTypes, ConditionTypes, NewP!NilTime, NilTime
<1>2. \A S : NewP!IsFiniteSet(S) <=> IsFiniteSet(S)
  BY DEF NewP!IsFiniteSet, IsFiniteSet
<1>3. \A r : NewP!Active(r) <=> Active(r)
  BY DEF NewP!Active, Active, NewP!isTerminal, isTerminal, NewP!DerivePhase, DerivePhase,
         NewP!Holds, Holds, NewP!NoActionRequired, NoActionRequired
<1>4. \A view : NewP!runNames(view) = runNames(view)
  BY DEF NewP!runNames, runNames
<1>5. \A p : NewP!Store(p) = Store(p)
  BY <1>4 DEF NewP!Store, Store
<1>6. \A t, g : NewP!NoneActive(t, g) <=> NoneActive(t, g)
  BY <1>3 DEF NewP!NoneActive, NoneActive, NewP!ListAgenticRuns, ListAgenticRuns
<1>7. NewP!DistinctNames <=> DistinctNames
  BY DEF NewP!DistinctNames, DistinctNames
<1>. QED BY <1>1, <1>2, <1>3, <1>4, <1>5, <1>6, <1>7

LEMMA SharedNames ==
  /\ NewP!RunsInOrder <=> RunsInOrder
  /\ NewP!RunsInOrder' <=> RunsInOrder'
  /\ NewP!RunsStay <=> RunsStay
<1>. USE SharedRuns DEF NewP!RunsInOrder, RunsInOrder, NewP!NamesUnique, NamesUnique,
                        NewP!Preceded, Preceded
<1>1. NewP!RunsInOrder <=> RunsInOrder
  OBVIOUS
<1>2. NewP!RunsInOrder' <=> RunsInOrder'
  OBVIOUS
<1>3. NewP!RunsStay <=> RunsStay
  BY DEF NewP!RunsStay, RunsStay
<1>. QED BY <1>1, <1>2, <1>3
------------------------------------------------------------------------------
(* The steps of the new process *)

LEMMA NewLoopStep == New!LoopStep => NewP!LoopStep
<1>. USE DEF New!world, NewP!world, New!ReturnToRun, NewP!ReturnToRun,
             New!Running, NewP!Running
<1>0. New!ReadOLSConfig => NewP!ReadOLSConfig
  BY DEF New!ReadOLSConfig, NewP!ReadOLSConfig, New!Suspended, NewP!Suspended
<1>1. New!GateFails => NewP!GateFails
  BY DEF New!GateFails, NewP!GateFails, New!AtGate, NewP!AtGate, New!Fault, NewP!Fault
<1>2. New!GateClosed => NewP!GateClosed
  BY DEF New!GateClosed, NewP!GateClosed
<1>3. New!GateOpens => NewP!GateOpens
  BY DEF New!GateOpens, NewP!GateOpens, New!BackoffGC, NewP!BackoffGC, New!hasExpired,
         NewP!hasExpired, New!NoEntry, NewP!NoEntry
<1>4. /\ New!StopSpawning => NewP!StopSpawning
      /\ New!EndReconcile => NewP!EndReconcile
      /\ New!Tick => NewP!Tick
      /\ New!Stop => NewP!Stop
  BY DEF New!StopSpawning, NewP!StopSpawning, New!EndReconcile, NewP!EndReconcile,
         New!Tick, NewP!Tick, New!Stop, NewP!Stop
<1>5. ASSUME NEW t \in Targets, New!StartTarget(t) PROVE NewP!StartTarget(t)
  BY <1>5 DEF New!StartTarget, NewP!StartTarget, New!IsNext, NewP!IsNext, New!isLocal,
              NewP!isLocal, New!NoID, NewP!NoID, New!SlotFree, NewP!SlotFree, New!Slots,
              NewP!Slots, New!Off, NewP!Off, New!Cardinality, NewP!Cardinality
<1>. QED BY <1>0, <1>1, <1>2, <1>3, <1>4, <1>5
         DEF New!LoopStep, NewP!LoopStep, New!GateStep, NewP!GateStep, New!RunStep, NewP!RunStep

\* What decides a request, and the request, mean the same to both.
LEMMA NewRequest ==
  /\ \A t \in Targets : \A alert : New!Skipped(t, alert) <=> NewP!Skipped(t, alert)
  /\ \A alert, t, view : New!requestFor(alert, t, view) = NewP!requestFor(alert, t, view)
<1>1. \A run : New!Active(run) <=> NewP!Active(run)
  BY DEF New!Active, NewP!Active, New!isTerminal, NewP!isTerminal, New!DerivePhase,
         NewP!DerivePhase, New!Holds, NewP!Holds, New!NoActionRequired, NewP!NoActionRequired
<1>2. \A conds : New!DerivePhase(conds) = NewP!DerivePhase(conds)
  BY DEF New!DerivePhase, NewP!DerivePhase, New!Holds, NewP!Holds,
         New!NoActionRequired, NewP!NoActionRequired
<1>3. \A conds : New!terminalTime(conds) = NewP!terminalTime(conds)
  <2>1. \A S : New!Min(S) = NewP!Min(S)
    BY DEF New!Min, NewP!Min
  <2>2. \A conds : New!findFailedConditionType(conds) = NewP!findFailedConditionType(conds)
    BY <2>1 DEF New!findFailedConditionType, NewP!findFailedConditionType
  <2>3. \A conds : New!terminalConditionType(conds) = NewP!terminalConditionType(conds)
    BY <1>2, <2>2 DEF New!terminalConditionType, NewP!terminalConditionType
  <2>. QED BY <2>1, <2>3 DEF New!terminalTime, NewP!terminalTime, New!NilTime, NewP!NilTime
<1>4. \A group, view, now, window :
        New!tooRecent(group, view, now, window) <=> NewP!tooRecent(group, view, now, window)
  BY <1>3 DEF New!tooRecent, NewP!tooRecent, New!NilTime, NewP!NilTime
<1>5. \A group, view : New!hasActiveRun(group, view) <=> NewP!hasActiveRun(group, view)
  BY <1>1 DEF New!hasActiveRun, NewP!hasActiveRun
<1>6. \A t, group : New!InBackoff(t, group) <=> NewP!InBackoff(t, group)
  BY DEF New!InBackoff, NewP!InBackoff, New!IsInBackOffSinceUpdate,
         NewP!IsInBackOffSinceUpdate, New!hasExpired, NewP!hasExpired, New!Key, NewP!Key,
         New!creationBackoffKey, NewP!creationBackoffKey
<1>7. ASSUME NEW t \in Targets, NEW alert
      PROVE  New!Skipped(t, alert) <=> NewP!Skipped(t, alert)
  BY <1>4, <1>5, <1>6
     DEF New!Skipped, NewP!Skipped, New!skipReceiver, NewP!skipReceiver, New!ToLower,
         NewP!ToLower, New!tooEarly, NewP!tooEarly, New!cannotBuild, NewP!cannotBuild,
         New!NilTime, NewP!NilTime
<1>8. \A base, names : New!NextAvailableName(base, names) = NewP!NextAvailableName(base, names)
  BY DEF New!NextAvailableName, NewP!NextAvailableName, New!candidateName,
         NewP!candidateName, New!retryName, NewP!retryName, New!Cardinality, NewP!Cardinality
<1>9. \A alert, t : New!BuildForTarget(alert, t) = NewP!BuildForTarget(alert, t)
  BY DEF New!BuildForTarget, NewP!BuildForTarget, New!buildName, NewP!buildName,
         New!startsAtHash, NewP!startsAtHash, New!NilTime, NewP!NilTime
<1>10. \A alert, t, view : New!requestFor(alert, t, view) = NewP!requestFor(alert, t, view)
  BY <1>2, <1>8, <1>9
     DEF New!requestFor, NewP!requestFor, New!hasEmergencyStoppedNameConflict,
         NewP!hasEmergencyStoppedNameConflict, New!runNames, NewP!runNames
<1>. QED BY <1>7, <1>10

LEMMA NewWorkerStep ==
  ASSUME NEW t \in Targets, New!WorkerStep(t)
  PROVE  NewP!WorkerStep(t)
<1>. USE DEF New!world, NewP!world, New!CtxDone, NewP!CtxDone, New!TimedOut, NewP!TimedOut,
             New!Off, NewP!Off, New!Fault, NewP!Fault, New!AtAlert, NewP!AtAlert,
             New!Continue, NewP!Continue, New!Key, NewP!Key,
             New!creationBackoffKey, NewP!creationBackoffKey
<1>1. New!FetchAlerts(t) => NewP!FetchAlerts(t)
  BY DEF New!FetchAlerts, NewP!FetchAlerts
<1>2. New!ListRuns(t) => NewP!ListRuns(t)
  BY DEF New!ListRuns, NewP!ListRuns, New!ListAgenticRuns, NewP!ListAgenticRuns
<1>3. New!ReadFails(t) => NewP!ReadFails(t)
  BY DEF New!ReadFails, NewP!ReadFails
<1>4. New!SkipAlert(t) => NewP!SkipAlert(t)
  BY NewRequest DEF New!SkipAlert, NewP!SkipAlert
<1>5. New!IssueCreate(t) => NewP!IssueCreate(t)
  BY NewRequest DEF New!IssueCreate, NewP!IssueCreate
<1>6. New!EndTarget(t) => NewP!EndTarget(t)
  BY DEF New!EndTarget, NewP!EndTarget
<1>7. New!CreateReturns(t) => NewP!CreateReturns(t)
  BY DEF New!CreateReturns, NewP!CreateReturns, New!NoEntry, NewP!NoEntry,
         New!NoStreak, NewP!NoStreak
<1>8. New!CreateFails(t) => NewP!CreateFails(t)
  BY DEF New!CreateFails, NewP!CreateFails, New!BackoffNext, NewP!BackoffNext,
         New!hasExpired, NewP!hasExpired, New!OneMore, NewP!OneMore, New!Abandon,
         NewP!Abandon, New!Unanswered, NewP!Unanswered
<1>9. New!CreateAborted(t) => NewP!CreateAborted(t)
  BY DEF New!CreateAborted, NewP!CreateAborted, New!Abandon, NewP!Abandon,
         New!Unanswered, NewP!Unanswered
<1>. QED BY <1>1, <1>2, <1>3, <1>4, <1>5, <1>6, <1>7, <1>8, <1>9
         DEF New!WorkerStep, NewP!WorkerStep

LEMMA NewServerCreate ==
  ASSUME NEW t \in Targets, New!ServerCreate(t)
  PROVE  NewP!ServerCreate(t)
BY DEF New!ServerCreate, NewP!ServerCreate, New!Store, NewP!Store, New!runNames, NewP!runNames
------------------------------------------------------------------------------
(* Types *)

\* The steps of one process leave the other's variables alone.
LEMMA OldWaitsType ==
  ASSUME TypeInv, NewP!TypeInv', UNCHANGED process
  PROVE  TypeInv'
BY SharedRuns DEF process, TypeInv, TypeOK, FiniteRuns,
                  NewP!TypeInv, NewP!TypeOK, NewP!FiniteRuns

LEMMA NewWaitsType ==
  ASSUME NewP!TypeInv, TypeInv', UNCHANGED newProcess
  PROVE  NewP!TypeInv'
BY SharedRuns DEF newProcess, TypeInv, TypeOK, FiniteRuns,
                  NewP!TypeInv, NewP!TypeOK, NewP!FiniteRuns

LEMMA SharedFresh ==
  /\ NewP!Fresh = Fresh
  /\ NewP!Worker = Worker
  /\ NewP!BackoffKeys = BackoffKeys
<1>1. NewP!Fresh = Fresh
  BY DEF NewP!Fresh, Fresh, NewP!Off, Off, NewP!NoEntry, NoEntry, NewP!NoStreak, NoStreak,
         NewP!BackoffKeys, BackoffKeys
<1>2. NewP!Worker = Worker
  BY SharedRuns, SharedConstants DEF NewP!Worker, Worker
<1>3. NewP!BackoffKeys = BackoffKeys
  BY DEF NewP!BackoffKeys, BackoffKeys
<1>. QED BY <1>1, <1>2, <1>3

BothTyped == TypeInv /\ NewP!TypeInv

LEMMA InitBothTyped == RollingInit => BothTyped
<1>. SUFFICES ASSUME RollingInit PROVE BothTyped
  OBVIOUS
<1>1. TypeInv
  BY InitTypeInv DEF RollingInit
<1>2. /\ newLoop = [pc |-> "stopped", pending |-> {}, asked |-> clock, opened |-> 0]
      /\ newTicker = [next |-> 0, ready |-> FALSE]
      /\ newCancelled = TRUE
  BY DEF RollingInit, Fresh
<1>3. /\ newBackoff = [k \in BackoffKeys |-> [dur |-> 0, last |-> 0]]
      /\ newStreak = [k \in Targets \X Groups |-> [n |-> 0, at |-> 0]]
      /\ newWorker = [t \in Targets |-> Off]
  BY DEF RollingInit, Fresh, NoEntry, NoStreak
<1>4. NewP!TypeInv
  BY <1>1, <1>2, <1>3, OffType, SharedRuns, SharedFresh
     DEF TypeInv, TypeOK, FiniteRuns, NewP!TypeInv, NewP!TypeOK, NewP!FiniteRuns
<1>. QED BY <1>1, <1>4 DEF BothTyped

LEMMA NextBothTyped == BothTyped /\ [RollingNext]_rollingVars => BothTyped'
<1>. SUFFICES ASSUME TypeInv, NewP!TypeInv, [RollingNext]_rollingVars
              PROVE  TypeInv' /\ NewP!TypeInv'
  BY DEF BothTyped
<1>1. CASE StartNew
  <2>1. TypeInv'
    BY <1>1 DEF StartNew, vars, world, process, TypeInv, TypeOK, FiniteRuns
  <2>2. newLoop' = [pc |-> "gate", pending |-> {}, asked |-> clock, opened |-> 0]
    BY <1>1 DEF StartNew, Fresh
  <2>3. UNCHANGED <<newWorker, newBackoff, newTicker, newStreak>> /\ newCancelled' \in BOOLEAN
    BY <1>1 DEF StartNew
  <2>4. NewP!TypeInv'
    BY <2>1, <2>2, <2>3, SharedRuns
       DEF TypeInv, TypeOK, FiniteRuns, NewP!TypeInv, NewP!TypeOK, NewP!FiniteRuns
  <2>. QED BY <2>1, <2>4
<1>2. CASE TerminateOld
  <2>1. TypeInv'
    BY <1>2 DEF TerminateOld, world, TypeInv, TypeOK, FiniteRuns
  <2>. QED BY <1>2, <2>1, NewWaitsType DEF TerminateOld
<1>3. CASE KillOld
  <2>1. worker' = [t \in Targets |-> Off]
    BY <1>3 DEF KillOld, Fresh
  <2>2. inflight' \subseteq Run
    BY <1>3 DEF KillOld, Abandon, Unanswered, Worker, TypeInv, TypeOK
  <2>3. TypeInv'
    BY <1>3, <2>1, <2>2, OffType DEF KillOld, TypeInv, TypeOK, FiniteRuns
  <2>. QED BY <1>3, <2>3, NewWaitsType DEF KillOld
<1>4. CASE OldStep
  <2>1. TypeInv'
    BY <1>4, LoopTypeInv, WorkerStepTypeInv, EnvironmentTypeInv DEF OldStep, Environment
  <2>. QED BY <1>4, <2>1, NewWaitsType DEF OldStep
<1>5. CASE NewStep
  <2>. USE TimeAssumption, TargetAssumption, AlertAssumption, SharedConstants
  <2>1. ASSUME New!LoopStep PROVE NewP!TypeInv'
    BY <2>1, NewLoopStep, NewP!LoopTypeInv
  <2>2. ASSUME NEW t \in Targets, New!WorkerStep(t) PROVE NewP!TypeInv'
    BY <2>2, NewWorkerStep, NewP!WorkerStepTypeInv
  <2>3. ASSUME NEW t \in Targets, New!ServerCreate(t) PROVE NewP!TypeInv'
    BY <2>3, NewServerCreate, NewP!EnvironmentTypeInv DEF NewP!Environment
  <2>. QED BY <1>5, <2>1, <2>2, <2>3, OldWaitsType DEF NewStep
<1>6. CASE BothWait
  <2>1. TypeInv'
    BY <1>6, EnvironmentTypeInv DEF BothWait, Environment
  <2>2. /\ newTicker' \in [next : Nat, ready : BOOLEAN]
        /\ UNCHANGED <<newLoop, newWorker, newBackoff, newCancelled, newStreak>>
    BY <1>6, TimeAssumption DEF BothWait, New!AdvanceClock, NewP!TypeInv, NewP!TypeOK
  <2>3. NewP!TypeInv'
    BY <2>1, <2>2, SharedRuns
       DEF TypeInv, TypeOK, FiniteRuns, NewP!TypeInv, NewP!TypeOK, NewP!FiniteRuns
  <2>. QED BY <2>1, <2>3
<1>7. CASE OtherStep
  <2>1. TypeInv'
    BY <1>7, EnvironmentTypeInv DEF OtherStep, Environment
  <2>. QED BY <1>7, <2>1, NewWaitsType DEF OtherStep
<1>8. CASE UNCHANGED rollingVars
  <2>1. TypeInv'
    BY <1>8 DEF rollingVars, vars, world, process, TypeInv, TypeOK, FiniteRuns
  <2>. QED BY <1>8, <2>1, NewWaitsType DEF rollingVars
<1>. QED BY <1>1, <1>2, <1>3, <1>4, <1>5, <1>6, <1>7, <1>8 DEF RollingNext
------------------------------------------------------------------------------
(* What a step does to the runs and to what the processes know of them *)

BothKnow == ProcessInv /\ NewP!ProcessInv

\* No worker comes to take a group for free in which a run is under way.
NoneMisled ==
  \A t \in Targets, g \in Groups :
    /\ Unaware(t, g)' => Unaware(t, g) \/ NoneActive(t, g)
    /\ NewP!Unaware(t, g)' => NewP!Unaware(t, g) \/ NoneActive(t, g)

\* A worker asks the server for p, and knows of it once it is there.
Creates(t, p) == p \in Run /\ p.label = t.label /\ Active(p) /\ runs' = Store(p)

OldCreates ==
  \E t \in Targets : \E p \in Run :
    /\ Creates(t, p) /\ Unaware(t, p.group)
    /\ p.name \notin runNames(runs) => ~Unaware(t, p.group)'

NewCreates ==
  \E t \in Targets : \E p \in Run :
    /\ Creates(t, p) /\ NewP!Unaware(t, p.group)
    /\ p.name \notin runNames(runs) => ~NewP!Unaware(t, p.group)'

\* A process that does not step learns and forgets nothing.
LEMMA OldWaits ==
  ASSUME BothTyped, BothTyped', BothKnow, UNCHANGED <<worker, backoff, loop>>, clock' >= clock
  PROVE  ProcessInv' /\ \A t \in Targets, g \in Groups : Unaware(t, g)' => Unaware(t, g)
BY ProcessWaits DEF BothTyped, BothKnow

LEMMA NewWaits ==
  ASSUME BothTyped, BothTyped', BothKnow,
         UNCHANGED <<newWorker, newBackoff, newLoop>>, clock' >= clock
  PROVE  /\ NewP!ProcessInv'
         /\ \A t \in Targets, g \in Groups : NewP!Unaware(t, g)' => NewP!Unaware(t, g)
BY NewP!ProcessWaits, TimeAssumption, TargetAssumption, AlertAssumption, SharedConstants
   DEF BothTyped, BothKnow

LEMMA OldStepEffect ==
  ASSUME DistinctNames, BothTyped, BothTyped', BothKnow, OldStep
  PROVE  BothKnow' /\ NoneMisled /\ (UNCHANGED runs \/ OldCreates)
<1>1. ASSUME clock' >= clock
      PROVE  /\ NewP!ProcessInv'
             /\ \A t \in Targets, g \in Groups : NewP!Unaware(t, g)' => NewP!Unaware(t, g)
  BY <1>1, NewWaits DEF OldStep, newProcess
<1>2. clock \in Nat /\ (UNCHANGED clock => clock' >= clock)
  BY DEF BothTyped, TypeInv, TypeOK
<1>3. CASE LoopStep
  <2>1. /\ UNCHANGED <<runs, clock>> /\ ProcessInv'
        /\ \A t \in Targets, g \in Groups : Unaware(t, g)' => Unaware(t, g)
    BY <1>3, LoopStepProcess DEF BothTyped, BothKnow
  <2>. QED BY <1>1, <1>2, <2>1 DEF BothKnow, NoneMisled
<1>4. ASSUME NEW t \in Targets, WorkerStep(t)
      PROVE  BothKnow' /\ NoneMisled /\ UNCHANGED runs
  <2>1. /\ UNCHANGED <<runs, clock>> /\ ProcessInv'
        /\ \A u \in Targets, g \in Groups : Unaware(u, g)' => Unaware(u, g) \/ NoneActive(u, g)
    BY <1>4, WorkerStepProcess DEF BothTyped, BothKnow
  <2>. QED BY <1>1, <1>2, <2>1 DEF BothKnow, NoneMisled
<1>5. ASSUME NEW t \in Targets, ServerCreate(t)
      PROVE  BothKnow' /\ NoneMisled /\ OldCreates
  <2>1. /\ UNCHANGED clock /\ ProcessInv'
        /\ \A u \in Targets, g \in Groups : Unaware(u, g)' => Unaware(u, g)
        /\ \E p \in worker[t].req :
             /\ runs' = Store(p) /\ p \in Run /\ p.label = t.label /\ Active(p)
             /\ Unaware(t, p.group)
             /\ p.name \notin runNames(runs) => ~Unaware(t, p.group)'
    BY <1>5, ServerCreateProcess DEF BothTyped, BothKnow
  <2>. QED BY <1>1, <1>2, <2>1 DEF BothKnow, NoneMisled, OldCreates, Creates
<1>. QED BY <1>3, <1>4, <1>5 DEF OldStep

LEMMA NewStepEffect ==
  ASSUME DistinctNames, BothTyped, BothTyped', BothKnow, NewStep
  PROVE  BothKnow' /\ NoneMisled /\ (UNCHANGED runs \/ NewCreates)
<1>0. clock \in Nat
  BY DEF BothTyped, TypeInv, TypeOK
<1>2. clock \in Nat /\ (UNCHANGED clock => clock' >= clock)
  BY <1>0
<1>. USE TimeAssumption, TargetAssumption, AlertAssumption, SharedConstants
<1>1. ASSUME clock' >= clock
      PROVE  ProcessInv' /\ \A t \in Targets, g \in Groups : Unaware(t, g)' => Unaware(t, g)
  BY <1>1, OldWaits DEF NewStep, process
<1>3. CASE New!LoopStep
  <2>1. /\ UNCHANGED <<runs, clock>> /\ NewP!ProcessInv'
        /\ \A t \in Targets, g \in Groups : NewP!Unaware(t, g)' => NewP!Unaware(t, g)
    BY <1>3, NewLoopStep, NewP!LoopStepProcess DEF BothTyped, BothKnow
  <2>. QED BY <1>1, <1>2, <2>1 DEF BothKnow, NoneMisled
<1>4. ASSUME NEW t \in Targets, New!WorkerStep(t)
      PROVE  BothKnow' /\ NoneMisled /\ UNCHANGED runs
  <2>1. /\ UNCHANGED <<runs, clock>> /\ NewP!ProcessInv'
        /\ \A u \in Targets, g \in Groups :
             NewP!Unaware(u, g)' => NewP!Unaware(u, g) \/ NewP!NoneActive(u, g)
    BY <1>4, NewWorkerStep, NewP!WorkerStepProcess, SharedRuns DEF BothTyped, BothKnow
  <2>. QED BY <1>1, <1>2, <2>1, SharedRuns DEF BothKnow, NoneMisled
<1>5. ASSUME NEW t \in Targets, New!ServerCreate(t)
      PROVE  BothKnow' /\ NoneMisled /\ NewCreates
  <2>1. /\ UNCHANGED clock /\ NewP!ProcessInv'
        /\ \A u \in Targets, g \in Groups : NewP!Unaware(u, g)' => NewP!Unaware(u, g)
        /\ \E p \in newWorker[t].req :
             /\ runs' = NewP!Store(p) /\ p \in NewP!Run /\ p.label = t.label /\ NewP!Active(p)
             /\ NewP!Unaware(t, p.group)
             /\ p.name \notin NewP!runNames(runs) => ~NewP!Unaware(t, p.group)'
    BY <1>5, NewServerCreate, NewP!ServerCreateProcess DEF BothTyped, BothKnow
  <2>. QED BY <1>1, <1>2, <2>1, SharedRuns DEF BothKnow, NoneMisled, NewCreates, Creates
<1>. QED BY <1>3, <1>4, <1>5 DEF NewStep

LEMMA InitBothKnow ==
  ASSUME RollingInit
  PROVE  /\ BothKnow
         /\ \A t \in Targets, g \in Groups : ~Unaware(t, g) /\ ~NewP!Unaware(t, g)
<1>1. clock \in Nat /\ worker = Fresh.worker /\ newWorker = NewP!Fresh.worker
  BY SharedFresh DEF RollingInit, Init
<1>. QED BY <1>1, InitProcessInv, NewP!InitProcessInv, TimeAssumption, TargetAssumption,
            AlertAssumption, SharedConstants DEF BothKnow

LEMMA StepEffect ==
  ASSUME DistinctNames, BothTyped, BothTyped', BothKnow, [RollingNext]_rollingVars
  PROVE  /\ BothKnow' /\ NoneMisled
         /\ \/ UNCHANGED runs
            \/ OldStep /\ OldCreates
            \/ NewStep /\ NewCreates
            \/ OtherStep
<1>1. ASSUME UNCHANGED <<worker, backoff, loop, newWorker, newBackoff, newLoop>>,
             clock' >= clock
      PROVE  BothKnow' /\ NoneMisled
  BY <1>1, OldWaits, NewWaits DEF BothKnow, NoneMisled
<1>2. clock \in Nat /\ (UNCHANGED clock => clock' >= clock)
  BY DEF BothTyped, TypeInv, TypeOK
<1>3. CASE StartNew
  <2>1. UNCHANGED <<runs, clock, worker, backoff, loop, newWorker, newBackoff>>
    BY <1>3 DEF StartNew, vars, world, process
  <2>2. \A t \in Targets : newWorker[t].pc = "off"
    BY <1>3 DEF StartNew, BothKnow, NewP!ProcessInv, NewP!WorkersAwaited
  <2>3. ProcessInv' /\ \A t \in Targets, g \in Groups : Unaware(t, g)' => Unaware(t, g)
    BY <1>2, <2>1, OldWaits
  <2>4. NewP!WorkersAwaited'
    BY <2>1, <2>2 DEF NewP!WorkersAwaited
  <2>5. \A t \in Targets : NewP!Careful(t)' /\ \A g : ~NewP!Unaware(t, g)'
    BY <2>1, <2>2 DEF NewP!Careful, NewP!RequestFree, NewP!Unaware, BothKnow, NewP!ProcessInv
  <2>. QED BY <2>1, <2>3, <2>4, <2>5 DEF BothKnow, NewP!ProcessInv, NoneMisled
<1>4. CASE TerminateOld
  <2>1. UNCHANGED <<runs, clock, worker, backoff, loop, newWorker, newBackoff, newLoop>>
    BY <1>4 DEF TerminateOld, world, newProcess
  <2>. QED BY <1>1, <1>2, <2>1
<1>5. CASE KillOld
  <2>1. /\ UNCHANGED <<runs, clock, newWorker, newBackoff, newLoop>>
        /\ worker' = Fresh.worker
    BY <1>5 DEF KillOld, newProcess
  <2>2. ProcessInv' /\ \A t \in Targets, g \in Groups : ~Unaware(t, g)'
    <3>1. \A t \in Targets : worker'[t].pc = "off" /\ worker'[t].now = 0
      BY <2>1 DEF Fresh, Off
    <3>. QED BY <1>2, <2>1, <3>1
             DEF ProcessInv, WorkersAwaited, Careful, RequestFree, Unaware
  <2>. QED BY <1>2, <2>1, <2>2, NewWaits DEF BothKnow, NoneMisled
<1>6. CASE BothWait
  <2>1. /\ UNCHANGED <<runs, worker, backoff, loop, newWorker, newBackoff, newLoop>>
        /\ clock' >= clock
    BY <1>2, <1>6 DEF BothWait, AdvanceClock, New!AdvanceClock
  <2>. QED BY <1>1, <2>1
<1>7. CASE OtherStep
  <2>1. UNCHANGED <<clock, worker, backoff, loop, newWorker, newBackoff, newLoop>>
    BY <1>7 DEF OtherStep, OperatorStep, process, newProcess
  <2>. QED BY <1>1, <1>2, <1>7, <2>1
<1>8. CASE UNCHANGED rollingVars
  <2>1. UNCHANGED <<runs, clock, worker, backoff, loop, newWorker, newBackoff, newLoop>>
    BY <1>8 DEF rollingVars, vars, world, process, newProcess
  <2>. QED BY <1>1, <1>2, <2>1
<1>. QED BY <1>3, <1>4, <1>5, <1>6, <1>7, <1>8, OldStepEffect, NewStepEffect DEF RollingNext
------------------------------------------------------------------------------
(* One run too many at most *)

\* A worker that may ask for a run leaves room for it: two workers do so only for a
\* group without runs under way.
RoomLeft(t, g) ==
  LET n == Cardinality(ActiveIn(t.label, g))
  IN  /\ n <= 2
      /\ Unaware(t, g) \/ NewP!Unaware(t, g) => n <= 1
      /\ Unaware(t, g) /\ NewP!Unaware(t, g) => n = 0

CountInv == \A t \in Targets, g \in Groups : RoomLeft(t, g)

LEMMA ActiveInFinite ==
  ASSUME BothTyped, NEW label, NEW g
  PROVE  /\ IsFiniteSet(ActiveIn(label, g))
         /\ Cardinality(ActiveIn(label, g)) \in Nat
         /\ ActiveIn(label, g) = {} => Cardinality(ActiveIn(label, g)) = 0
<1>1. IsFiniteSet(ActiveIn(label, g))
  BY FS_Subset DEF ActiveIn, BothTyped, TypeInv, FiniteRuns
<1>. QED BY <1>1, FS_CardinalityType, FS_EmptySet

LEMMA ActiveInCounted ==
  ASSUME BothTyped, BothTyped', NEW label, NEW g
  PROVE  /\ Cardinality(ActiveIn(label, g)) \in Nat
         /\ Cardinality(ActiveIn(label, g)') \in Nat
<1>1. IsFiniteSet(ActiveIn(label, g)')
  BY FS_Subset DEF ActiveIn, BothTyped, TypeInv, FiniteRuns
<1>. QED BY <1>1, FS_CardinalityType, ActiveInFinite

LEMMA NoneIsNone ==
  ASSUME NEW t \in Targets, NEW g, NoneActive(t, g)
  PROVE  ActiveIn(t.label, g) = {}
BY DEF NoneActive, ListAgenticRuns, ActiveIn

\* Room is left if no run more is under way in the group.
LEMMA RoomStays ==
  ASSUME BothTyped, BothTyped', CountInv, NoneMisled, NEW t \in Targets, NEW g \in Groups,
         Cardinality(ActiveIn(t.label, g)') <= Cardinality(ActiveIn(t.label, g))
  PROVE  RoomLeft(t, g)'
<1>. DEFINE n == Cardinality(ActiveIn(t.label, g))
            m == Cardinality(ActiveIn(t.label, g)')
<1>1. n \in Nat /\ m \in Nat /\ m <= n
  <2>1. n \in Nat /\ m \in Nat
    BY ActiveInCounted
  <2>. QED BY <2>1
<1>2. /\ n <= 2
      /\ Unaware(t, g) \/ NewP!Unaware(t, g) => n <= 1
      /\ Unaware(t, g) /\ NewP!Unaware(t, g) => n = 0
  BY DEF CountInv, RoomLeft
<1>3. NoneActive(t, g) => n = 0
  BY NoneIsNone, ActiveInFinite
<1>4. /\ Unaware(t, g)' => Unaware(t, g) \/ NoneActive(t, g)
      /\ NewP!Unaware(t, g)' => NewP!Unaware(t, g) \/ NoneActive(t, g)
  BY DEF NoneMisled
<1>5. /\ m <= 2
      /\ Unaware(t, g)' \/ NewP!Unaware(t, g)' => m <= 1
      /\ Unaware(t, g)' /\ NewP!Unaware(t, g)' => m = 0
  <2>. HIDE DEF n, m
  <2>. QED BY <1>1, <1>2, <1>3, <1>4
<1>. QED BY <1>5 DEF RoomLeft

\* A create changes what is under way in one group of one target.
LEMMA CreatedElsewhere ==
  ASSUME NEW t \in Targets, NEW p, Creates(t, p), NEW u \in Targets, NEW g,
         u # t \/ g # p.group
  PROVE  ActiveIn(u.label, g)' = ActiveIn(u.label, g)
<1>1. p.label # u.label \/ p.group # g
  BY DistinctLabels DEF Creates
<1>2. runs' = runs \/ runs' = runs \cup {p}
  BY DEF Creates, Store
<1>. QED BY <1>1, <1>2 DEF ActiveIn

\* A worker creates a run where room was left for it.
LEMMA CreateCountInv ==
  ASSUME BothTyped, BothTyped', CountInv, NoneMisled, NEW t \in Targets, NEW p \in Run,
         Creates(t, p),
         \/ /\ Unaware(t, p.group)
            /\ p.name \notin runNames(runs) => ~Unaware(t, p.group)'
         \/ /\ NewP!Unaware(t, p.group)
            /\ p.name \notin runNames(runs) => ~NewP!Unaware(t, p.group)'
  PROVE  CountInv'
<1>1. ASSUME NEW u \in Targets, NEW g \in Groups,
             ActiveIn(u.label, g)' = ActiveIn(u.label, g)
      PROVE  RoomLeft(u, g)'
  <2>1. Cardinality(ActiveIn(u.label, g)') <= Cardinality(ActiveIn(u.label, g))
    BY <1>1, ActiveInCounted
  <2>. QED BY <2>1, RoomStays
<1>2. CASE p.name \in runNames(runs)
  <2>1. runs' = runs
    BY <1>2 DEF Creates, Store
  <2>. QED BY <1>1, <2>1 DEF CountInv, ActiveIn
<1>3. CASE p.name \notin runNames(runs)
  <2>1. ASSUME NEW u \in Targets, NEW g \in Groups, u # t \/ g # p.group
        PROVE  RoomLeft(u, g)'
    BY <1>1, <2>1, CreatedElsewhere
  <2>. DEFINE g0 == p.group
              k == Cardinality(ActiveIn(t.label, g0))
              m == Cardinality(ActiveIn(t.label, g0)')
  <2>2. g0 \in Groups
    BY DEF Run
  <2>3. ActiveIn(t.label, g0)' = ActiveIn(t.label, g0) \cup {p}
    <3>1. runs' = runs \cup {p} /\ p.label = t.label /\ Active(p)
      BY <1>3 DEF Creates, Store
    <3>. QED BY <3>1 DEF ActiveIn
  <2>4. k \in Nat /\ m \in Nat /\ m <= k + 1
    <3>1. IsFiniteSet(ActiveIn(t.label, g0)) /\ k \in Nat
      BY ActiveInFinite
    <3>2. m = k \/ m = k + 1
      BY <2>3, <3>1, FS_AddElement
    <3>. QED BY <3>1, <3>2
  <2>5. /\ k <= 2
        /\ Unaware(t, g0) \/ NewP!Unaware(t, g0) => k <= 1
        /\ Unaware(t, g0) /\ NewP!Unaware(t, g0) => k = 0
    BY <2>2 DEF CountInv, RoomLeft
  <2>6. NoneActive(t, g0) => k = 0
    BY NoneIsNone, ActiveInFinite
  <2>7. /\ Unaware(t, g0)' => Unaware(t, g0) \/ NoneActive(t, g0)
        /\ NewP!Unaware(t, g0)' => NewP!Unaware(t, g0) \/ NoneActive(t, g0)
    BY <2>2 DEF NoneMisled
  <2>8. /\ m <= 2
        /\ Unaware(t, g0)' \/ NewP!Unaware(t, g0)' => m <= 1
        /\ Unaware(t, g0)' /\ NewP!Unaware(t, g0)' => m = 0
    <3>1. \/ Unaware(t, g0) /\ ~Unaware(t, g0)'
          \/ NewP!Unaware(t, g0) /\ ~NewP!Unaware(t, g0)'
      BY <1>3
    <3>. HIDE DEF k, m, g0
    <3>. QED BY <2>4, <2>5, <2>6, <2>7, <3>1
  <2>9. RoomLeft(t, g0)'
    BY <2>8 DEF RoomLeft
  <2>. QED BY <2>1, <2>9 DEF CountInv
<1>. QED BY <1>2, <1>3

\* A set in which one element takes the place of another is no larger.
LEMMA ReplaceElement ==
  ASSUME NEW S, IsFiniteSet(S), NEW x \in S, NEW y, NEW T \in SUBSET ((S \ {x}) \cup {y})
  PROVE  Cardinality(T) <= Cardinality(S)
<1>. DEFINE R == S \ {x}
<1>1. Cardinality(S) \in Nat
  BY FS_CardinalityType
<1>2. IsFiniteSet(R) /\ Cardinality(R) = Cardinality(S) - 1
  BY FS_RemoveElement
<1>3. IsFiniteSet(R \cup {y}) /\ Cardinality(R \cup {y}) <= Cardinality(S)
  <2>1. /\ IsFiniteSet(R \cup {y})
        /\ Cardinality(R \cup {y}) = IF y \in R THEN Cardinality(R) ELSE Cardinality(R) + 1
    <3>. HIDE DEF R
    <3>. QED BY <1>2, FS_AddElement
  <2>. QED BY <1>1, <1>2, <2>1
<1>4. Cardinality(T) <= Cardinality(R \cup {y})
  BY <1>3, FS_Subset
<1>5. Cardinality(T) \in Nat /\ Cardinality(R \cup {y}) \in Nat
  <2>1. IsFiniteSet(T)
    BY <1>3, FS_Subset
  <2>. QED BY <1>3, <2>1, FS_CardinalityType
<1>. QED BY <1>1, <1>3, <1>4, <1>5

\* The operator starts no run.
LEMMA OtherStepActive ==
  ASSUME BothTyped, OtherStep, NEW label, NEW g
  PROVE  /\ Cardinality(ActiveIn(label, g)') <= Cardinality(ActiveIn(label, g))
         /\ ActiveIn(label, g) = {} => ActiveIn(label, g)' = {}
<1>1. PICK r \in runs, report \in Outcomes : OperatorStep(r, report)
  BY DEF OtherStep
<1>. DEFINE conds == Append(r.conds, [report |-> report, at |-> clock])
            ended == IF isTerminal(DerivePhase(conds)) THEN clock ELSE NilTime
            q == [r EXCEPT !.conds = conds, !.ended = ended]
            S == ActiveIn(label, g)
<1>2. runs' = (runs \ {r}) \cup {q} /\ Active(r)
  BY <1>1 DEF OperatorStep
<1>3. q.label = r.label /\ q.group = r.group
  <2>1. r \in Run
    BY DEF BothTyped, TypeInv, TypeOK
  <2>. HIDE DEF conds, ended
  <2>. QED BY <2>1 DEF Run
<1>. HIDE DEF q
<1>4. IsFiniteSet(S) /\ Cardinality(S) \in Nat
  BY ActiveInFinite
<1>5. CASE r \in S
  <2>1. S' \in SUBSET ((S \ {r}) \cup {q})
    BY <1>2 DEF ActiveIn
  <2>2. Cardinality(S') <= Cardinality(S)
    <3>. HIDE DEF S
    <3>. QED BY <1>4, <1>5, <2>1, ReplaceElement
  <2>. QED BY <1>5, <2>2
<1>6. CASE r \notin S
  <2>1. S' \subseteq S
    BY <1>2, <1>3, <1>6 DEF ActiveIn
  <2>2. Cardinality(S') <= Cardinality(S)
    BY <1>4, <2>1, FS_Subset
  <2>. QED BY <2>1, <2>2
<1>. QED BY <1>5, <1>6

LEMMA NextCountInv ==
  ASSUME DistinctNames, BothTyped, BothTyped', BothKnow, CountInv, [RollingNext]_rollingVars
  PROVE  CountInv'
<1>1. NoneMisled
  BY StepEffect
<1>2. CASE UNCHANGED runs
  <2>1. \A t \in Targets, g \in Groups : ActiveIn(t.label, g)' = ActiveIn(t.label, g)
    BY <1>2 DEF ActiveIn
  <2>2. \A t \in Targets, g \in Groups :
          Cardinality(ActiveIn(t.label, g)') <= Cardinality(ActiveIn(t.label, g))
    BY <2>1, ActiveInCounted
  <2>. QED BY <1>1, <2>2, RoomStays DEF CountInv
<1>3. CASE OldCreates \/ NewCreates
  BY <1>1, <1>3, CreateCountInv DEF OldCreates, NewCreates
<1>4. CASE OtherStep
  BY <1>1, <1>4, OtherStepActive, RoomStays DEF CountInv
<1>. QED BY <1>2, <1>3, <1>4, StepEffect

RollingInv == BothTyped /\ BothKnow /\ CountInv

LEMMA InitRollingInv == RollingInit => RollingInv
<1>. SUFFICES ASSUME RollingInit PROVE RollingInv
  OBVIOUS
<1>1. BothTyped /\ BothKnow
  BY InitBothTyped, InitBothKnow
<1>2. \A t \in Targets, g \in Groups : Cardinality(ActiveIn(t.label, g)) = 0
  BY <1>1, ActiveInFinite DEF RollingInit, Init, ActiveIn
<1>. QED BY <1>1, <1>2, InitBothKnow DEF RollingInv, CountInv, RoomLeft

\* Every step of two overlapping processes leaves them knowing what they have
\* created, and leaves room for what they may still create.
LEMMA RollingInvariant ==
  ASSUME DistinctNames
  PROVE  RollingSpec => []RollingInv
<1>1. RollingInv /\ [RollingNext]_rollingVars => RollingInv'
  BY NextBothTyped, StepEffect, NextCountInv DEF RollingInv
<1>. QED BY <1>1, InitRollingInv, PTL DEF RollingSpec

\* While a rolling update's processes overlap, a group of a target has at most two
\* runs under way, for any number of targets, alerts and faults and whenever the
\* old process is killed: each of the two adds at most one (reconcileTarget's
\* active-run check and its append to runs).
THEOREM OverlapIsBounded ==
  ASSUME DistinctNames
  PROVE  RollingSpec => []OverlapBounded
<1>1. RollingInv => OverlapBounded
  BY DEF RollingInv, CountInv, RoomLeft, OverlapBounded
<1>. QED BY <1>1, RollingInvariant, PTL
------------------------------------------------------------------------------
(* One process again *)

\* Once the new process has begun a cycle alone, it takes a group for free only
\* if no run is under way in it, whoever created the runs.
HandInv ==
  handover => /\ OldGone
              /\ \A t \in Targets, g \in Groups :
                   NewP!Unaware(t, g) => ActiveIn(t.label, g) = {}

\* A process that is gone does nothing.
LEMMA GoneIsGone == OldGone => ~OldStep
<1>. SUFFICES ASSUME OldGone, OldStep PROVE FALSE
  OBVIOUS
<1>1. loop.pc = "stopped" /\ \A t \in Targets : worker[t].pc = "off"
  BY DEF OldGone, Running
<1>2. ~LoopStep
  BY <1>1 DEF LoopStep, GateStep, RunStep, AtGate, ReadOLSConfig, GateFails, GateClosed,
              GateOpens, StopSpawning, EndReconcile, Tick, Stop, StartTarget
<1>3. \A t \in Targets : ~WorkerStep(t) /\ ~ServerCreate(t)
  BY <1>1 DEF WorkerStep, FetchAlerts, ListRuns, ReadFails, SkipAlert, IssueCreate, EndTarget,
              CreateReturns, CreateFails, CreateAborted, AtAlert, ServerCreate
<1>. QED BY <1>2, <1>3 DEF OldStep

\* The first cycle without the old process begins with nothing taken for free.
LEMMA HandoverInformed ==
  ASSUME BothKnow, newLoop.pc # "spawn"
  PROVE  \A t \in Targets, g \in Groups : ~NewP!Unaware(t, g)
BY DEF BothKnow, NewP!ProcessInv, NewP!WorkersAwaited, NewP!Unaware

LEMMA NextHandInv ==
  ASSUME DistinctNames, RollingInv, RollingInv', HandInv, [RollingNext]_rollingVars
  PROVE  HandInv'
<1>0. BothTyped /\ BothTyped' /\ BothKnow /\ NoneMisled
  BY StepEffect DEF RollingInv
<1>1. SUFFICES ASSUME handover'
               PROVE  /\ OldGone'
                      /\ \A t \in Targets, g \in Groups :
                           NewP!Unaware(t, g)' => ActiveIn(t.label, g)' = {}
  BY DEF HandInv
<1>2. /\ OldGone /\ UNCHANGED <<loop, worker>>
      /\ handover \/ newLoop.pc # "spawn"
  <2>1. CASE NewStep
    BY <1>1, <2>1 DEF NewStep, process, HandInv
  <2>2. CASE ~NewStep
    <3>1. handover
      BY <1>1, <2>2 DEF RollingNext, StartNew, TerminateOld, KillOld, OldStep, BothWait,
                        OtherStep, rollingVars
    <3>2. OldGone /\ ~OldStep /\ ~KillOld
      BY <3>1, GoneIsGone DEF HandInv, KillOld
    <3>. QED BY <2>2, <3>1, <3>2
             DEF RollingNext, StartNew, TerminateOld, BothWait, AdvanceClock, OtherStep,
                 OperatorStep, rollingVars, vars, process
  <2>. QED BY <2>1, <2>2
<1>3. OldGone'
  BY <1>2 DEF OldGone, Running
<1>4. \A t \in Targets, g \in Groups : NewP!Unaware(t, g)' => ActiveIn(t.label, g) = {}
  BY <1>0, <1>2, NoneIsNone, HandoverInformed DEF NoneMisled, HandInv
<1>5. CASE UNCHANGED runs
  BY <1>3, <1>4, <1>5 DEF ActiveIn
<1>6. CASE OtherStep
  BY <1>0, <1>3, <1>4, <1>6, OtherStepActive
<1>7. CASE NewCreates
  <2>1. PICK t \in Targets : \E p \in Run :
          /\ Creates(t, p) /\ NewP!Unaware(t, p.group)
          /\ p.name \notin runNames(runs) => ~NewP!Unaware(t, p.group)'
    BY <1>7 DEF NewCreates
  <2>2. PICK p \in Run :
          /\ Creates(t, p)
          /\ p.name \notin runNames(runs) => ~NewP!Unaware(t, p.group)'
    BY <2>1
  <2>3. CASE p.name \in runNames(runs)
    BY <1>5, <2>2, <2>3 DEF Creates, Store
  <2>4. CASE p.name \notin runNames(runs)
    BY <1>3, <1>4, <2>2, <2>4, CreatedElsewhere
  <2>. QED BY <2>3, <2>4
<1>8. ~OldStep
  BY <1>2, GoneIsGone
<1>. QED BY <1>5, <1>6, <1>7, <1>8, StepEffect DEF RollingInv

LEMMA HandInvariant ==
  ASSUME DistinctNames
  PROVE  RollingSpec => []HandInv
<1>1. RollingInit => HandInv
  BY DEF RollingInit, HandInv
<1>. QED BY <1>1, NextHandInv, RollingInvariant, PTL DEF RollingSpec

\* The new process's first cycle after the old one is gone restores what holds of a
\* single process: no run of a group is created beside one under way, though
\* the group may still have two (ListAgenticRuns at the start of reconcileTarget).
THEOREM DedupIsRestored ==
  ASSUME DistinctNames
  PROVE  RollingSpec => DedupRestored
<1>. DEFINE Restored == handover => \A p \in NewRuns : ActiveIn(p.label, p.group) = {}
<1>1. ASSUME RollingInv, RollingInv', HandInv, [RollingNext]_rollingVars
      PROVE  Restored
  <2>0. BothTyped /\ BothTyped' /\ BothKnow
    BY <1>1 DEF RollingInv
  <2>1. SUFFICES ASSUME handover, NEW p \in NewRuns
                 PROVE  ActiveIn(p.label, p.group) = {}
    OBVIOUS
  <2>2. ~OldStep
    BY <1>1, <2>1, GoneIsGone DEF HandInv
  <2>3. CASE UNCHANGED runs
    BY <2>1, <2>3 DEF NewRuns, runNames
  <2>4. CASE OtherStep
    <3>1. PICK r \in runs, report \in Outcomes : OperatorStep(r, report)
      BY <2>4 DEF OtherStep
    <3>. DEFINE conds == Append(r.conds, [report |-> report, at |-> clock])
                ended == IF isTerminal(DerivePhase(conds)) THEN clock ELSE NilTime
                q == [r EXCEPT !.conds = conds, !.ended = ended]
    <3>2. runs' = (runs \ {r}) \cup {q}
      BY <3>1 DEF OperatorStep
    <3>3. q.name = r.name
      <4>1. r \in Run
        BY <2>0 DEF BothTyped, TypeInv, TypeOK
      <4>. HIDE DEF conds, ended
      <4>. QED BY <4>1 DEF Run
    <3>. HIDE DEF q
    <3>. QED BY <2>1, <3>2, <3>3 DEF NewRuns, runNames
  <2>5. CASE NewCreates
    <3>1. PICK t \in Targets : \E s \in Run : Creates(t, s) /\ NewP!Unaware(t, s.group)
      BY <2>5 DEF NewCreates
    <3>2. PICK s \in Run : Creates(t, s) /\ NewP!Unaware(t, s.group)
      BY <3>1
    <3>3. p = s
      BY <2>1, <3>2 DEF Creates, Store, NewRuns, runNames
    <3>. QED BY <1>1, <2>1, <3>2, <3>3 DEF HandInv, Creates, Run
  <2>. QED BY <1>1, <2>0, <2>2, <2>3, <2>4, <2>5, StepEffect
<1>2. RollingSpec => [][Restored]_rollingVars
  <2>. HIDE DEF Restored
  <2>. QED BY <1>1, RollingInvariant, HandInvariant, PTL DEF RollingSpec
<1>. QED BY <1>2 DEF DedupRestored
------------------------------------------------------------------------------
(* Occurrences *)

\* What is read of the runs, by either process, is still there.
NamesInv == RunsInOrder /\ \A t \in Targets : ReadsKept(t) /\ NewP!ReadsKept(t)

\* A process that does not step keeps what it has read.
LEMMA OldKeeps ==
  ASSUME NamesInv, RunsStay, UNCHANGED worker
  PROVE  \A t \in Targets : ReadsKept(t)'
BY StaysRead DEF NamesInv

LEMMA NewKeeps ==
  ASSUME NamesInv, RunsStay, UNCHANGED newWorker
  PROVE  \A t \in Targets : NewP!ReadsKept(t)'
BY NewP!StaysRead, SharedNames, TimeAssumption, TargetAssumption, AlertAssumption,
   SharedConstants DEF NamesInv

LEMMA SameRuns ==
  ASSUME RunsInOrder, UNCHANGED runs
  PROVE  RunsStay /\ RunsInOrder'
BY DEF RunsStay, RunsInOrder, NamesUnique, Preceded

LEMMA OldStepNames ==
  ASSUME DistinctNames, BothTyped, BothKnow, NamesInv, OldStep
  PROVE  NamesInv'
<1>0. TypeInv /\ ProcessInv /\ RunsInOrder /\ UNCHANGED newWorker
  BY DEF BothTyped, BothKnow, NamesInv, OldStep, newProcess
<1>1. CASE LoopStep
  <2>1. runs' = runs
    BY <1>1, LoopStepLocal
  <2>. QED BY <1>0, <1>1, <2>1, SameRuns, LoopStepReads, NewKeeps DEF NamesInv
<1>2. ASSUME NEW t \in Targets, WorkerStep(t) PROVE NamesInv'
  <2>1. runs' = runs
    BY <1>0, <1>2, WorkerStepLocal
  <2>. QED BY <1>0, <1>2, <2>1, SameRuns, WorkerStepReads, NewKeeps DEF NamesInv
<1>3. ASSUME NEW t \in Targets, ServerCreate(t) PROVE NamesInv'
  BY <1>0, <1>3, ServerCreateReads, NewKeeps DEF NamesInv
<1>. QED BY <1>1, <1>2, <1>3 DEF OldStep

LEMMA NewStepNames ==
  ASSUME DistinctNames, BothTyped, BothKnow, NamesInv, NewStep
  PROVE  NamesInv'
<1>. USE TimeAssumption, TargetAssumption, AlertAssumption, SharedConstants
<1>0. /\ NewP!TypeInv /\ NewP!ProcessInv /\ RunsInOrder /\ UNCHANGED worker
      /\ NewP!RunsInOrder /\ NewP!DistinctNames
  BY SharedNames, SharedRuns DEF BothTyped, BothKnow, NamesInv, NewStep, process
<1>1. CASE New!LoopStep
  <2>1. NewP!LoopStep
    BY <1>1, NewLoopStep
  <2>2. runs' = runs
    BY <2>1, NewP!LoopStepLocal
  <2>3. \A t \in Targets : NewP!ReadsKept(t)'
    BY <1>0, <2>1, NewP!LoopStepReads DEF NamesInv
  <2>. QED BY <1>0, <2>2, <2>3, SameRuns, OldKeeps DEF NamesInv
<1>2. ASSUME NEW t \in Targets, New!WorkerStep(t) PROVE NamesInv'
  <2>1. NewP!WorkerStep(t)
    BY <1>2, NewWorkerStep
  <2>2. runs' = runs
    BY <1>0, <2>1, NewP!WorkerStepLocal
  <2>3. \A u \in Targets : NewP!ReadsKept(u)'
    BY <1>0, <2>1, NewP!WorkerStepReads DEF NamesInv
  <2>. QED BY <1>0, <2>2, <2>3, SameRuns, OldKeeps DEF NamesInv
<1>3. ASSUME NEW t \in Targets, New!ServerCreate(t) PROVE NamesInv'
  <2>1. NewP!ServerCreate(t)
    BY <1>3, NewServerCreate
  <2>2. NewP!RunsStay /\ NewP!RunsInOrder' /\ \A u \in Targets : NewP!ReadsKept(u)'
    BY <1>0, <2>1, NewP!ServerCreateReads DEF NamesInv
  <2>3. RunsStay /\ RunsInOrder'
    BY <2>2, SharedNames
  <2>. QED BY <1>0, <2>2, <2>3, OldKeeps DEF NamesInv
<1>. QED BY <1>1, <1>2, <1>3 DEF NewStep

LEMMA NextNamesInv ==
  ASSUME DistinctNames, RollingInv, NamesInv, [RollingNext]_rollingVars
  PROVE  NamesInv'
<1>0. BothTyped /\ BothKnow /\ RunsInOrder
  BY DEF RollingInv, NamesInv
<1>1. CASE UNCHANGED <<runs, worker, newWorker>>
  BY <1>0, <1>1, SameRuns, OldKeeps, NewKeeps DEF NamesInv
<1>2. CASE KillOld
  <2>1. UNCHANGED <<runs, newWorker>> /\ worker' = Fresh.worker
    BY <1>2 DEF KillOld, newProcess
  <2>2. \A t \in Targets : ReadsKept(t)'
    BY <2>1 DEF Fresh, Off, ReadsKept
  <2>. QED BY <1>0, <2>1, <2>2, SameRuns, NewKeeps DEF NamesInv
<1>3. CASE OtherStep
  <2>1. RunsStay /\ RunsInOrder'
    BY <1>0, <1>3, OperatorStepNames DEF OtherStep, BothTyped
  <2>2. UNCHANGED <<worker, newWorker>>
    BY <1>3 DEF OtherStep, OperatorStep, process, newProcess
  <2>. QED BY <2>1, <2>2, OldKeeps, NewKeeps DEF NamesInv
<1>4. CASE OldStep \/ NewStep
  BY <1>0, <1>4, OldStepNames, NewStepNames
<1>5. StartNew \/ TerminateOld \/ BothWait \/ UNCHANGED rollingVars
        => UNCHANGED <<runs, worker, newWorker>>
  BY DEF StartNew, TerminateOld, BothWait, AdvanceClock, New!AdvanceClock, rollingVars, vars,
         world, process, newProcess
<1>. QED BY <1>1, <1>2, <1>3, <1>4, <1>5 DEF RollingNext

LEMMA InitNamesInv == RollingInit => NamesInv
<1>. SUFFICES ASSUME RollingInit PROVE NamesInv
  OBVIOUS
<1>1. RunsInOrder
  BY DEF RollingInit, Init, RunsInOrder, NamesUnique
<1>2. \A t \in Targets : ReadsKept(t) /\ NewP!ReadsKept(t)
  BY DEF RollingInit, Init, Fresh, Off, ReadsKept, NewP!ReadsKept
<1>. QED BY <1>1, <1>2 DEF NamesInv

\* Runs in order are one by one: a later one of an occurrence has a higher number,
\* and those with lower numbers have ended.
LEMMA OrderSeparates ==
  ASSUME TypeInv, RunsInOrder
  PROVE  OneActivePerOccurrence
<1>1. ASSUME NEW r \in runs, NEW p \in runs, Active(r),
             r.name.stem = p.name.stem, r.name.hash = p.name.hash,
             p.name.stem \notin LongStems, r.name.retry < p.name.retry
      PROVE  FALSE
  <2>1. r.name \in RunName /\ p.name \in RunName
    BY DEF TypeInv, TypeOK, Run
  <2>2. /\ r.name.retry \in 0 .. (p.name.retry - 1)
        /\ r.name = [p.name EXCEPT !.retry = r.name.retry]
    BY <1>1, <2>1 DEF RunName
  <2>3. PICK q \in runs : q.name = r.name /\ ~Active(q)
    BY <1>1, <2>2 DEF RunsInOrder, Preceded
  <2>. QED BY <1>1, <2>3 DEF RunsInOrder, NamesUnique
<1>2. SUFFICES ASSUME NEW r \in runs, NEW p \in runs, Active(r), Active(p),
                      r.name.stem = p.name.stem, r.name.hash = p.name.hash,
                      r.name.stem \notin LongStems
               PROVE  r = p
  BY DEF OneActivePerOccurrence
<1>3. r.name \in RunName /\ p.name \in RunName
  BY DEF TypeInv, TypeOK, Run
<1>4. r.name.retry = p.name.retry
  <2>1. r.name.retry \in Nat /\ p.name.retry \in Nat
    BY <1>3 DEF RunName
  <2>. QED BY <1>1, <1>2, <2>1
<1>5. r.name = p.name
  BY <1>2, <1>3, <1>4 DEF RunName
<1>. QED BY <1>5 DEF RunsInOrder, NamesUnique

\* No occurrence of an alert has two runs under way, though two processes ask for
\* them and neither sees the other's requests: the server refuses a name twice,
\* and a replacement passes over runs that have ended only (buildName,
\* hasEmergencyStoppedNameConflict, NextAvailableName, AlreadyExists).
THEOREM OneRunPerOccurrence ==
  ASSUME DistinctNames
  PROVE  RollingSpec => []OneActivePerOccurrence
<1>1. RollingSpec => []NamesInv
  BY InitNamesInv, NextNamesInv, RollingInvariant, PTL DEF RollingSpec
<1>2. RollingInv /\ NamesInv => OneActivePerOccurrence
  BY OrderSeparates DEF RollingInv, BothTyped, NamesInv
<1>. QED BY <1>1, <1>2, RollingInvariant, PTL
==============================================================================
