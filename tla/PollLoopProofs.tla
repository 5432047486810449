--------------------------- MODULE PollLoopProofs ----------------------------
(* Theorems about the poll loop, for every value of the constants. *)
EXTENDS PollLoop, FiniteSetTheorems, WellFoundedInduction, TLAPS
------------------------------------------------------------------------------
(* NextAvailableName *)

\* A name as buildName makes it.
IsBaseName(base) == \E stem, hash : base = [stem |-> stem, hash |-> hash, retry |-> 0]

\* The n-th candidate is the one with n in its suffix.
LEMMA CandidateRetry ==
  ASSUME NEW base, IsBaseName(base), NEW i \in Nat
  PROVE  candidateName(base, i).retry = i
BY DEF IsBaseName, candidateName, retryName

\* Names cannot use up one candidate more than there are names.
LEMMA CandidateLeft ==
  ASSUME NEW base, IsBaseName(base), NEW names, IsFiniteSet(names)
  PROVE  \E i \in 0 .. Cardinality(names) : candidateName(base, i) \notin names
<1>1. Cardinality(names) \in Nat
  BY FS_CardinalityType
<1>. DEFINE Tries == 0 .. Cardinality(names)
            name  == [i \in Tries |-> candidateName(base, i)]
<1>2. IsFiniteSet(Tries) /\ Cardinality(Tries) = Cardinality(names) + 1
  BY <1>1, FS_Interval
<1>3. SUFFICES ASSUME \A i \in Tries : candidateName(base, i) \in names
               PROVE  FALSE
  OBVIOUS
<1>4. name \in [Tries -> names]
  BY <1>3
<1>5. \E i, j \in Tries : i # j /\ name[i] = name[j]
  <2>. HIDE DEF Tries, name
  <2>. QED BY <1>1, <1>2, <1>4, FS_PigeonHole
<1>6. \A i, j \in Tries : name[i] = name[j] => i = j
  BY <1>1, CandidateRetry
<1>. QED BY <1>5, <1>6

\* A non-empty set of natural numbers has a least element.
LEMMA LeastNatural ==
  ASSUME NEW S \in SUBSET Nat, S # {}
  PROVE  \E i \in S : \A j \in S : i <= j
<1>. DEFINE R == {ss \in Nat \X Nat : ss[1] < ss[2]}
<1>1. IsWellFoundedOn(R, Nat)
  BY NatLessThanWellFounded, Zenon DEF OpToRel
<1>2. PICK i \in S : \A j \in S : ~ (<<j, i>> \in R)
  <2>. HIDE DEF R
  <2>. QED BY <1>1, WFMin
<1>3. ASSUME NEW j \in S PROVE i <= j
  <2>1. <<j, i>> \in Nat \X Nat /\ <<j, i>>[1] = j /\ <<j, i>>[2] = i
    OBVIOUS
  <2>2. ~ (j < i)
    BY <1>2, <2>1
  <2>. QED BY <2>2
<1>. QED BY <1>3

\* NextAvailableName returns a name no run of the list has, the first one free of
\* base, base-retry-1, base-retry-2, ...: the loop in the code ends.
THEOREM NextAvailableNameIsFree ==
  ASSUME NEW base, IsBaseName(base), NEW names, IsFiniteSet(names)
  PROVE  \E i \in Nat : /\ NextAvailableName(base, names) = candidateName(base, i)
                        /\ candidateName(base, i) \notin names
                        /\ \A j \in 0 .. (i - 1) : candidateName(base, j) \in names
<1>1. Cardinality(names) \in Nat
  BY FS_CardinalityType
<1>. DEFINE Free == {i \in 0 .. Cardinality(names) : candidateName(base, i) \notin names}
<1>2. Free \in SUBSET Nat /\ Free # {}
  BY <1>1, CandidateLeft
<1>3. PICK i \in Free : \A j \in Free : i <= j
  BY <1>2, LeastNatural
<1>4. \A j \in 0 .. (i - 1) : candidateName(base, j) \in names
  BY <1>1, <1>3
<1>. QED BY <1>1, <1>3, <1>4 DEF NextAvailableName
------------------------------------------------------------------------------
(* Types *)

\* The API server and the workers' lists hold finitely many runs.
FiniteRuns == /\ IsFiniteSet(runs)
              /\ \A t \in Targets : IsFiniteSet(worker[t].view)

\* The names of finitely many runs are finitely many.
LEMMA RunNamesFinite ==
  ASSUME NEW view, IsFiniteSet(view)
  PROVE  IsFiniteSet(runNames(view))
<1>. DEFINE f == [r \in view |-> r.name]
<1>1. f \in Surjection(view, runNames(view))
  BY DEF Surjection, runNames
<1>. QED BY <1>1, FS_Surjection

\* A run without conditions is under way.
LEMMA NewRunActive ==
  ASSUME NEW r, r.conds = <<>>
  PROVE  Active(r)
<1>1. DOMAIN r.conds = {}
  OBVIOUS
<1>. QED BY <1>1 DEF Active, isTerminal, DerivePhase, Holds, NoActionRequired

\* The run a worker asks for: well-typed, of its target and the alert's group, new.
LEMMA RequestType ==
  ASSUME NEW t \in Targets, NEW a \in Alert, ~cannotBuild(a),
         NEW view, IsFiniteSet(view)
  PROVE  /\ requestFor(a, t, view) \in Run
         /\ requestFor(a, t, view).label = t.label
         /\ requestFor(a, t, view).group = a.group
         /\ Active(requestFor(a, t, view))
         /\ requestFor(a, t, view).conds = <<>>
         /\ requestFor(a, t, view).ended = NilTime
<1>. DEFINE p == BuildForTarget(a, t)
            q == requestFor(a, t, view)
<1>1. a.startsAt \in Nat
  BY DEF cannotBuild, Alert
<1>2. /\ p \in Run /\ p.label = t.label /\ p.group = a.group
      /\ p.conds = <<>> /\ p.ended = NilTime
      /\ p.name.retry = 0 /\ p.name.hash \in Nat \X {u.id : u \in Targets}
      /\ p.name.stem \in Stems
  BY <1>1 DEF BuildForTarget, buildName, startsAtHash, Run, RunName, Alert
<1>3. IsBaseName(p.name)
  BY DEF BuildForTarget, buildName, IsBaseName
<1>4. NextAvailableName(p.name, runNames(view)) \in RunName
  <2>1. PICK i \in Nat :
          NextAvailableName(p.name, runNames(view)) = candidateName(p.name, i)
    BY <1>3, RunNamesFinite, NextAvailableNameIsFree
  <2>2. candidateName(p.name, i) \in RunName
    BY <1>2 DEF candidateName, retryName, RunName, Run
  <2>. QED BY <2>1, <2>2
<1>5. /\ q \in Run /\ q.label = t.label /\ q.group = a.group
      /\ q.conds = <<>> /\ q.ended = NilTime
  <2>. HIDE DEF p
  <2>. QED BY <1>2, <1>4 DEF requestFor, Run, p
<1>. QED BY <1>5, NewRunActive

TypeInv == TypeOK /\ FiniteRuns

\* The record of a worker that does not run.
LEMMA OffType == Off \in Worker /\ IsFiniteSet(Off.view)
BY FS_EmptySet DEF Off, Worker

LEMMA InitTypeInv == Init => TypeInv
BY OffType, FS_EmptySet, TimeAssumption
   DEF Init, Fresh, NoEntry, NoStreak, TypeInv, TypeOK, FiniteRuns

\* The steps of Run and reconcile.
LEMMA LoopTypeInv == TypeInv /\ LoopStep => TypeInv'
<1>. SUFFICES ASSUME TypeInv, LoopStep PROVE TypeInv'
  OBVIOUS
<1>. USE DEF TypeInv, TypeOK, FiniteRuns, world
<1>0. CASE ReadOLSConfig
  BY <1>0 DEF ReadOLSConfig
<1>1. CASE GateFails
  BY <1>1, TimeAssumption DEF GateFails, Fault, ReturnToRun
<1>2. CASE GateClosed
  BY <1>2, TimeAssumption DEF GateClosed, ReturnToRun
<1>3. CASE GateOpens
  <2>1. PICK snapshot \in Snapshots :
          loop' = [loop EXCEPT !.pc = "spawn", !.pending = snapshot, !.opened = clock]
    BY <1>3 DEF GateOpens
  <2>2. loop' \in [pc : {"gate", "open", "closed", "spawn", "idle", "stopped"},
                   pending : SUBSET Targets, asked : Nat, opened : Nat]
    BY <2>1, TargetAssumption
  <2>3. backoff' \in [BackoffKeys -> [dur : Nat, last : Nat]]
    BY <1>3 DEF GateOpens, BackoffGC, NoEntry
  <2>. QED BY <1>3, <2>2, <2>3 DEF GateOpens
<1>4. CASE StopSpawning
  BY <1>4 DEF StopSpawning
<1>5. CASE EndReconcile
  BY <1>5, TimeAssumption DEF EndReconcile, ReturnToRun
<1>6. CASE Tick
  BY <1>6 DEF Tick
<1>7. CASE Stop
  BY <1>7 DEF Stop
<1>8. ASSUME NEW t \in Targets, StartTarget(t) PROVE TypeInv'
  <2>1. [Off EXCEPT !.pc = "fetch", !.start = clock] \in Worker
    BY OffType DEF Worker
  <2>2. IsFiniteSet([Off EXCEPT !.pc = "fetch", !.start = clock].view)
    BY OffType DEF Off
  <2>. QED BY <1>8, <2>1, <2>2 DEF StartTarget
<1>. QED BY <1>0, <1>1, <1>2, <1>3, <1>4, <1>5, <1>6, <1>7, <1>8
         DEF LoopStep, GateStep, RunStep

\* The loop changes nothing of the world, and of the workers and the backoff only
\* as a cycle begins or a target is started.
LEMMA LoopStepLocal ==
  ASSUME LoopStep
  PROVE  /\ UNCHANGED <<clock, runs, inflight, olsConfig, suspendedSince, cancelled, streak>>
         /\ \/ UNCHANGED <<worker, backoff>>
            \/ GateOpens
            \/ \E t \in Targets : StartTarget(t)
<1>. USE DEF world
<1>1. CASE GateOpens
  BY <1>1 DEF GateOpens
<1>2. CASE ReadOLSConfig \/ GateFails \/ GateClosed
  BY <1>2 DEF ReadOLSConfig, GateFails, GateClosed
<1>3. CASE StopSpawning \/ EndReconcile \/ Tick \/ Stop
  BY <1>3 DEF StopSpawning, EndReconcile, Tick, Stop
<1>4. CASE \E t \in Targets : StartTarget(t)
  BY <1>4 DEF StartTarget
<1>. QED BY <1>1, <1>2, <1>3, <1>4 DEF LoopStep, GateStep, RunStep

\* The steps after which the loop is not at its targets.
LEMMA LoopOutside ==
  ASSUME TypeInv, ReadOLSConfig \/ GateFails \/ GateClosed \/ EndReconcile \/ Tick \/ Stop
  PROVE  /\ loop'.pc # "spawn" /\ UNCHANGED <<worker, backoff>>
         /\ EndReconcile \/ loop.pc # "spawn"
<1>1. CASE GateFails \/ GateClosed \/ EndReconcile
  BY <1>1 DEF GateFails, GateClosed, EndReconcile, AtGate, ReturnToRun
<1>2. CASE ReadOLSConfig \/ Tick \/ Stop
  BY <1>2 DEF ReadOLSConfig, Tick, Stop, TypeInv, TypeOK
<1>. QED BY <1>1, <1>2

\* Workers only run while the loop is at its targets.
LEMMA LoopStepAwaits == TypeInv /\ WorkersAwaited /\ LoopStep => WorkersAwaited'
<1>. SUFFICES ASSUME TypeInv, WorkersAwaited, LoopStep PROVE WorkersAwaited'
  OBVIOUS
<1>1. CASE ReadOLSConfig \/ GateFails \/ GateClosed \/ EndReconcile \/ Tick \/ Stop
  BY <1>1, LoopOutside DEF WorkersAwaited, EndReconcile, Running
<1>2. CASE GateOpens \/ StopSpawning \/ \E t \in Targets : StartTarget(t)
  <2>1. loop'.pc = "spawn"
    BY <1>2 DEF GateOpens, StopSpawning, StartTarget, TypeInv, TypeOK
  <2>. QED BY <2>1 DEF WorkersAwaited
<1>. QED BY <1>1, <1>2 DEF LoopStep, GateStep, RunStep

\* A worker's record changes in place.
LEMMA WorkerTypeInv ==
  ASSUME TypeInv, NEW t \in Targets, NEW w \in Worker, IsFiniteSet(w.view),
         worker' = [worker EXCEPT ![t] = w]
  PROVE  /\ worker' \in [Targets -> Worker]
         /\ \A u \in Targets : IsFiniteSet(worker'[u].view)
BY DEF TypeInv, TypeOK, FiniteRuns

\* The steps of reconcileTarget.
LEMMA WorkerStepTypeInv ==
  ASSUME TypeInv, NEW t \in Targets, WorkerStep(t)
  PROVE  TypeInv'
<1>. DEFINE w == worker[t]
<1>0. w \in Worker /\ IsFiniteSet(w.view)
  BY DEF TypeInv, TypeOK, FiniteRuns
<1>1. ASSUME worker' \in [Targets -> Worker],
             \A u \in Targets : IsFiniteSet(worker'[u].view),
             UNCHANGED <<world, loop, backoff, ticker, cancelled, streak>>
      PROVE  TypeInv'
  BY <1>1 DEF TypeInv, TypeOK, FiniteRuns, world
<1>2. CASE FetchAlerts(t)
  <2>1. PICK alerts \in AlertLists[t] :
          worker' = [worker EXCEPT ![t] = [w EXCEPT !.pc = "list", !.todo = alerts]]
    BY <1>2 DEF FetchAlerts, TypeInv, TypeOK
  <2>2. [w EXCEPT !.pc = "list", !.todo = alerts] \in Worker
    BY <1>0, AlertAssumption DEF Worker
  <2>3. IsFiniteSet([w EXCEPT !.pc = "list", !.todo = alerts].view)
    BY <1>0 DEF Worker
  <2>4. UNCHANGED <<world, loop, backoff, ticker, cancelled, streak>>
    BY <1>2 DEF FetchAlerts
  <2>. QED
    <3>. HIDE DEF w
    <3>. QED BY <1>1, <2>1, <2>2, <2>3, <2>4, WorkerTypeInv
<1>3. CASE ListRuns(t)
  <2>. DEFINE v == [w EXCEPT !.pc = "loop", !.now = clock, !.view = ListAgenticRuns(t.label)]
  <2>1. worker' = [worker EXCEPT ![t] = v]
    BY <1>3 DEF ListRuns, TypeInv, TypeOK
  <2>2. v \in Worker /\ v.view = ListAgenticRuns(t.label)
    BY <1>0 DEF Worker, ListAgenticRuns, TypeInv, TypeOK
  <2>3. IsFiniteSet(ListAgenticRuns(t.label))
    BY FS_Subset DEF ListAgenticRuns, TypeInv, FiniteRuns
  <2>4. UNCHANGED <<world, loop, backoff, ticker, cancelled, streak>>
    BY <1>3 DEF ListRuns
  <2>. QED
    <3>. HIDE DEF v
    <3>. QED BY <1>1, <2>1, <2>2, <2>3, <2>4, WorkerTypeInv
<1>4. CASE ReadFails(t)
  BY <1>4, OffType, TimeAssumption DEF ReadFails, Fault, TypeInv, TypeOK, FiniteRuns
<1>5. CASE SkipAlert(t)
  <2>. DEFINE v == [w EXCEPT !.todo = Tail(w.todo)]
  <2>1. worker' = [worker EXCEPT ![t] = v]
    BY <1>5 DEF SkipAlert, TypeInv, TypeOK
  <2>2. v \in Worker /\ v.view = w.view
    <3>1. Tail(w.todo) \in Seq(Alert)
      BY <1>0, <1>5 DEF Worker, SkipAlert, AtAlert
    <3>. QED BY <1>0, <3>1 DEF Worker
  <2>3. UNCHANGED <<world, loop, backoff, ticker, cancelled, streak>>
    BY <1>5 DEF SkipAlert
  <2>. QED
    <3>. HIDE DEF v
    <3>. QED BY <1>0, <1>1, <2>1, <2>2, <2>3, WorkerTypeInv
<1>6. CASE IssueCreate(t)
  <2>. DEFINE a == Head(w.todo)
              p == requestFor(a, t, w.view)
              b == backoff[Key(t, a.group)].dur > 0
              v == [w EXCEPT !.pc = "create", !.todo = Tail(w.todo), !.answer = "none",
                             !.req = {p}, !.hadBackoff = b]
  <2>1. worker' = [worker EXCEPT ![t] = v]
    BY <1>6 DEF IssueCreate, TypeInv, TypeOK
  <2>2. a \in Alert /\ ~cannotBuild(a)
    BY <1>0, <1>6 DEF IssueCreate, AtAlert, Skipped, Worker
  <2>3. p \in Run
    BY <1>0, <2>2, RequestType
  <2>4. b \in BOOLEAN /\ Tail(w.todo) \in Seq(Alert)
    BY <1>0, <1>6 DEF IssueCreate, AtAlert, Worker
  <2>5. v \in Worker /\ v.view = w.view
    <3>. HIDE DEF p, b
    <3>. QED BY <1>0, <2>3, <2>4 DEF Worker
  <2>6. UNCHANGED <<world, loop, backoff, ticker, cancelled, streak>>
    BY <1>6 DEF IssueCreate
  <2>. QED
    <3>. HIDE DEF v
    <3>. QED BY <1>0, <1>1, <2>1, <2>5, <2>6, WorkerTypeInv
<1>7. CASE EndTarget(t)
  BY <1>7, OffType DEF EndTarget, TypeInv, TypeOK, FiniteRuns, world
<1>8. CASE CreateReturns(t)
  <2>1. PICK p \in w.req :
          /\ backoff' = IF w.hadBackoff THEN [backoff EXCEPT ![Key(t, p.group)] = NoEntry]
                                       ELSE backoff
          /\ streak' = [streak EXCEPT ![<<t, p.group>>] = NoStreak]
          /\ Continue(t, IF w.answer = "created" THEN w.view \cup {p} ELSE w.view)
    BY <1>8 DEF CreateReturns
  <2>. DEFINE view == IF w.answer = "created" THEN w.view \cup {p} ELSE w.view
              v == [w EXCEPT !.pc = "loop", !.view = view, !.req = {},
                             !.answer = "none", !.hadBackoff = FALSE]
  <2>2. view \in SUBSET Run /\ IsFiniteSet(view)
    BY <1>0, FS_AddElement DEF Worker
  <2>3. worker' = [worker EXCEPT ![t] = v]
    BY <2>1 DEF Continue, TypeInv, TypeOK
  <2>4. v \in Worker /\ v.view = view
    <3>. HIDE DEF view
    <3>. QED BY <1>0, <2>2 DEF Worker
  <2>5. /\ worker' \in [Targets -> Worker]
        /\ \A u \in Targets : IsFiniteSet(worker'[u].view)
    <3>. HIDE DEF v, view
    <3>. QED BY <2>2, <2>3, <2>4, WorkerTypeInv
  <2>6. backoff' \in [BackoffKeys -> [dur : Nat, last : Nat]]
    BY <2>1 DEF NoEntry, TypeInv, TypeOK
  <2>7. streak' \in [Targets \X Groups -> [n : Nat, at : Nat]]
    BY <2>1 DEF NoStreak, TypeInv, TypeOK
  <2>. QED BY <1>8, <2>5, <2>6, <2>7
           DEF CreateReturns, TypeInv, TypeOK, FiniteRuns, world
<1>9. CASE CreateFails(t)
  <2>1. PICK p \in w.req :
          /\ backoff' = [backoff EXCEPT ![Key(t, p.group)] =
                           BackoffNext(backoff[Key(t, p.group)], w.now, clock)]
          /\ streak' = [streak EXCEPT ![<<t, p.group>>] = OneMore(streak[<<t, p.group>>])]
          /\ Continue(t, w.view)
    BY <1>9 DEF CreateFails
  <2>. DEFINE v == [w EXCEPT !.pc = "loop", !.view = w.view, !.req = {},
                             !.answer = "none", !.hadBackoff = FALSE]
  <2>2. worker' = [worker EXCEPT ![t] = v]
    BY <2>1 DEF Continue, TypeInv, TypeOK
  <2>3. v \in Worker /\ v.view = w.view
    BY <1>0 DEF Worker
  <2>4. /\ worker' \in [Targets -> Worker]
        /\ \A u \in Targets : IsFiniteSet(worker'[u].view)
    <3>. HIDE DEF v
    <3>. QED BY <1>0, <2>2, <2>3, WorkerTypeInv
  <2>5. p.group \in Groups /\ Key(t, p.group) \in BackoffKeys
    BY <1>0 DEF Worker, Run, Key, creationBackoffKey, BackoffKeys
  <2>6. backoff' \in [BackoffKeys -> [dur : Nat, last : Nat]]
    BY <2>1, <2>5, TimeAssumption DEF BackoffNext, TypeInv, TypeOK
  <2>7. streak' \in [Targets \X Groups -> [n : Nat, at : Nat]]
    BY <2>1, <2>5, TimeAssumption DEF OneMore, TypeInv, TypeOK
  <2>8. inflight' \subseteq Run
    BY <1>0, <1>9 DEF CreateFails, Abandon, Unanswered, Worker, TypeInv, TypeOK
  <2>. QED BY <1>9, <2>4, <2>6, <2>7, <2>8, TimeAssumption
           DEF CreateFails, Fault, TypeInv, TypeOK, FiniteRuns
<1>10. CASE CreateAborted(t)
  <2>1. inflight' \subseteq Run
    BY <1>0, <1>10 DEF CreateAborted, Abandon, Unanswered, Worker, TypeInv, TypeOK
  <2>. QED BY <1>10, <2>1, OffType DEF CreateAborted, TypeInv, TypeOK, FiniteRuns
<1>. QED BY <1>2, <1>3, <1>4, <1>5, <1>6, <1>7, <1>8, <1>9, <1>10 DEF WorkerStep

\* The API server stores a run or keeps what it has.
LEMMA StoreType ==
  ASSUME TypeInv, NEW p \in Run
  PROVE  Store(p) \subseteq Run /\ IsFiniteSet(Store(p))
BY FS_AddElement DEF Store, TypeInv, TypeOK, FiniteRuns

\* The steps of the servers, the operator, the administrator and the clock.
LEMMA EnvironmentTypeInv == TypeInv /\ Environment => TypeInv'
<1>. SUFFICES ASSUME TypeInv, Environment PROVE TypeInv'
  OBVIOUS
<1>1. CASE AdvanceClock
  BY <1>1, TimeAssumption DEF AdvanceClock, TypeInv, TypeOK, FiniteRuns
<1>2. CASE Cancel
  BY <1>2 DEF Cancel, Fault, TypeInv, TypeOK, FiniteRuns
<1>3. CASE Restart
  <2>1. inflight' \subseteq Run
    BY <1>3 DEF Restart, Abandon, Unanswered, Worker, TypeInv, TypeOK
  <2>. QED BY <1>3, <2>1, OffType
           DEF Restart, Fault, Fresh, NoEntry, NoStreak, TypeInv, TypeOK, FiniteRuns
<1>4. ASSUME NEW t \in Targets, ServerCreate(t) PROVE TypeInv'
  <2>. DEFINE w == worker[t]
  <2>0. w \in Worker /\ IsFiniteSet(w.view)
    BY DEF TypeInv, TypeOK, FiniteRuns
  <2>1. PICK p \in w.req :
          /\ runs' = Store(p)
          /\ worker' = [worker EXCEPT ![t].answer =
                          IF p.name \in runNames(runs) THEN "exists" ELSE "created"]
    BY <1>4 DEF ServerCreate
  <2>. DEFINE v == [w EXCEPT !.answer =
                      IF p.name \in runNames(runs) THEN "exists" ELSE "created"]
  <2>2. worker' = [worker EXCEPT ![t] = v]
    BY <2>1 DEF TypeInv, TypeOK
  <2>3. v \in Worker /\ v.view = w.view
    BY <2>0 DEF Worker
  <2>4. /\ worker' \in [Targets -> Worker]
        /\ \A u \in Targets : IsFiniteSet(worker'[u].view)
    <3>. HIDE DEF v
    <3>. QED BY <2>0, <2>2, <2>3, WorkerTypeInv
  <2>5. runs' \subseteq Run /\ IsFiniteSet(runs')
    BY <2>0, <2>1, StoreType DEF Worker
  <2>. QED BY <1>4, <2>4, <2>5 DEF ServerCreate, TypeInv, TypeOK, FiniteRuns
<1>5. ASSUME NEW r \in runs, NEW report \in Outcomes, OperatorStep(r, report)
      PROVE TypeInv'
  <2>. DEFINE conds == Append(r.conds, [report |-> report, at |-> clock])
              q == [r EXCEPT !.conds = conds,
                             !.ended = IF isTerminal(DerivePhase(conds)) THEN clock
                                       ELSE NilTime]
  <2>1. r \in Run /\ clock \in Nat
    BY DEF TypeInv, TypeOK
  <2>2. conds \in Seq(Condition)
    BY <2>1, AlertAssumption DEF Run, Condition
  <2>3. q \in Run
    <3>. HIDE DEF conds
    <3>. QED BY <2>1, <2>2 DEF Run
  <2>4. runs' = (runs \ {r}) \cup {q}
    BY <1>5 DEF OperatorStep
  <2>5. runs' \subseteq Run /\ IsFiniteSet(runs')
    <3>. HIDE DEF q
    <3>. QED BY <2>3, <2>4, FS_AddElement, FS_RemoveElement DEF TypeInv, TypeOK, FiniteRuns
  <2>. QED BY <1>5, <2>5 DEF OperatorStep, process, TypeInv, TypeOK, FiniteRuns
<1>6. ASSUME NEW r \in runs, DeleteRun(r) PROVE TypeInv'
  BY <1>6, FS_RemoveElement DEF DeleteRun, Fault, process, TypeInv, TypeOK, FiniteRuns
<1>7. ASSUME NEW state \in OLSConfigStates, SetOLSConfig(state) PROVE TypeInv'
  BY <1>7 DEF SetOLSConfig, process, TypeInv, TypeOK, FiniteRuns
<1>8. ASSUME NEW p \in inflight, LandLate(p) PROVE TypeInv'
  BY <1>8, StoreType DEF LandLate, process, TypeInv, TypeOK, FiniteRuns
<1>. QED BY <1>1, <1>2, <1>3, <1>4, <1>5, <1>6, <1>7, <1>8 DEF Environment

LEMMA NextTypeInv == TypeInv /\ [Next]_vars => TypeInv'
<1>1. TypeInv /\ UNCHANGED vars => TypeInv'
  BY DEF vars, world, process, TypeInv, TypeOK, FiniteRuns
<1>. QED BY <1>1, LoopTypeInv, WorkerStepTypeInv, EnvironmentTypeInv DEF Next

\* In every behaviour of the poll loop the variables keep the types of the Go
\* values they stand for, and the lists stay finite.
THEOREM TypeCorrect == Spec => []TypeInv
BY InitTypeInv, NextTypeInv, PTL DEF Spec

\* Every name the adapter asks for, retry names included, is a well-formed name.
THEOREM TypeSafe == Spec => []TypeOK
BY TypeCorrect, PTL DEF TypeInv
------------------------------------------------------------------------------
(* One active run per group *)

\* No SpokeCluster is named like another target, "local" included.
DistinctNames == \A t, u \in Targets : t.name = u.name => t = u

\* Targets have different labels.
LEMMA DistinctLabels ==
  ASSUME NEW t \in Targets, NEW u \in Targets, t.label = u.label
  PROVE  t = u
<1>. DEFINE l1 == LocalTarget(TRUE)
            l2 == LocalTarget(FALSE)
<1>1. l1.label = <<"local">> /\ l2.label = <<>>
  BY DEF LocalTarget, NoID
<1>2. \A n : SpokeTarget(n).label = <<"spoke", n>>
  BY DEF SpokeTarget, SpokeTargetID
<1>3. \A n, m : <<"spoke", n>> = <<"spoke", m>> => n = m
  <2>1. \A n : <<"spoke", n>>[2] = n
    OBVIOUS
  <2>. QED BY <2>1, Zenon
<1>4. \A n : <<"spoke", n>> # <<"local">> /\ <<"spoke", n>> # <<>>
  <2>1. Len(<<>>) = 0 /\ Len(<<"local">>) = 1 /\ \A n : Len(<<"spoke", n>>) = 2
    OBVIOUS
  <2>2. 0 # 2 /\ 1 # 2
    OBVIOUS
  <2>. QED BY <2>1, <2>2, Zenon
<1>5. t = SpokeTarget(t.name) /\ u = SpokeTarget(u.name) => t = u
  BY <1>2, <1>3
<1>6. /\ t \in {l1, l2} \/ t = SpokeTarget(t.name)
      /\ u \in {l1, l2} \/ u = SpokeTarget(u.name)
      /\ ~ ({l1, l2} \subseteq Targets)
  BY TargetAssumption
<1>7. t \in {l1, l2} /\ u \in {l1, l2} => t = u
  <2>. HIDE DEF l1, l2
  <2>. QED BY <1>6
<1>. QED
  <2>. HIDE DEF l1, l2
  <2>. QED BY <1>1, <1>2, <1>4, <1>5, <1>6, <1>7

\* A backoff entry written now holds back every worker whose list is not newer.
LEMMA BackoffNextHolds ==
  ASSUME NEW e \in [dur : Nat, last : Nat], NEW now \in Nat, NEW time \in Nat, now <= time
  PROVE  IsInBackOffSinceUpdate(BackoffNext(e, now, time), now)
BY TimeAssumption DEF IsInBackOffSinceUpdate, BackoffNext, hasExpired

LEMMA InitDedupInv == Init => DedupInv
BY DEF Init, Fresh, Off, DedupInv, OneActivePerGroup, WorkersAwaited, WorkerInformed,
       RunsCovered, RequestFree

\* What a worker knows by itself, whatever others do to the runs: its request is in
\* a group it takes to be free.
Careful(t) == RequestFree(t) /\ worker[t].now <= clock

\* Worker t does not know of a run in the group: it may ask for one, or has asked.
Unaware(t, group) == worker[t].pc \in {"loop", "create"} /\ ~Covered(t, group)

\* A step that leaves a worker's record and its target's backoff entries alone
\* changes nothing of what the worker knows.
LEMMA StaysCareful ==
  ASSUME TypeInv, TypeInv', NEW t \in Targets, Careful(t),
         worker'[t] = worker[t], clock' >= clock,
         \A g \in Groups : backoff'[Key(t, g)] = backoff[Key(t, g)]
  PROVE  Careful(t)' /\ \A g \in Groups : Covered(t, g)' <=> Covered(t, g)
<1>1. \A g \in Groups : InBackoff(t, g)' <=> InBackoff(t, g)
  BY DEF InBackoff
<1>2. RequestFree(t)'
  <2>1. \A p \in worker[t].req : p.group \in Groups
    BY DEF TypeInv, TypeOK, Worker, Run
  <2>. QED BY <1>1, <2>1 DEF Careful, RequestFree
<1>3. worker'[t].now <= clock'
  BY DEF Careful, TypeInv, TypeOK, Worker
<1>. QED BY <1>1, <1>2, <1>3 DEF Careful, Covered

\* If it also starts no run of the target and changes only active ones, the worker
\* stays informed.
LEMMA StaysInformed ==
  ASSUME TypeInv, TypeInv', NEW t \in Targets, WorkerInformed(t),
         worker'[t] = worker[t], clock' >= clock,
         \A g \in Groups : backoff'[Key(t, g)] = backoff[Key(t, g)],
         \A r \in runs' : r.label = t.label =>
           r \in runs \/ \E q \in runs : q.label = t.label /\ q.group = r.group /\ Active(q)
  PROVE  WorkerInformed(t)'
<1>1. Careful(t)' /\ \A g \in Groups : Covered(t, g) => Covered(t, g)'
  <2>1. Careful(t)
    BY DEF Careful, WorkerInformed
  <2>. QED BY <2>1, StaysCareful
<1>2. RunsCovered(t)'
  <2>1. \A r \in runs : r.group \in Groups
    BY DEF TypeInv, TypeOK, Run
  <2>2. SUFFICES ASSUME worker[t].pc \in {"loop", "create"},
                        NEW r \in runs', r.label = t.label, r.group \in Groups
                 PROVE  Covered(t, r.group)' \/ (~Active(r) /\ r \in worker[t].view)
    BY DEF RunsCovered, ListAgenticRuns, TypeInv, TypeOK, Run
  <2>3. RunsCovered(t)
    BY DEF WorkerInformed
  <2>4. CASE r \in runs
    BY <1>1, <2>2, <2>3, <2>4 DEF RunsCovered, ListAgenticRuns
  <2>5. ASSUME NEW q \in runs, q.label = t.label, q.group = r.group, Active(q)
        PROVE  Covered(t, r.group)'
    BY <1>1, <2>2, <2>3, <2>5 DEF RunsCovered, ListAgenticRuns
  <2>. QED BY <2>2, <2>4, <2>5
<1>. QED BY <1>1, <1>2 DEF Careful, WorkerInformed

\* A worker that has not listed the runs yet, or has ended, need know nothing.
LEMMA OutsideInformed ==
  ASSUME TypeInv', NEW t \in Targets, worker'[t].pc \in {"off", "fetch", "list"},
         worker'[t].now <= clock'
  PROVE  WorkerInformed(t)'
BY DEF WorkerInformed, RunsCovered, RequestFree

LEMMA LoopDedupInv == TypeInv /\ TypeInv' /\ DedupInv /\ LoopStep => DedupInv'
<1>. SUFFICES ASSUME TypeInv, TypeInv', DedupInv, LoopStep PROVE DedupInv'
  OBVIOUS
<1>1. UNCHANGED <<runs, clock, inflight>>
  BY LoopStepLocal
<1>2. OneActivePerGroup' /\ inflight' = {}
  BY <1>1 DEF DedupInv, OneActivePerGroup
<1>3. CASE UNCHANGED <<worker, backoff>>
  <2>1. \A t \in Targets : WorkerInformed(t)'
    BY <1>1, <1>3, StaysInformed DEF DedupInv, TypeInv, TypeOK
  <2>2. WorkersAwaited'
    BY LoopStepAwaits DEF DedupInv
  <2>. QED BY <1>2, <2>1, <2>2 DEF DedupInv
<1>4. CASE GateOpens
  <2>1. \A t \in Targets : worker'[t].pc = "off" /\ worker'[t].now <= clock'
    BY <1>1, <1>4 DEF GateOpens, DedupInv, WorkersAwaited, WorkerInformed
  <2>2. WorkersAwaited'
    BY <1>4 DEF GateOpens, WorkersAwaited
  <2>. QED BY <1>2, <2>1, <2>2, OutsideInformed DEF DedupInv
<1>5. ASSUME NEW t \in Targets, StartTarget(t) PROVE DedupInv'
  <2>1. WorkerInformed(t)'
    BY <1>1, <1>5, OutsideInformed DEF StartTarget, Off, TypeInv, TypeOK
  <2>2. \A u \in Targets \ {t} : WorkerInformed(u)'
    BY <1>1, <1>5, StaysInformed DEF StartTarget, DedupInv, TypeInv, TypeOK
  <2>3. WorkersAwaited'
    BY <1>5 DEF StartTarget, WorkersAwaited, TypeInv, TypeOK
  <2>. QED BY <1>2, <2>1, <2>2, <2>3 DEF DedupInv
<1>. QED BY <1>3, <1>4, <1>5, LoopStepLocal

\* Backoff keys of different targets or groups are different.
LEMMA DistinctKeys ==
  ASSUME DistinctNames, NEW t \in Targets, NEW u \in Targets,
         NEW g \in Groups, NEW h \in Groups, Key(t, g) = Key(u, h)
  PROVE  t = u /\ g = h
BY DEF DistinctNames, Key, creationBackoffKey

\* A worker's step changes its own record, and no other target's backoff.
LEMMA WorkerStepLocal ==
  ASSUME DistinctNames, TypeInv, NEW t \in Targets, WorkerStep(t)
  PROVE  /\ UNCHANGED <<runs, clock, loop>>
         /\ worker[t].pc # "off"
         /\ \A u \in Targets \ {t} :
              /\ worker'[u] = worker[u]
              /\ \A g \in Groups : backoff'[Key(u, g)] = backoff[Key(u, g)]
<1>1. UNCHANGED <<runs, clock, loop>>
  BY DEF WorkerStep, FetchAlerts, ListRuns, ReadFails, SkipAlert, IssueCreate, EndTarget,
         CreateReturns, CreateFails, CreateAborted, world
<1>2. \A u \in Targets \ {t} : worker'[u] = worker[u]
  BY DEF WorkerStep, FetchAlerts, ListRuns, ReadFails, SkipAlert, IssueCreate, EndTarget,
         CreateReturns, CreateFails, CreateAborted, Continue, TypeInv, TypeOK
<1>3. \A u \in Targets \ {t} : \A g \in Groups : backoff'[Key(u, g)] = backoff[Key(u, g)]
  <2>1. CASE UNCHANGED backoff
    BY <2>1
  <2>2. ASSUME NEW p \in worker[t].req, NEW e,
               backoff' = [backoff EXCEPT ![Key(t, p.group)] = e]
        PROVE  \A u \in Targets \ {t} : \A g \in Groups :
                 backoff'[Key(u, g)] = backoff[Key(u, g)]
    <3>1. p.group \in Groups
      BY DEF TypeInv, TypeOK, Worker, Run
    <3>2. \A u \in Targets \ {t} : \A g \in Groups :
            Key(u, g) # Key(t, p.group) /\ Key(u, g) \in BackoffKeys
      BY <3>1, DistinctKeys DEF Key, creationBackoffKey, BackoffKeys
    <3>. QED BY <2>2, <3>2 DEF TypeInv, TypeOK
  <2>. QED BY <2>1, <2>2
    DEF WorkerStep, FetchAlerts, ListRuns, ReadFails, SkipAlert, IssueCreate, EndTarget,
        CreateReturns, CreateFails, CreateAborted
<1>4. worker[t].pc # "off"
  BY DEF WorkerStep, FetchAlerts, ListRuns, ReadFails, SkipAlert, IssueCreate, EndTarget,
         CreateReturns, CreateFails, CreateAborted, AtAlert
<1>. QED BY <1>1, <1>2, <1>3, <1>4

LEMMA WorkerStepFrame ==
  ASSUME DistinctNames, TypeInv, TypeInv', DedupInv, ~LateCreates,
         NEW t \in Targets, WorkerStep(t), WorkerInformed(t)'
  PROVE  DedupInv'
<1>1. UNCHANGED <<runs, clock, inflight, loop>> /\ worker[t].pc # "off"
  BY WorkerStepLocal
     DEF WorkerStep, FetchAlerts, ListRuns, ReadFails, SkipAlert, IssueCreate, EndTarget,
         CreateReturns, CreateFails, CreateAborted, Abandon, world
<1>2. ASSUME NEW u \in Targets \ {t} PROVE WorkerInformed(u)'
  <2>1. clock' >= clock
    BY <1>1 DEF TypeInv, TypeOK
  <2>2. WorkerInformed(u)
    BY DEF DedupInv
  <2>. QED BY <1>1, <2>1, <2>2, WorkerStepLocal, StaysInformed
<1>3. WorkersAwaited'
  BY <1>1 DEF DedupInv, WorkersAwaited
<1>. QED BY <1>1, <1>2, <1>3 DEF DedupInv, OneActivePerGroup

\* The step of a worker is a list of the runs, the end of its work, or keeps what
\* it knows.
Listed(t) == worker'[t].pc = "loop" /\ worker'[t].view = ListAgenticRuns(t.label)
Outside(t) == worker'[t].pc \in {"off", "fetch", "list"}
Learns(t) == /\ worker[t].pc \in {"loop", "create"}
             /\ worker[t].view \subseteq worker'[t].view
             /\ \A g \in Groups : Covered(t, g) => Covered(t, g)'

\* Whatever happens to the runs, a worker stays careful and forgets nothing.
LEMMA WorkerStepCareful ==
  ASSUME TypeInv, TypeInv', NEW t \in Targets, Careful(t), WorkerStep(t)
  PROVE  Careful(t)' /\ (Listed(t) \/ Outside(t) \/ Learns(t))
<1>. DEFINE w == worker[t]
<1>0. /\ w \in Worker
      /\ \A r \in runs : r.group \in Groups
      /\ \A p \in w.req : p.group \in Groups
  <2>1. w \in Worker
    BY DEF TypeInv, TypeOK
  <2>2. \A r \in runs : r.group \in Groups
    BY DEF TypeInv, TypeOK, Run
  <2>3. \A p \in w.req : p.group \in Groups
    BY <2>1 DEF Worker, Run
  <2>. QED BY <2>1, <2>2, <2>3
<1>1. CASE FetchAlerts(t)
  BY <1>1 DEF FetchAlerts, world, Careful, RequestFree, Outside, TypeInv, TypeOK, Worker
<1>2. CASE ListRuns(t)
  <2>1. /\ worker'[t].view = ListAgenticRuns(t.label) /\ worker'[t].pc = "loop"
        /\ worker'[t].now = clock /\ UNCHANGED <<runs, clock>>
    BY <1>2 DEF ListRuns, world, TypeInv, TypeOK, Worker
  <2>. QED BY <2>1 DEF Listed, Careful, RequestFree, TypeInv, TypeOK
<1>3. CASE ReadFails(t) \/ EndTarget(t) \/ CreateAborted(t)
  <2>1. worker'[t] = Off
    BY <1>3 DEF ReadFails, EndTarget, CreateAborted, TypeInv, TypeOK
  <2>2. worker'[t].pc = "off" /\ worker'[t].now <= clock'
    BY <2>1 DEF Off, TypeInv, TypeOK
  <2>. QED BY <2>2 DEF Outside, Careful, RequestFree
<1>4. CASE SkipAlert(t)
  <2>1. /\ worker'[t].view = w.view /\ worker'[t].now = w.now
        /\ worker'[t].pc = "loop" /\ w.pc = "loop"
        /\ UNCHANGED <<runs, clock, backoff>>
    BY <1>4 DEF SkipAlert, AtAlert, world, TypeInv, TypeOK, Worker
  <2>2. Learns(t)
    BY <2>1 DEF Learns, Covered, InBackoff
  <2>. QED BY <2>1, <2>2 DEF Careful, RequestFree
<1>5. CASE IssueCreate(t)
  <2>. DEFINE a == Head(w.todo)
              p == requestFor(a, t, w.view)
              b == backoff[Key(t, a.group)].dur > 0
              v == [w EXCEPT !.pc = "create", !.todo = Tail(w.todo), !.answer = "none",
                             !.req = {p}, !.hadBackoff = b]
  <2>0. worker' = [worker EXCEPT ![t] = v]
    BY <1>5 DEF IssueCreate, TypeInv, TypeOK
  <2>1. /\ worker'[t].view = w.view /\ worker'[t].now = w.now
        /\ worker'[t].pc = "create" /\ w.pc = "loop"
        /\ worker'[t].req = {p} /\ UNCHANGED <<runs, clock, backoff>>
    <3>1. w.pc = "loop" /\ UNCHANGED <<runs, clock, backoff>>
      BY <1>5 DEF IssueCreate, AtAlert, world
    <3>2. worker'[t] = v
      BY <2>0 DEF TypeInv, TypeOK
    <3>. HIDE DEF p, b
    <3>. QED BY <1>0, <3>1, <3>2 DEF Worker
  <2>2. Learns(t)
    BY <2>1 DEF Learns, Covered, InBackoff
  <2>3. /\ a \in Alert /\ ~cannotBuild(a)
        /\ ~hasActiveRun(a.group, w.view) /\ ~InBackoff(t, a.group)
        /\ PostRunDelay > 0 => ~tooRecent(a.group, w.view, w.now, PostRunDelay)
    BY <1>0, <1>5 DEF IssueCreate, AtAlert, Skipped, Worker
  <2>4. p.label = t.label /\ p.group = a.group /\ Active(p)
    BY <2>3, RequestType DEF TypeInv, FiniteRuns
  <2>5. RequestFree(t)'
    <3>. HIDE DEF a, p
    <3>. QED BY <2>1, <2>3, <2>4 DEF RequestFree, InBackoff
  <2>. QED BY <2>1, <2>2, <2>5 DEF Careful
<1>6. CASE CreateReturns(t)
  <2>1. PICK p \in w.req :
          /\ backoff' = IF w.hadBackoff THEN [backoff EXCEPT ![Key(t, p.group)] = NoEntry]
                                       ELSE backoff
          /\ Continue(t, IF w.answer = "created" THEN w.view \cup {p} ELSE w.view)
    BY <1>6 DEF CreateReturns
  <2>2. /\ w.pc = "create" /\ worker'[t].pc = "loop" /\ worker'[t].now = w.now
        /\ worker'[t].view = IF w.answer = "created" THEN w.view \cup {p} ELSE w.view
        /\ UNCHANGED <<runs, clock>>
    BY <1>6, <2>1 DEF CreateReturns, Continue, world, TypeInv, TypeOK, Worker
  <2>3. Active(p) /\ ~InBackoff(t, p.group) /\ \A q \in w.req : q = p
    BY <2>2 DEF Careful, RequestFree
  <2>4. \A g \in Groups : InBackoff(t, g) => InBackoff(t, g)'
    <3>1. \A g \in Groups : g # p.group => Key(t, g) # Key(t, p.group)
      BY DEF Key, creationBackoffKey
    <3>2. \A g \in Groups : Key(t, g) \in BackoffKeys
      BY DEF Key, creationBackoffKey, BackoffKeys
    <3>. QED BY <2>1, <2>2, <2>3, <3>1, <3>2 DEF InBackoff, TypeInv, TypeOK
  <2>5. ASSUME NEW g \in Groups, Covered(t, g) PROVE Covered(t, g)'
    BY <2>2, <2>3, <2>4, <2>5 DEF Covered, hasActiveRun
  <2>. QED BY <2>2, <2>5 DEF Learns, Careful, RequestFree
<1>7. CASE CreateFails(t)
  <2>1. PICK p \in w.req :
          /\ backoff' = [backoff EXCEPT ![Key(t, p.group)] =
                           BackoffNext(backoff[Key(t, p.group)], w.now, clock)]
          /\ Continue(t, w.view)
    BY <1>7 DEF CreateFails
  <2>2. /\ w.pc = "create" /\ worker'[t].pc = "loop" /\ worker'[t].now = w.now
        /\ worker'[t].view = w.view
        /\ UNCHANGED <<runs, clock>>
    BY <1>7, <2>1 DEF CreateFails, Continue, TypeInv, TypeOK, Worker
  <2>3. \A q \in w.req : q = p
    BY <2>2 DEF Careful, RequestFree
  <2>4. Key(t, p.group) \in BackoffKeys
    BY <1>0 DEF Key, creationBackoffKey, BackoffKeys
  <2>5. InBackoff(t, p.group)'
    <3>1. /\ backoff[Key(t, p.group)] \in [dur : Nat, last : Nat]
          /\ w.now \in Nat /\ clock \in Nat /\ w.now <= clock
      BY <1>0, <2>4 DEF Careful, TypeInv, TypeOK, Worker
    <3>2. backoff'[Key(t, p.group)] = BackoffNext(backoff[Key(t, p.group)], w.now, clock)
      BY <2>1, <2>4 DEF TypeInv, TypeOK
    <3>. QED BY <2>2, <3>1, <3>2, BackoffNextHolds DEF InBackoff
  <2>6. \A g \in Groups : InBackoff(t, g) => InBackoff(t, g)'
    <3>1. \A g \in Groups : g # p.group => Key(t, g) # Key(t, p.group)
      BY DEF Key, creationBackoffKey
    <3>2. \A g \in Groups : Key(t, g) \in BackoffKeys
      BY DEF Key, creationBackoffKey, BackoffKeys
    <3>3. \A g \in Groups : g # p.group => backoff'[Key(t, g)] = backoff[Key(t, g)]
      BY <2>1, <3>1, <3>2 DEF TypeInv, TypeOK
    <3>. QED BY <2>2, <2>5, <3>3 DEF InBackoff
  <2>7. ASSUME NEW g \in Groups, Covered(t, g) PROVE Covered(t, g)'
    BY <2>2, <2>3, <2>5, <2>6, <2>7 DEF Covered
  <2>. QED BY <2>2, <2>7 DEF Learns, Careful, RequestFree
<1>. QED BY <1>1, <1>2, <1>3, <1>4, <1>5, <1>6, <1>7 DEF WorkerStep

\* After its own step a worker is still informed.
LEMMA WorkerStepInformed ==
  ASSUME DistinctNames, TypeInv, TypeInv', NEW t \in Targets, WorkerInformed(t), WorkerStep(t)
  PROVE  WorkerInformed(t)'
<1>1. Careful(t)' /\ (Listed(t) \/ Outside(t) \/ Learns(t))
  BY WorkerStepCareful DEF Careful, WorkerInformed
<1>2. runs' = runs /\ \A r \in runs : r.group \in Groups
  BY WorkerStepLocal DEF TypeInv, TypeOK, Run
<1>3. RunsCovered(t)'
  BY <1>1, <1>2 DEF WorkerInformed, Listed, Outside, Learns, RunsCovered, Covered,
                    hasActiveRun, ListAgenticRuns
<1>. QED BY <1>1, <1>3 DEF Careful, WorkerInformed

\* A create that reaches the API server finds no run of its group under way.
LEMMA ServerCreateDedupInv ==
  ASSUME TypeInv, TypeInv', DedupInv, NEW t \in Targets, ServerCreate(t)
  PROVE  DedupInv'
<1>. DEFINE w == worker[t]
<1>1. PICK p \in w.req :
        /\ runs' = Store(p)
        /\ worker' = [worker EXCEPT ![t].answer =
                        IF p.name \in runNames(runs) THEN "exists" ELSE "created"]
  BY DEF ServerCreate
<1>2. /\ w.pc = "create" /\ w.answer = "none" /\ w \in Worker
      /\ UNCHANGED <<clock, inflight, backoff, loop>>
  BY DEF ServerCreate, TypeInv, TypeOK
<1>3. worker'[t] = [w EXCEPT !.answer =
                      IF p.name \in runNames(runs) THEN "exists" ELSE "created"]
  BY <1>1 DEF TypeInv, TypeOK
<1>4. /\ worker'[t].pc = "create" /\ worker'[t].view = w.view /\ worker'[t].now = w.now
      /\ worker'[t].req = w.req
      /\ worker'[t].answer = IF p.name \in runNames(runs) THEN "exists" ELSE "created"
  BY <1>2, <1>3 DEF Worker
<1>5. /\ p.label = t.label /\ Active(p) /\ p.group \in Groups
      /\ ~hasActiveRun(p.group, w.view) /\ ~InBackoff(t, p.group)
  <2>1. p \in Run
    BY <1>2 DEF Worker
  <2>. QED BY <1>2, <2>1 DEF DedupInv, WorkerInformed, RequestFree, Run
<1>6. \A r \in runs : r.label = t.label /\ r.group = p.group => ~Active(r)
  BY <1>2, <1>5 DEF DedupInv, WorkerInformed, RunsCovered, Covered, ListAgenticRuns
<1>7. OneActivePerGroup'
  BY <1>1, <1>5, <1>6 DEF Store, DedupInv, OneActivePerGroup, SameGroup
<1>8. WorkerInformed(t)'
  <2>1. \A g : InBackoff(t, g)' <=> InBackoff(t, g)
    BY <1>2, <1>4 DEF InBackoff
  <2>2. \A g : Covered(t, g) => Covered(t, g)'
    BY <1>2, <1>4, <2>1 DEF Covered
  <2>3. p.name \notin runNames(runs) => Covered(t, p.group)'
    BY <1>4 DEF Covered
  <2>4. RunsCovered(t)
    BY DEF DedupInv, WorkerInformed
  <2>5. RunsCovered(t)'
    BY <1>1, <1>2, <2>2, <2>3, <2>4 DEF RunsCovered, ListAgenticRuns, Store
  <2>6. RequestFree(t)'
    BY <1>2, <1>4, <2>1 DEF DedupInv, WorkerInformed, RequestFree
  <2>. QED BY <1>2, <1>4, <2>5, <2>6 DEF DedupInv, WorkerInformed
<1>9. ASSUME NEW u \in Targets \ {t} PROVE WorkerInformed(u)'
  <2>1. worker'[u] = worker[u]
    BY <1>1 DEF TypeInv, TypeOK
  <2>2. p.label # u.label
    BY <1>5, DistinctLabels
  <2>3. \A r \in runs' : r.label = u.label => r \in runs
    BY <1>1, <2>2 DEF Store
  <2>4. clock' >= clock
    BY <1>2 DEF TypeInv, TypeOK
  <2>5. WorkerInformed(u)
    BY DEF DedupInv
  <2>. QED BY <1>2, <2>1, <2>3, <2>4, <2>5, StaysInformed
<1>10. WorkersAwaited'
  BY <1>2 DEF DedupInv, WorkersAwaited
<1>. QED BY <1>2, <1>7, <1>8, <1>9, <1>10 DEF DedupInv

\* Steps that leave the process alone and start no run.
LEMMA RunsDedupInv ==
  ASSUME TypeInv, TypeInv', DedupInv, UNCHANGED <<worker, backoff, loop, inflight>>,
         clock' >= clock, OneActivePerGroup',
         \A r \in runs' : r \in runs \/ \E q \in runs : SameGroup(q, r) /\ Active(q)
  PROVE  DedupInv'
<1>1. ASSUME NEW u \in Targets PROVE WorkerInformed(u)'
  <2>1. WorkerInformed(u)
    BY DEF DedupInv
  <2>. QED BY <2>1, StaysInformed DEF SameGroup
<1>2. WorkersAwaited' /\ inflight' = {}
  BY DEF DedupInv, WorkersAwaited
<1>. QED BY <1>1, <1>2 DEF DedupInv

LEMMA EnvironmentDedupInv ==
  ASSUME ~LateCreates, TypeInv, TypeInv', DedupInv, Environment
  PROVE  DedupInv'
<1>1. CASE AdvanceClock
  <2>1. /\ UNCHANGED <<runs, worker, backoff, loop, inflight>>
        /\ clock' >= clock
    BY <1>1 DEF AdvanceClock, TypeInv, TypeOK
  <2>. QED BY <2>1, RunsDedupInv DEF DedupInv, OneActivePerGroup, SameGroup
<1>2. CASE Cancel
  <2>1. /\ UNCHANGED <<runs, worker, backoff, loop, inflight>>
        /\ clock' >= clock
    BY <1>2 DEF Cancel, TypeInv, TypeOK
  <2>. QED BY <2>1, RunsDedupInv DEF DedupInv, OneActivePerGroup, SameGroup
<1>3. CASE Restart
  <2>1. \A t \in Targets : worker'[t].pc = "off" /\ worker'[t].now <= clock'
    BY <1>3 DEF Restart, Fresh, Off, TypeInv, TypeOK
  <2>2. \A t \in Targets : WorkerInformed(t)'
    BY <2>1, OutsideInformed
  <2>. QED BY <1>3, <2>1, <2>2
           DEF Restart, Abandon, DedupInv, OneActivePerGroup, WorkersAwaited
<1>4. ASSUME NEW t \in Targets, ServerCreate(t) PROVE DedupInv'
  BY <1>4, ServerCreateDedupInv
<1>5. ASSUME NEW r \in runs, NEW report \in Outcomes, OperatorStep(r, report)
      PROVE DedupInv'
  <2>. DEFINE conds == Append(r.conds, [report |-> report, at |-> clock])
              ended == IF isTerminal(DerivePhase(conds)) THEN clock ELSE NilTime
              q == [r EXCEPT !.conds = conds, !.ended = ended]
  <2>0. /\ runs' = (runs \ {r}) \cup {q} /\ Active(r)
        /\ UNCHANGED <<worker, backoff, loop, inflight, clock>>
    BY <1>5 DEF OperatorStep, process
  <2>1. SameGroup(r, q)
    <3>1. r \in Run
      BY DEF TypeInv, TypeOK
    <3>. HIDE DEF conds, ended
    <3>. QED BY <3>1 DEF SameGroup, Run
  <2>. HIDE DEF q
  <2>2. OneActivePerGroup'
    BY <2>0, <2>1 DEF DedupInv, OneActivePerGroup, SameGroup
  <2>3. clock' >= clock
    BY <2>0 DEF TypeInv, TypeOK
  <2>. QED BY <2>0, <2>1, <2>2, <2>3, RunsDedupInv DEF SameGroup
<1>6. ASSUME NEW r \in runs, DeleteRun(r) PROVE DedupInv'
  <2>1. runs' = runs \ {r} /\ UNCHANGED <<worker, backoff, loop, inflight, clock>>
    BY <1>6 DEF DeleteRun, process
  <2>2. clock' >= clock
    BY <2>1 DEF TypeInv, TypeOK
  <2>. QED BY <2>1, <2>2, RunsDedupInv DEF DedupInv, OneActivePerGroup, SameGroup
<1>7. ASSUME NEW state \in OLSConfigStates, SetOLSConfig(state) PROVE DedupInv'
  <2>1. UNCHANGED <<runs, worker, backoff, loop, inflight, clock>>
    BY <1>7 DEF SetOLSConfig, process
  <2>2. clock' >= clock
    BY <2>1 DEF TypeInv, TypeOK
  <2>. QED BY <2>1, <2>2, RunsDedupInv DEF DedupInv, OneActivePerGroup, SameGroup
<1>8. inflight = {}
  BY DEF DedupInv
<1>. QED BY <1>1, <1>2, <1>3, <1>4, <1>5, <1>6, <1>7, <1>8 DEF Environment

LEMMA NextDedupInv ==
  ASSUME DistinctNames, ~LateCreates, TypeInv, TypeInv', DedupInv, [Next]_vars
  PROVE  DedupInv'
<1>1. CASE LoopStep
  BY <1>1, LoopDedupInv
<1>2. ASSUME NEW t \in Targets, WorkerStep(t) PROVE DedupInv'
  <2>1. WorkerInformed(t)
    BY DEF DedupInv
  <2>. QED BY <1>2, <2>1, WorkerStepInformed, WorkerStepFrame
<1>3. CASE Environment
  BY <1>3, EnvironmentDedupInv
<1>4. CASE UNCHANGED vars
  <2>1. UNCHANGED <<runs, worker, backoff, loop, inflight, clock>>
    BY <1>4 DEF vars, world, process
  <2>2. clock' >= clock
    BY <2>1 DEF TypeInv, TypeOK
  <2>. QED BY <2>1, <2>2, RunsDedupInv DEF DedupInv, OneActivePerGroup, SameGroup
<1>. QED BY <1>1, <1>2, <1>3, <1>4 DEF Next

\* If targets have different names and a create the adapter gave up on is applied
\* at once or never, a worker that sends a create knows of every run in its
\* target's groups that is under way or ended since it listed the runs.
THEOREM DedupInvariant ==
  ASSUME DistinctNames, ~LateCreates
  PROVE  Spec => []DedupInv
BY InitDedupInv, NextDedupInv, TypeCorrect, PTL DEF Spec

\* Under the same conditions no alert group of a target has two runs under way
\* (reconcileTarget), for any number of targets, workers, alerts and faults.
THEOREM OneActiveRun ==
  ASSUME DistinctNames, ~LateCreates
  PROVE  Spec => []OneActivePerGroup
BY DedupInvariant, PTL DEF DedupInv
------------------------------------------------------------------------------
(* What a process knows when it is not the only one *)

ProcessInv == WorkersAwaited /\ \A t \in Targets : Careful(t)

NoneActive(t, group) == \A r \in ListAgenticRuns(t.label) : r.group = group => ~Active(r)

LEMMA InitProcessInv ==
  ASSUME clock \in Nat, worker = Fresh.worker
  PROVE  ProcessInv /\ \A t \in Targets, g \in Groups : ~Unaware(t, g)
BY DEF Fresh, Off, ProcessInv, WorkersAwaited, Careful, RequestFree, Unaware

\* The others leave the process alone.
LEMMA ProcessWaits ==
  ASSUME TypeInv, TypeInv', ProcessInv, UNCHANGED <<worker, backoff, loop>>, clock' >= clock
  PROVE  ProcessInv' /\ \A t \in Targets, g \in Groups : Unaware(t, g)' => Unaware(t, g)
<1>1. ASSUME NEW t \in Targets
      PROVE  Careful(t)' /\ \A g \in Groups : Covered(t, g)' <=> Covered(t, g)
  BY StaysCareful DEF ProcessInv
<1>. QED BY <1>1 DEF ProcessInv, WorkersAwaited, Unaware

\* Between cycles and while it starts workers a process learns and forgets nothing.
LEMMA LoopStepProcess ==
  ASSUME TypeInv, TypeInv', ProcessInv, LoopStep
  PROVE  /\ UNCHANGED <<runs, clock>> /\ ProcessInv'
         /\ \A t \in Targets, g \in Groups : Unaware(t, g)' => Unaware(t, g)
<1>1. UNCHANGED <<runs, clock>> /\ clock' >= clock
  BY LoopStepLocal DEF TypeInv, TypeOK
<1>2. WorkersAwaited'
  BY LoopStepAwaits DEF ProcessInv
<1>3. ASSUME NEW t \in Targets
      PROVE  Careful(t)' /\ \A g \in Groups : Unaware(t, g)' => Unaware(t, g)
  <2>1. CASE worker'[t] = worker[t] /\ UNCHANGED backoff
    BY <1>1, <2>1, StaysCareful DEF ProcessInv, Unaware
  <2>2. CASE worker'[t].pc \in {"off", "fetch"} /\ worker'[t].now <= clock'
    BY <2>2 DEF Careful, RequestFree, Unaware
  <2>3. CASE GateOpens
    BY <1>1, <2>2, <2>3 DEF GateOpens, ProcessInv, WorkersAwaited, Careful
  <2>4. ASSUME NEW u \in Targets, StartTarget(u)
        PROVE  \/ worker'[t] = worker[t] /\ UNCHANGED backoff
               \/ worker'[t].pc \in {"off", "fetch"} /\ worker'[t].now <= clock'
    BY <1>1, <2>4 DEF StartTarget, Off, TypeInv, TypeOK
  <2>. QED BY <2>1, <2>2, <2>3, <2>4, LoopStepLocal
<1>. QED BY <1>1, <1>2, <1>3 DEF ProcessInv

\* A worker that does not know of a run in a group has listed none.
LEMMA WorkerStepProcess ==
  ASSUME DistinctNames, TypeInv, TypeInv', ProcessInv, NEW t \in Targets, WorkerStep(t)
  PROVE  /\ UNCHANGED <<runs, clock>> /\ ProcessInv'
         /\ \A u \in Targets, g \in Groups :
              Unaware(u, g)' => Unaware(u, g) \/ NoneActive(u, g)
<1>1. UNCHANGED <<runs, clock, loop>> /\ worker[t].pc # "off" /\ clock' >= clock
  BY WorkerStepLocal DEF TypeInv, TypeOK
<1>2. ASSUME NEW u \in Targets \ {t}
      PROVE  Careful(u)' /\ \A g \in Groups : Unaware(u, g)' => Unaware(u, g)
  BY <1>1, WorkerStepLocal, StaysCareful DEF ProcessInv, Unaware
<1>3. Careful(t)' /\ (Listed(t) \/ Outside(t) \/ Learns(t))
  BY WorkerStepCareful DEF ProcessInv
<1>4. \A g \in Groups : Unaware(t, g)' => Unaware(t, g) \/ NoneActive(t, g)
  BY <1>3 DEF Listed, Outside, Learns, Unaware, Covered, hasActiveRun, NoneActive
<1>5. WorkersAwaited'
  BY <1>1 DEF ProcessInv, WorkersAwaited
<1>. QED BY <1>1, <1>2, <1>3, <1>4, <1>5 DEF ProcessInv

\* Only a worker that does not know of a run in the group sends a create, and it
\* knows of the run it has got.
LEMMA ServerCreateProcess ==
  ASSUME TypeInv, TypeInv', ProcessInv, NEW t \in Targets, ServerCreate(t)
  PROVE  /\ UNCHANGED clock /\ ProcessInv'
         /\ \A u \in Targets, g \in Groups : Unaware(u, g)' => Unaware(u, g)
         /\ \E p \in worker[t].req :
              /\ runs' = Store(p) /\ p \in Run /\ p.label = t.label /\ Active(p)
              /\ Unaware(t, p.group)
              /\ p.name \notin runNames(runs) => ~Unaware(t, p.group)'
<1>. DEFINE w == worker[t]
<1>1. PICK p \in w.req :
        /\ runs' = Store(p)
        /\ worker' = [worker EXCEPT ![t].answer =
                        IF p.name \in runNames(runs) THEN "exists" ELSE "created"]
  BY DEF ServerCreate
<1>2. /\ w.pc = "create" /\ w.answer = "none" /\ w \in Worker /\ p \in Run
      /\ UNCHANGED <<clock, backoff, loop>> /\ clock' >= clock
  <2>1. w.pc = "create" /\ w.answer = "none" /\ UNCHANGED <<clock, backoff, loop>>
    BY DEF ServerCreate
  <2>2. w \in Worker /\ clock \in Nat
    BY DEF TypeInv, TypeOK
  <2>. QED BY <2>1, <2>2 DEF Worker
<1>3. worker'[t] = [w EXCEPT !.answer =
                      IF p.name \in runNames(runs) THEN "exists" ELSE "created"]
  BY <1>1 DEF TypeInv, TypeOK
<1>4. /\ worker'[t].pc = "create" /\ worker'[t].view = w.view /\ worker'[t].now = w.now
      /\ worker'[t].req = w.req
      /\ worker'[t].answer = IF p.name \in runNames(runs) THEN "exists" ELSE "created"
  BY <1>2, <1>3 DEF Worker
<1>5. Careful(t) /\ p.label = t.label /\ Active(p) /\ Unaware(t, p.group)
  BY <1>2 DEF ProcessInv, Careful, RequestFree, Unaware, Covered
<1>6. \A g : InBackoff(t, g)' <=> InBackoff(t, g)
  BY <1>2, <1>4 DEF InBackoff
<1>7. Careful(t)' /\ \A g : Covered(t, g) => Covered(t, g)'
  BY <1>2, <1>4, <1>5, <1>6 DEF Careful, RequestFree, Covered
<1>8. p.name \notin runNames(runs) => Covered(t, p.group)'
  BY <1>4 DEF Covered
<1>9. ASSUME NEW u \in Targets \ {t}
      PROVE  Careful(u)' /\ \A g \in Groups : Unaware(u, g)' => Unaware(u, g)
  <2>1. worker'[u] = worker[u]
    BY <1>1 DEF TypeInv, TypeOK
  <2>. QED BY <1>2, <2>1, StaysCareful DEF ProcessInv, Unaware
<1>10. WorkersAwaited'
  BY <1>2 DEF ProcessInv, WorkersAwaited
<1>. QED BY <1>1, <1>2, <1>5, <1>7, <1>8, <1>9, <1>10 DEF ProcessInv, Unaware
------------------------------------------------------------------------------
(* Names *)

NamesUnique == \A r, p \in runs : r.name = p.name => r = p

\* A run somebody has read: the server still has it, and what had ended has ended.
Kept(v) ==
  \E r \in runs : r.name = v.name /\ r.group = v.group /\ (~Active(v) => ~Active(r))

\* A replacement comes after the runs whose names it has passed over, all of its
\* group and ended.  Names that are cut are left out.
Preceded(p) ==
  p.name.stem \notin LongStems =>
    \A j \in 0 .. (p.name.retry - 1) :
      \E q \in runs : /\ q.name = [p.name EXCEPT !.retry = j]
                      /\ q.group = p.group /\ ~Active(q)

RunsInOrder == NamesUnique /\ \A r \in runs : Preceded(r)

\* What a worker has read and asks for.
ReadsKept(t) ==
  /\ \A v \in worker[t].view : Kept(v)
  /\ worker[t].pc = "create" =>
       \A p \in worker[t].req : Preceded(p) /\ (worker[t].answer = "created" => Kept(p))

\* Runs stay, and so do their ends.
RunsStay ==
  \A r \in runs : \E q \in runs' :
    q.name = r.name /\ q.group = r.group /\ (~Active(r) => ~Active(q))

LEMMA StayKept ==
  ASSUME RunsStay
  PROVE  /\ \A v : Kept(v) => Kept(v)'
         /\ \A p : Preceded(p) => Preceded(p)'
<1>1. ASSUME NEW v, Kept(v) PROVE Kept(v)'
  BY <1>1 DEF Kept, RunsStay
<1>2. ASSUME NEW p, Preceded(p) PROVE Preceded(p)'
  <2>1. SUFFICES ASSUME p.name.stem \notin LongStems, NEW j \in 0 .. (p.name.retry - 1)
                 PROVE  \E q \in runs' : /\ q.name = [p.name EXCEPT !.retry = j]
                                         /\ q.group = p.group /\ ~Active(q)
    BY DEF Preceded
  <2>2. PICK r \in runs : /\ r.name = [p.name EXCEPT !.retry = j]
                          /\ r.group = p.group /\ ~Active(r)
    BY <1>2, <2>1 DEF Preceded
  <2>3. PICK q \in runs' : q.name = r.name /\ q.group = r.group /\ ~Active(q)
    BY <2>2 DEF RunsStay
  <2>. QED BY <2>2, <2>3
<1>. QED BY <1>1, <1>2

\* The name a worker asks for passes over runs of the alert's group that have ended.
LEMMA RequestPreceded ==
  ASSUME runs \subseteq Run, RunsInOrder,
         NEW t \in Targets, NEW a \in Alert, ~cannotBuild(a),
         NEW view \in SUBSET Run, IsFiniteSet(view), \A v \in view : Kept(v),
         ~hasActiveRun(a.group, view)
  PROVE  Preceded(requestFor(a, t, view))
<1>. DEFINE base == buildName(a.stem, a.startsAt, t.id)
            q == requestFor(a, t, view)
<1>1. BuildForTarget(a, t).name = base /\ BuildForTarget(a, t).group = a.group
  BY DEF BuildForTarget
<1>2. /\ base.stem = a.stem /\ base.retry = 0
      /\ base = [stem |-> a.stem, hash |-> base.hash, retry |-> 0]
  BY DEF buildName
<1>3. CASE ~hasEmergencyStoppedNameConflict(base, a.group, view)
  <2>1. q.name = base
    BY <1>1, <1>3 DEF requestFor
  <2>2. 0 .. (q.name.retry - 1) = {}
    BY <1>2, <2>1
  <2>. QED BY <2>2 DEF Preceded
<1>4. CASE hasEmergencyStoppedNameConflict(base, a.group, view)
  <2>1. q.name = NextAvailableName(base, runNames(view)) /\ q.group = a.group
    BY <1>1, <1>4 DEF requestFor, BuildForTarget
  <2>2. IsBaseName(base) /\ IsFiniteSet(runNames(view))
    BY <1>2, RunNamesFinite DEF IsBaseName
  <2>3. PICK i \in Nat :
          /\ NextAvailableName(base, runNames(view)) = candidateName(base, i)
          /\ \A j \in 0 .. (i - 1) : candidateName(base, j) \in runNames(view)
    <3>. HIDE DEF base
    <3>. QED BY <2>2, NextAvailableNameIsFree
  <2>4. SUFFICES ASSUME a.stem \notin LongStems, NEW j \in 0 .. (i - 1)
                 PROVE  \E r \in runs : /\ r.name = [stem |-> a.stem, hash |-> base.hash, retry |-> j]
                                        /\ r.group = a.group /\ ~Active(r)
    <3>1. CASE i = 0
      <4>1. q.name.retry = 0
        BY <1>2, <2>1, <2>3, <3>1 DEF candidateName
      <4>2. 0 .. (q.name.retry - 1) = {}
        BY <4>1
      <4>. QED BY <4>2 DEF Preceded
    <3>2. CASE i # 0
      <4>1. /\ q.name.stem = a.stem
            /\ a.stem \notin LongStems =>
                 q.name = [stem |-> a.stem, hash |-> base.hash, retry |-> i]
        BY <1>2, <2>1, <2>3, <3>2 DEF candidateName, retryName
      <4>. HIDE DEF base
      <4>. QED BY <2>1, <2>4, <4>1 DEF Preceded
    <3>. QED BY <3>1, <3>2
  <2>5. candidateName(base, j) = [stem |-> a.stem, hash |-> base.hash, retry |-> j]
    <3>1. base.stem = a.stem
      BY <1>2
    <3>. HIDE DEF base
    <3>. QED BY <1>2, <2>4, <3>1 DEF candidateName, retryName
  <2>6. PICK v0 \in view : v0.name = base /\ v0.group = a.group
    BY <1>4 DEF hasEmergencyStoppedNameConflict
  <2>7. PICK r0 \in runs : r0.name = base /\ r0.group = a.group
    BY <2>6 DEF Kept
  <2>8. PICK v \in view : v.name = candidateName(base, j)
    BY <2>3, <2>4 DEF runNames
  <2>9. PICK r \in runs : /\ r.name = v.name /\ r.group = v.group
                          /\ ~Active(v) => ~Active(r)
    BY <2>8 DEF Kept
  <2>10. r.group = a.group
    <3>1. CASE j = 0
      <4>1. r.name = r0.name
        BY <1>2, <2>5, <2>7, <2>8, <2>9, <3>1
      <4>. QED BY <2>7, <4>1 DEF RunsInOrder, NamesUnique
    <3>2. CASE j # 0
      <4>1. r.name = [stem |-> a.stem, hash |-> base.hash, retry |-> j]
        BY <2>5, <2>8, <2>9
      <4>2. /\ r.name.stem = a.stem /\ 0 \in 0 .. (r.name.retry - 1)
            /\ [r.name EXCEPT !.retry = 0] = base
        <5>. HIDE DEF base
        <5>. QED BY <1>2, <2>4, <3>2, <4>1
      <4>3. PICK s \in runs : s.name = base /\ s.group = r.group
        <5>. HIDE DEF base
        <5>. QED BY <2>4, <4>2 DEF RunsInOrder, Preceded
      <4>4. s = r0
        BY <2>7, <4>3 DEF RunsInOrder, NamesUnique
      <4>. QED BY <2>7, <4>3, <4>4
    <3>. QED BY <3>1, <3>2
  <2>11. ~Active(r)
    BY <2>9, <2>10 DEF hasActiveRun
  <2>. QED BY <2>5, <2>8, <2>9, <2>10, <2>11
<1>. QED BY <1>1, <1>3, <1>4

\* What a worker's record holds is kept by steps that leave it alone.
LEMMA StaysRead ==
  ASSUME RunsStay, NEW t \in Targets, ReadsKept(t), worker'[t] = worker[t]
  PROVE  ReadsKept(t)'
BY StayKept DEF ReadsKept

\* The loop starts its workers with empty hands.
LEMMA LoopStepReads ==
  ASSUME TypeInv, LoopStep, \A t \in Targets : ReadsKept(t)
  PROVE  \A t \in Targets : ReadsKept(t)'
<1>1. runs' = runs /\ RunsStay
  BY LoopStepLocal DEF RunsStay
<1>2. CASE UNCHANGED worker
  BY <1>1, <1>2, StaysRead
<1>3. ASSUME NEW u \in Targets, StartTarget(u) PROVE \A t \in Targets : ReadsKept(t)'
  <2>1. worker' = [worker EXCEPT ![u] = [Off EXCEPT !.pc = "fetch", !.start = clock]]
    BY <1>3 DEF StartTarget
  <2>2. ReadsKept(u)'
    <3>1. worker'[u].view = {} /\ worker'[u].pc # "create"
      BY <2>1 DEF Off, TypeInv, TypeOK
    <3>. QED BY <3>1 DEF ReadsKept
  <2>3. \A t \in Targets \ {u} : worker'[t] = worker[t]
    BY <2>1 DEF TypeInv, TypeOK
  <2>. QED BY <1>1, <2>2, <2>3, StaysRead
<1>. QED BY <1>2, <1>3, LoopStepLocal DEF GateOpens

\* Whatever a worker does, what it has read and what it asks for is in order.
LEMMA WorkerStepReads ==
  ASSUME DistinctNames, TypeInv, RunsInOrder, NEW t \in Targets, WorkerStep(t),
         \A u \in Targets : ReadsKept(u)
  PROVE  \A u \in Targets : ReadsKept(u)'
<1>. DEFINE w == worker[t]
<1>1. /\ runs' = runs /\ RunsStay /\ w \in Worker
      /\ \A u \in Targets \ {t} : worker'[u] = worker[u]
  BY WorkerStepLocal DEF RunsStay, TypeInv, TypeOK
<1>2. SUFFICES ReadsKept(t)'
  BY <1>1, StaysRead
<1>3. CASE FetchAlerts(t)
  <2>1. worker'[t].view = w.view /\ worker'[t].pc = "list"
    BY <1>1, <1>3 DEF FetchAlerts, TypeInv, TypeOK, Worker
  <2>. QED BY <1>1, <2>1, StayKept DEF ReadsKept
<1>4. CASE ListRuns(t)
  <2>1. worker'[t].view = ListAgenticRuns(t.label) /\ worker'[t].pc = "loop"
    BY <1>1, <1>4 DEF ListRuns, TypeInv, TypeOK, Worker
  <2>. QED BY <1>1, <2>1 DEF ReadsKept, ListAgenticRuns, Kept
<1>5. CASE ReadFails(t) \/ EndTarget(t) \/ CreateAborted(t)
  <2>1. worker'[t].view = {} /\ worker'[t].pc # "create"
    BY <1>5 DEF ReadFails, EndTarget, CreateAborted, Off, TypeInv, TypeOK
  <2>. QED BY <2>1 DEF ReadsKept
<1>6. CASE SkipAlert(t)
  <2>1. worker'[t].view = w.view /\ worker'[t].pc = "loop"
    BY <1>1, <1>6 DEF SkipAlert, AtAlert, TypeInv, TypeOK, Worker
  <2>. QED BY <1>1, <2>1, StayKept DEF ReadsKept
<1>7. CASE IssueCreate(t)
  <2>. DEFINE a == Head(w.todo)
              p == requestFor(a, t, w.view)
              b == backoff[Key(t, a.group)].dur > 0
              v == [w EXCEPT !.pc = "create", !.todo = Tail(w.todo), !.answer = "none",
                             !.req = {p}, !.hadBackoff = b]
  <2>1. worker'[t] = v
    BY <1>7 DEF IssueCreate, TypeInv, TypeOK
  <2>2. worker'[t].view = w.view /\ worker'[t].req = {p} /\ worker'[t].answer = "none"
    <3>. HIDE DEF p, b
    <3>. QED BY <1>1, <2>1 DEF Worker
  <2>3. a \in Alert /\ ~cannotBuild(a) /\ ~hasActiveRun(a.group, w.view)
    BY <1>1, <1>7 DEF IssueCreate, AtAlert, Skipped, Worker
  <2>4. Preceded(p)
    <3>1. /\ runs \subseteq Run /\ w.view \in SUBSET Run /\ IsFiniteSet(w.view)
          /\ \A x \in w.view : Kept(x)
      BY <1>1 DEF TypeInv, TypeOK, FiniteRuns, Worker, ReadsKept
    <3>. HIDE DEF a
    <3>. QED BY <2>3, <3>1, RequestPreceded
  <2>. HIDE DEF p
  <2>. QED BY <1>1, <2>2, <2>4, StayKept DEF ReadsKept
<1>8. CASE CreateReturns(t)
  <2>1. PICK p \in w.req :
          Continue(t, IF w.answer = "created" THEN w.view \cup {p} ELSE w.view)
    BY <1>8 DEF CreateReturns
  <2>2. /\ w.pc = "create" /\ worker'[t].pc = "loop"
        /\ worker'[t].view = IF w.answer = "created" THEN w.view \cup {p} ELSE w.view
    BY <1>1, <1>8, <2>1 DEF CreateReturns, Continue, TypeInv, TypeOK, Worker
  <2>. QED BY <1>1, <2>2, StayKept DEF ReadsKept
<1>9. CASE CreateFails(t)
  <2>1. worker'[t].pc = "loop" /\ worker'[t].view = w.view
    BY <1>1, <1>9 DEF CreateFails, Continue, TypeInv, TypeOK, Worker
  <2>. QED BY <1>1, <2>1, StayKept DEF ReadsKept
<1>. QED BY <1>3, <1>4, <1>5, <1>6, <1>7, <1>8, <1>9 DEF WorkerStep

\* The server refuses a name it has.
LEMMA ServerCreateReads ==
  ASSUME TypeInv, ProcessInv, RunsInOrder, NEW t \in Targets, ServerCreate(t),
         \A u \in Targets : ReadsKept(u)
  PROVE  RunsStay /\ RunsInOrder' /\ \A u \in Targets : ReadsKept(u)'
<1>. DEFINE w == worker[t]
<1>1. PICK p \in w.req :
        /\ runs' = Store(p)
        /\ worker' = [worker EXCEPT ![t].answer =
                        IF p.name \in runNames(runs) THEN "exists" ELSE "created"]
  BY DEF ServerCreate
<1>2. /\ w.pc = "create" /\ w \in Worker /\ \A q \in w.req : q = p
  BY DEF ServerCreate, TypeInv, TypeOK, ProcessInv, Careful, RequestFree
<1>3. /\ worker'[t].pc = "create" /\ worker'[t].view = w.view /\ worker'[t].req = w.req
      /\ worker'[t].answer = IF p.name \in runNames(runs) THEN "exists" ELSE "created"
  BY <1>1, <1>2 DEF Worker, TypeInv, TypeOK
<1>4. RunsStay
  BY <1>1 DEF Store, RunsStay
<1>5. RunsInOrder'
  <2>1. NamesUnique'
    BY <1>1 DEF RunsInOrder, NamesUnique, Store, runNames
  <2>2. \A r \in runs' : Preceded(r)
    BY <1>1, <1>2 DEF RunsInOrder, Store, ReadsKept
  <2>. QED BY <1>4, <2>1, <2>2, StayKept DEF RunsInOrder
<1>6. ReadsKept(t)'
  <2>1. p.name \notin runNames(runs) => Kept(p)'
    BY <1>1 DEF Store, Kept
  <2>. QED BY <1>2, <1>3, <1>4, <2>1, StayKept DEF ReadsKept
<1>7. \A u \in Targets \ {t} : worker'[u] = worker[u]
  BY <1>1 DEF TypeInv, TypeOK
<1>. QED BY <1>4, <1>5, <1>6, <1>7, StaysRead

\* The operator ends runs and changes no name.
LEMMA OperatorStepNames ==
  ASSUME TypeInv, RunsInOrder, NEW r \in runs, NEW report \in Outcomes,
         OperatorStep(r, report)
  PROVE  RunsStay /\ RunsInOrder'
<1>. DEFINE conds == Append(r.conds, [report |-> report, at |-> clock])
            ended == IF isTerminal(DerivePhase(conds)) THEN clock ELSE NilTime
            q == [r EXCEPT !.conds = conds, !.ended = ended]
<1>1. runs' = (runs \ {r}) \cup {q} /\ Active(r)
  BY DEF OperatorStep
<1>2. q.name = r.name /\ q.group = r.group
  <2>1. r \in Run
    BY DEF TypeInv, TypeOK
  <2>. HIDE DEF conds, ended
  <2>. QED BY <2>1 DEF Run
<1>. HIDE DEF q
<1>3. RunsStay
  BY <1>1, <1>2 DEF RunsStay
<1>4. NamesUnique'
  BY <1>1, <1>2 DEF RunsInOrder, NamesUnique
<1>5. \A s \in runs' : Preceded(s)
  BY <1>1, <1>2 DEF RunsInOrder, Preceded
<1>. QED BY <1>3, <1>4, <1>5, StayKept DEF RunsInOrder
==============================================================================
