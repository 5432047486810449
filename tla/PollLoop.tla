------------------------------ MODULE PollLoop -------------------------------
(***************************************************************************)
(* The adapter's poll loop (internal/adapter/adapter.go) between its       *)
(* AlertManagers, the API server that keeps the AgenticRuns, the agentic   *)
(* operator that moves them on, and the process's own clock and ticker.    *)
(*                                                                         *)
(* Every call a worker makes (GetAlerts, ListAgenticRuns,                  *)
(* CreateAgenticRun) is an action of its own, so all that a worker has     *)
(* read may be out of date when it acts on it.  A create, and the read of  *)
(* AgenticOLSConfig before a cycle, is a request the server handles in one *)
(* action and an answer the adapter takes in another.                      *)
(***************************************************************************)
EXTENDS RunStatus, RunNaming

CONSTANTS
  Targets,              \* target records: [name, id, label]
  Snapshots,            \* the target sets the registry may return
  Stems,                \* "{alertname}-{namespace}" of the alerts
  Groups,               \* the values of StableFingerprint
  Receivers,            \* AlertManager receivers: [word, case]
  AlertLists,           \* target -> the alert sequences its AlertManager may return
  AllowedReceivers,     \* cfg.AllowedReceivers, lower-case
  PollInterval, PreRunDelay, PostRunDelay,
  MaxConcurrentTargets,
  BackoffInitial, BackoffMax,
  Outcomes,             \* the reports the operator may make
  OLSConfigStates,      \* the states AgenticOLSConfig may be in
  Responsive,           \* the targets whose servers answer, from QuietAfter on
  LateCreates,          \* may a create the adapter gave up on be applied later?
  MaxFaults,            \* bound: errors, restarts, signals and deletions
  MaxTime,              \* bound: the last moment of the clock
  LastTick,             \* bound: no cycle begins after it
  QuietAfter            \* bound: from then on responsive servers answer at once and nothing fails

ASSUME TimeAssumption ==
  /\ {PreRunDelay, PostRunDelay, MaxConcurrentTargets, MaxFaults,
      MaxTime, LastTick, QuietAfter} \subseteq Nat
  /\ {PollInterval, BackoffInitial} \subseteq Nat \ {0}
  /\ BackoffMax \in Nat /\ BackoffInitial <= BackoffMax
  /\ LateCreates \in BOOLEAN

\* The local target is labelled or not; every other target is a SpokeCluster's.
ASSUME TargetAssumption ==
  /\ \A t \in Targets : \/ t \in {LocalTarget(TRUE), LocalTarget(FALSE)}
                         \/ t = SpokeTarget(t.name)
  /\ ~({LocalTarget(TRUE), LocalTarget(FALSE)} \subseteq Targets)
  /\ IsFiniteSet(Targets)
  /\ Snapshots \subseteq SUBSET Targets
  /\ Responsive \subseteq Targets

Alert == [stem : Stems, group : Groups, startsAt : Nat \cup {NilTime},
          receivers : SUBSET Receivers, fingerprint : BOOLEAN]

ASSUME AlertAssumption ==
  /\ AlertLists \in [Targets -> SUBSET Seq(Alert)]
  /\ Outcomes \subseteq Report
  /\ OLSConfigStates \subseteq {"absent", "running", "suspended"}

VARIABLES
  clock,           \* time.Now()
  runs,            \* API server: the AgenticRuns of the namespace
  inflight,        \* creates the adapter gave up on that the server may still apply
  olsConfig,       \* API server: the AgenticOLSConfig singleton
  faults,          \* faults so far
  loop,            \* goroutine of Run and reconcile: [pc, pending, asked, opened]
  worker,          \* goroutines of reconcileTarget, one record per target
  backoff,         \* creationBackoff: <<target name, group>> -> [dur, last], dur = 0: no entry
  ticker,          \* [next, ready], next = 0: not created yet
  cancelled,       \* is the context of Run done?
  suspendedSince,  \* history: when olsConfig became "suspended"
  streak           \* history: a target and group's failed creates in a row, and the last one's time

world   == <<clock, runs, inflight, olsConfig, faults, suspendedSince>>
process == <<loop, worker, backoff, ticker, cancelled, streak>>
vars    == <<world, process>>
------------------------------------------------------------------------------
(* Filters (adapter.go) *)

\* An AgenticRun.  ended, a history field no code reads, is when it became terminal.
Active(run) == ~isTerminal(DerivePhase(run.conds))

ToLower(receiver) == [receiver EXCEPT !.case = "lower"]

skipReceiver(alert, allowed) ==
  \A r \in alert.receivers : ToLower(r) \notin allowed

tooEarly(alert, now, threshold) ==
  \/ alert.startsAt = NilTime
  \/ now - alert.startsAt < threshold

\* Mutant: only a run nobody has worked on yet counts as active.
hasActiveRun_Untouched(group, view) == \E r \in view : r.group = group /\ r.conds = <<>>

hasActiveRun(group, view) == \E r \in view : r.group = group /\ Active(r)

\* Mutant: an emergency-stopped run keeps its name.
hasEmergencyStoppedNameConflict_Never(name, group, view) == FALSE

hasEmergencyStoppedNameConflict(name, group, view) ==
  \E r \in view : /\ r.name = name
                  /\ r.group = group
                  /\ DerivePhase(r.conds) = "EmergencyStopped"

runNames(view) == {r.name : r \in view}

tooRecent(group, view, now, window) ==
  \E r \in view : /\ r.group = group
                  /\ terminalTime(r.conds) # NilTime
                  /\ now - terminalTime(r.conds) < window

\* Mutant: the name is built before the start time is known.
BuildForTarget_NilStart(alert, target) ==
  [label |-> target.label,
   group |-> alert.group,
   name  |-> buildName(alert.stem, NilTime, target.id),
   conds |-> <<>>,
   ended |-> NilTime]

\* The run for an alert; CreateAgenticRun sets its target label.
BuildForTarget(alert, target) ==
  [label |-> target.label,
   group |-> alert.group,
   name  |-> buildName(alert.stem, alert.startsAt, target.id),
   conds |-> <<>>,
   ended |-> NilTime]

cannotBuild(alert) == ~alert.fingerprint \/ alert.startsAt = NilTime

\* BuildForTarget, and another name if an emergency-stopped run has this one.
requestFor(alert, target, view) ==
  LET p == BuildForTarget(alert, target)
  IN  IF hasEmergencyStoppedNameConflict(p.name, p.group, view)
      THEN [p EXCEPT !.name = NextAvailableName(p.name, runNames(view))]
      ELSE p
------------------------------------------------------------------------------
(* Creation backoff (external: flowcontrol.Backoff, as reconcileTarget uses it) *)

\* Mutant: all targets share a group's entry.
creationBackoffKey_GroupOnly(targetName, group) == <<LocalTarget(TRUE).name, group>>

creationBackoffKey(targetName, group) == <<targetName, group>>

BackoffKeys == {t.name : t \in Targets} \X Groups

NoEntry == [dur |-> 0, last |-> 0]

hasExpired(entry, eventTime) == eventTime - entry.last > 2 * BackoffMax

IsInBackOffSinceUpdate(entry, eventTime) ==
  /\ entry.dur > 0
  /\ ~hasExpired(entry, eventTime)
  /\ eventTime - entry.last < entry.dur

\* The delay is doubled on the entry the cycle's now sees; the entry is stamped
\* with the time of the call.
BackoffNext(entry, eventTime, time) ==
  [dur  |-> IF entry.dur = 0 \/ hasExpired(entry, eventTime) THEN BackoffInitial
            ELSE IF 2 * entry.dur > BackoffMax THEN BackoffMax
            ELSE 2 * entry.dur,
   last |-> time]

BackoffGC(entries, time) ==
  [k \in DOMAIN entries |-> IF hasExpired(entries[k], time) THEN NoEntry ELSE entries[k]]
------------------------------------------------------------------------------
(* Process state *)

Off == [pc |-> "off", start |-> 0, now |-> 0, todo |-> <<>>, view |-> {},
        req |-> {}, answer |-> "none", hadBackoff |-> FALSE]

Running == {t \in Targets : worker[t].pc # "off"}

\* NewWithMaxConcurrentTargets takes any number; reconcile uses at least one.
Slots == IF MaxConcurrentTargets < 1 THEN 1 ELSE MaxConcurrentTargets

\* Mutant: one moment more than PollInterval.
TimedOut_OneLater(t) == clock - worker[t].start > PollInterval

TimedOut(t) == clock - worker[t].start >= PollInterval

\* Mutant: workers run under Run's context, which has no deadline.
CtxDone_NoDeadline(t) == cancelled

\* targetCtx.Err() # nil
CtxDone(t) == cancelled \/ TimedOut(t)

\* A call fails: an error answer, or none before the connection is given up.
Fault == /\ faults < MaxFaults
         /\ clock < QuietAfter
         /\ faults' = faults + 1

Key(t, group) == creationBackoffKey(t.name, group)

NoStreak == [n |-> 0, at |-> 0]

\* The memory of a process that has just started: it polls at once, and it has
\* no ticker yet.  asked and opened, two history fields, are when the cycle asked
\* for AgenticOLSConfig and when it went on to its targets.
Fresh == [loop      |-> [pc |-> "gate", pending |-> {}, asked |-> clock, opened |-> 0],
          worker    |-> [t \in Targets |-> Off],
          backoff   |-> [k \in BackoffKeys |-> NoEntry],
          ticker    |-> [next |-> 0, ready |-> FALSE],
          cancelled |-> FALSE,
          streak    |-> [k \in Targets \X Groups |-> NoStreak]]

Init ==
  /\ clock = 0
  /\ runs = {}
  /\ inflight = {}
  /\ olsConfig \in OLSConfigStates
  /\ faults = 0
  /\ suspendedSince = 0
  /\ loop = Fresh.loop
  /\ worker = Fresh.worker
  /\ backoff = Fresh.backoff
  /\ ticker = Fresh.ticker
  /\ cancelled = Fresh.cancelled
  /\ streak = Fresh.streak
------------------------------------------------------------------------------
(* Run and reconcile *)

\* reconcile returns to Run's select.  The ticker is created after the first cycle.
ReturnToRun ==
  /\ loop' = [pc |-> "idle", pending |-> {}, asked |-> 0, opened |-> 0]
  /\ ticker' = IF ticker.next = 0 THEN [next |-> clock + PollInterval, ready |-> FALSE]
                                  ELSE ticker

\* Suspended has asked for AgenticOLSConfig ("gate"), and the answer is on its way
\* ("open", "closed").  Run's context, which the call gets, has no deadline.
AtGate == loop.pc \in {"gate", "open", "closed"}

\* Mutant: the suspended field is not looked at.
Suspended_Unread == FALSE

\* A missing singleton or CRD counts as not suspended.
Suspended == olsConfig = "suspended"

\* The API server reads AgenticOLSConfig.
ReadOLSConfig ==
  /\ loop.pc = "gate"
  /\ loop' = [loop EXCEPT !.pc = IF Suspended THEN "closed" ELSE "open"]
  /\ UNCHANGED <<world, worker, backoff, ticker, cancelled, streak>>

\* No answer: an error, a lost connection, or the context is done.
GateFails ==
  /\ AtGate
  /\ \/ cancelled /\ UNCHANGED faults
     \/ ~cancelled /\ Fault
  /\ ReturnToRun
  /\ UNCHANGED <<clock, runs, inflight, olsConfig, suspendedSince,
                 worker, backoff, cancelled, streak>>

\* The answer is that the adapter was suspended when the server read.
GateClosed ==
  /\ loop.pc = "closed" /\ ~cancelled
  /\ ReturnToRun
  /\ UNCHANGED <<world, worker, backoff, cancelled, streak>>

\* The answer is that it was not, which may be long ago.
GateOpens ==
  /\ loop.pc = "open" /\ ~cancelled
  /\ clock <= LastTick
  /\ backoff' = BackoffGC(backoff, clock)
  /\ \E snapshot \in Snapshots :
       loop' = [loop EXCEPT !.pc = "spawn", !.pending = snapshot, !.opened = clock]
  /\ UNCHANGED <<world, worker, ticker, cancelled, streak>>

isLocal(t) == t.id = NoID

\* Registry.Targets puts the local target first, the spokes in any order.
IsNext(t) == t \in loop.pending /\ (isLocal(t) \/ \A u \in loop.pending : ~isLocal(u))

SlotFree == Cardinality(Running) < Slots

StartTarget(t) ==
  /\ loop.pc = "spawn" /\ IsNext(t)
  /\ SlotFree
  /\ loop' = [loop EXCEPT !.pending = @ \ {t}]
  /\ worker' = [worker EXCEPT ![t] = [Off EXCEPT !.pc = "fetch", !.start = clock]]
  /\ UNCHANGED <<world, backoff, ticker, cancelled, streak>>

\* The spawn loop's select takes ctx.Done(): the other targets are not started.
StopSpawning ==
  /\ loop.pc = "spawn" /\ loop.pending # {}
  /\ cancelled
  /\ loop' = [loop EXCEPT !.pending = {}]
  /\ UNCHANGED <<world, worker, backoff, ticker, cancelled, streak>>

\* Mutant: reconcile returns without wg.Wait.
EndReconcile_NoWait ==
  /\ loop.pc = "spawn" /\ loop.pending = {}
  /\ ReturnToRun
  /\ UNCHANGED <<world, worker, backoff, cancelled, streak>>

\* wg.Wait returns.
EndReconcile ==
  /\ loop.pc = "spawn" /\ loop.pending = {}
  /\ Running = {}
  /\ ReturnToRun
  /\ UNCHANGED <<world, worker, backoff, cancelled, streak>>

Tick ==
  /\ loop.pc = "idle" /\ ticker.ready
  /\ clock <= LastTick
  /\ loop' = [loop EXCEPT !.pc = "gate", !.asked = clock]
  /\ ticker' = [ticker EXCEPT !.ready = FALSE]
  /\ UNCHANGED <<world, worker, backoff, cancelled, streak>>

\* Mutant: break leaves the select, not the loop.
Stop_Break ==
  /\ loop.pc = "idle" /\ cancelled
  /\ UNCHANGED <<world, loop, worker, backoff, ticker, cancelled, streak>>

Stop ==
  /\ loop.pc = "idle" /\ cancelled
  /\ loop' = [loop EXCEPT !.pc = "stopped"]
  /\ UNCHANGED <<world, worker, backoff, ticker, cancelled, streak>>
------------------------------------------------------------------------------
(* reconcileTarget *)

\* AlertManager answers with the alerts firing now.
FetchAlerts(t) ==
  /\ worker[t].pc = "fetch" /\ ~CtxDone(t)
  /\ \E alerts \in AlertLists[t] :
       /\ \A i \in DOMAIN alerts : alerts[i].startsAt <= clock
       /\ worker' = [worker EXCEPT ![t].pc = "list", ![t].todo = alerts]
  /\ UNCHANGED <<world, loop, backoff, ticker, cancelled, streak>>

\* The runs with the target's label; for the unlabelled target, those without one.
ListAgenticRuns(label) == {r \in runs : r.label = label}

ListRuns(t) ==
  /\ worker[t].pc = "list" /\ ~CtxDone(t)
  /\ worker' = [worker EXCEPT ![t].pc = "loop", ![t].now = clock,
                              ![t].view = ListAgenticRuns(t.label)]
  /\ UNCHANGED <<world, loop, backoff, ticker, cancelled, streak>>

\* GetAlerts or ListAgenticRuns returns an error, or the context ends the call.
ReadFails(t) ==
  /\ worker[t].pc \in {"fetch", "list"}
  /\ \/ CtxDone(t) /\ UNCHANGED faults
     \/ ~CtxDone(t) /\ Fault
  /\ worker' = [worker EXCEPT ![t] = Off]
  /\ UNCHANGED <<clock, runs, inflight, olsConfig, suspendedSince,
                 loop, backoff, ticker, cancelled, streak>>

\* Mutant: the backoff is written and never asked.
InBackoff_Unchecked(t, group) == FALSE

InBackoff(t, group) == IsInBackOffSinceUpdate(backoff[Key(t, group)], worker[t].now)

\* Why the head of the alert list gets no create request.
Skipped(t, alert) ==
  \/ skipReceiver(alert, AllowedReceivers)
  \/ PreRunDelay > 0 /\ tooEarly(alert, worker[t].now, PreRunDelay)
  \/ hasActiveRun(alert.group, worker[t].view)
  \/ PostRunDelay > 0 /\ tooRecent(alert.group, worker[t].view, worker[t].now, PostRunDelay)
  \/ cannotBuild(alert)
  \/ InBackoff(t, alert.group)

AtAlert(t) == worker[t].pc = "loop" /\ worker[t].todo # <<>>

SkipAlert(t) ==
  /\ AtAlert(t) /\ ~CtxDone(t)
  /\ Skipped(t, Head(worker[t].todo))
  /\ worker' = [worker EXCEPT ![t].todo = Tail(@)]
  /\ UNCHANGED <<world, loop, backoff, ticker, cancelled, streak>>

IssueCreate(t) ==
  /\ AtAlert(t) /\ ~CtxDone(t)
  /\ LET alert == Head(worker[t].todo) IN
       /\ ~Skipped(t, alert)
       /\ worker' = [worker EXCEPT
            ![t].pc = "create", ![t].todo = Tail(@), ![t].answer = "none",
            ![t].req = {requestFor(alert, t, worker[t].view)},
            ![t].hadBackoff = backoff[Key(t, alert.group)].dur > 0]
  /\ UNCHANGED <<world, loop, backoff, ticker, cancelled, streak>>

\* ctx.Err() # nil at the top of the loop, or no alert is left.
EndTarget(t) ==
  /\ worker[t].pc = "loop"
  /\ worker[t].todo = <<>> \/ CtxDone(t)
  /\ worker' = [worker EXCEPT ![t] = Off]
  /\ UNCHANGED <<world, loop, backoff, ticker, cancelled, streak>>

\* The API server keeps p unless it has a run of that name.
Store(p) == IF p.name \in runNames(runs) THEN runs ELSE runs \cup {p}

\* Mutant: a name that is taken is made unique (generateName).
ServerCreate_Generate(t) ==
  /\ worker[t].pc = "create" /\ worker[t].answer = "none"
  /\ \E p \in worker[t].req :
       runs' = runs \cup {[p EXCEPT !.name = NextAvailableName(p.name, runNames(runs))]}
  /\ worker' = [worker EXCEPT ![t].answer = "created"]
  /\ UNCHANGED <<clock, inflight, olsConfig, faults, suspendedSince,
                 loop, backoff, ticker, cancelled, streak>>

\* The API server handles the request; the answer is on its way.
ServerCreate(t) ==
  /\ worker[t].pc = "create" /\ worker[t].answer = "none"
  /\ \E p \in worker[t].req :
       /\ runs' = Store(p)
       /\ worker' = [worker EXCEPT ![t].answer =
                       IF p.name \in runNames(runs) THEN "exists" ELSE "created"]
  /\ UNCHANGED <<clock, inflight, olsConfig, faults, suspendedSince,
                 loop, backoff, ticker, cancelled, streak>>

\* Mutant: the new run is not appended to runs.
Continue_NoAppend(t, view) ==
  worker' = [worker EXCEPT ![t].pc = "loop", ![t].req = {},
                           ![t].answer = "none", ![t].hadBackoff = FALSE]

\* Back to the alert loop with the view the later alerts are checked against.
Continue(t, view) ==
  worker' = [worker EXCEPT ![t].pc = "loop", ![t].view = view, ![t].req = {},
                           ![t].answer = "none", ![t].hadBackoff = FALSE]

\* A nil error, for a new run or AlreadyExists, clears the backoff; a new run
\* joins the view.
CreateReturns(t) ==
  /\ worker[t].pc = "create" /\ worker[t].answer # "none"
  /\ \E p \in worker[t].req :
       /\ backoff' = IF worker[t].hadBackoff
                     THEN [backoff EXCEPT ![Key(t, p.group)] = NoEntry] ELSE backoff
       /\ streak' = [streak EXCEPT ![<<t, p.group>>] = NoStreak]
       /\ Continue(t, IF worker[t].answer = "created" THEN worker[t].view \cup {p}
                                                      ELSE worker[t].view)
  /\ UNCHANGED <<world, loop, ticker, cancelled>>

\* A request nobody waits for: the server may still come to apply it.
Unanswered(t) == IF worker[t].answer = "none" THEN worker[t].req ELSE {}
Abandon(reqs) == inflight' = IF LateCreates THEN inflight \cup reqs ELSE inflight

\* The history counts a failure as one of a row unless the row is long ago.
OneMore(s) == [n  |-> IF clock - s.at > 2 * BackoffMax THEN 1 ELSE s.n + 1,
               at |-> clock]

\* An error while the context is live: the group enters backoff.
CreateFails(t) ==
  /\ worker[t].pc = "create" /\ ~CtxDone(t)
  /\ Fault
  /\ \E p \in worker[t].req :
       /\ backoff' = [backoff EXCEPT ![Key(t, p.group)] =
                        BackoffNext(@, worker[t].now, clock)]
       /\ streak' = [streak EXCEPT ![<<t, p.group>>] = OneMore(@)]
       /\ Continue(t, worker[t].view)
  /\ Abandon(Unanswered(t))
  /\ UNCHANGED <<clock, runs, olsConfig, suspendedSince, loop, ticker, cancelled>>

\* An error because the context is done: the worker ends, without backoff.
CreateAborted(t) ==
  /\ worker[t].pc = "create" /\ CtxDone(t)
  /\ worker' = [worker EXCEPT ![t] = Off]
  /\ Abandon(Unanswered(t))
  /\ UNCHANGED <<clock, runs, olsConfig, faults, suspendedSince,
                 loop, backoff, ticker, cancelled, streak>>
------------------------------------------------------------------------------
(* Environment *)

\* Does the goroutine of Run wait: for AgenticOLSConfig, however long it takes, a
\* slot, the workers, the next tick, or for nothing any more?
LoopWaits ==
  CASE AtGate            -> ~cancelled
    [] loop.pc = "spawn" -> IF loop.pending = {} THEN Running # {}
                            ELSE ~SlotFree /\ ~cancelled
    [] loop.pc = "idle"  -> ~cancelled /\ ~(ticker.ready /\ clock <= LastTick)
    [] loop.pc = "stopped" -> TRUE

\* Run's own steps take no time, and calls return once their context is done: the
\* clock waits for both.  From QuietAfter on it also waits for the answers that come.
MayPass ==
  /\ LoopWaits
  /\ \A t \in Running : ~TimedOut(t)
  /\ clock >= QuietAfter => Running \cap Responsive = {} /\ ~AtGate

AdvanceClock ==
  /\ clock < MaxTime /\ MayPass
  /\ clock' = clock + 1
  /\ ticker' = IF ticker.next = clock + 1
               THEN [next |-> ticker.next + PollInterval, ready |-> TRUE] ELSE ticker
  /\ UNCHANGED <<runs, inflight, olsConfig, faults, suspendedSince,
                 loop, worker, backoff, cancelled, streak>>

\* The agentic operator adds a condition to a run that is not terminal; it
\* analyses a run before anything else, and may stop one at any time.
OperatorStep(r, report) ==
  LET reported == {r.conds[i].report.type : i \in DOMAIN r.conds}
      conds    == Append(r.conds, [report |-> report, at |-> clock])
  IN  /\ clock < QuietAfter
      /\ Active(r) /\ report.type \notin reported
      /\ report.type \in {"Analyzed", "EmergencyStopped"} \/ "Analyzed" \in reported
      /\ runs' = (runs \ {r}) \cup
           {[r EXCEPT !.conds = conds,
                      !.ended = IF isTerminal(DerivePhase(conds)) THEN clock ELSE NilTime]}
      /\ UNCHANGED <<clock, inflight, olsConfig, faults, suspendedSince, process>>

\* Somebody deletes a run.
DeleteRun(r) ==
  /\ Fault
  /\ runs' = runs \ {r}
  /\ UNCHANGED <<clock, inflight, olsConfig, suspendedSince, process>>

\* An administrator creates, edits or deletes the AgenticOLSConfig.
SetOLSConfig(state) ==
  /\ clock < QuietAfter
  /\ olsConfig # state
  /\ olsConfig' = state
  /\ suspendedSince' = IF state = "suspended" THEN clock ELSE 0
  /\ UNCHANGED <<clock, runs, inflight, faults, process>>

\* The server applies a create the adapter has given up on.
LandLate(p) ==
  /\ runs' = Store(p)
  /\ inflight' = inflight \ {p}
  /\ UNCHANGED <<clock, olsConfig, faults, suspendedSince, process>>

\* SIGTERM or SIGINT.
Cancel ==
  /\ ~cancelled /\ Fault
  /\ cancelled' = TRUE
  /\ UNCHANGED <<clock, runs, inflight, olsConfig, suspendedSince,
                 loop, worker, backoff, ticker, streak>>

\* The process dies at any point, or has exited, and the Deployment starts another.
Restart ==
  /\ clock <= LastTick /\ Fault
  /\ loop' = Fresh.loop
  /\ worker' = Fresh.worker
  /\ backoff' = Fresh.backoff
  /\ ticker' = Fresh.ticker
  /\ cancelled' = Fresh.cancelled
  /\ streak' = Fresh.streak
  /\ Abandon(UNION {Unanswered(t) : t \in Targets})
  /\ UNCHANGED <<clock, runs, olsConfig, suspendedSince>>
------------------------------------------------------------------------------
GateStep == ReadOLSConfig \/ GateFails \/ GateClosed \/ GateOpens

RunStep == \/ StopSpawning \/ EndReconcile \/ Tick \/ Stop
           \/ \E t \in Targets : StartTarget(t)

LoopStep == GateStep \/ RunStep

WorkerStep(t) == \/ FetchAlerts(t) \/ ListRuns(t) \/ ReadFails(t)
                 \/ SkipAlert(t) \/ IssueCreate(t) \/ EndTarget(t)
                 \/ CreateReturns(t) \/ CreateFails(t) \/ CreateAborted(t)

Environment == \/ AdvanceClock \/ Cancel \/ Restart
               \/ \E t \in Targets : ServerCreate(t)
               \/ \E r \in runs, report \in Outcomes : OperatorStep(r, report)
               \/ \E r \in runs : DeleteRun(r)
               \/ \E state \in OLSConfigStates : SetOLSConfig(state)
               \/ \E p \in inflight : LandLate(p)

Next == LoopStep \/ (\E t \in Targets : WorkerStep(t)) \/ Environment

Spec == Init /\ [][Next]_vars

\* The process's own steps are taken: the goroutines are scheduled, calls whose
\* context is done return, and the clock moves on.  Nothing is asked of a server:
\* the AgenticOLSConfig read, which has no deadline, may take for ever.
ProcessFairness ==
  /\ WF_vars(RunStep \/ (cancelled /\ GateFails))
  /\ WF_vars(AdvanceClock)
  /\ \A t \in Targets :
       WF_vars(SkipAlert(t) \/ IssueCreate(t) \/ EndTarget(t)
               \/ CreateAborted(t) \/ (CtxDone(t) /\ ReadFails(t)))

\* The API server answers the AgenticOLSConfig reads, and AlertManager and the API
\* server answer the workers of responsive targets.
ServerFairness ==
  /\ WF_vars(ReadOLSConfig \/ GateClosed \/ GateOpens)
  /\ \A t \in Responsive : WF_vars(FetchAlerts(t) \/ ListRuns(t) \/ ServerCreate(t)
                                 \/ CreateReturns(t))
------------------------------------------------------------------------------
(* Properties *)

RunName == [stem : Stems, hash : {<<>>} \cup (Nat \X {t.id : t \in Targets}), retry : Nat]

Run == [label : {t.label : t \in Targets}, group : Groups, name : RunName,
        conds : Seq(Condition), ended : Nat \cup {NilTime}]

Worker == [pc : {"off", "fetch", "list", "loop", "create"}, start : Nat, now : Nat,
           todo : Seq(Alert), view : SUBSET Run, req : SUBSET Run,
           answer : {"none", "created", "exists"}, hadBackoff : BOOLEAN]

\* Every variable has the type its Go counterpart gives it.
TypeOK ==
  /\ {clock, faults, suspendedSince} \subseteq Nat
  /\ runs \subseteq Run
  /\ inflight \subseteq Run
  /\ olsConfig \in OLSConfigStates
  /\ loop \in [pc : {"gate", "open", "closed", "spawn", "idle", "stopped"},
               pending : SUBSET Targets, asked : Nat, opened : Nat]
  /\ worker \in [Targets -> Worker]
  /\ backoff \in [BackoffKeys -> [dur : Nat, last : Nat]]
  /\ ticker \in [next : Nat, ready : BOOLEAN]
  /\ cancelled \in BOOLEAN
  /\ streak \in [Targets \X Groups -> [n : Nat, at : Nat]]

SameGroup(r, p) == r.label = p.label /\ r.group = p.group

\* A target's alert group never has two runs under way, whatever the workers
\* read before the runs changed and however their creates failed
\* (reconcileTarget's active-run check and its append to runs).
OneActivePerGroup ==
  \A r, p \in runs : Active(r) /\ Active(p) /\ SameGroup(r, p) => r = p

\* Why worker t will not ask for another run of the group in this cycle, or has
\* just got one.
Covered(t, group) ==
  \/ hasActiveRun(group, worker[t].view)
  \/ InBackoff(t, group)
  \/ /\ worker[t].pc = "create" /\ worker[t].answer = "created"
     /\ \E p \in worker[t].req : p.group = group

\* A worker knows of every run in its target's groups: it has the run in its view
\* as it is, or it will not ask for another of its group in this cycle.
RunsCovered(t) ==
  worker[t].pc \in {"loop", "create"} =>
    \A r \in ListAgenticRuns(t.label) :
      Covered(t, r.group) \/ (~Active(r) /\ r \in worker[t].view)

\* A worker asks for one run, of its own target, in a group it takes to be free.
RequestFree(t) ==
  worker[t].pc = "create" =>
    /\ \A p, q \in worker[t].req : p = q
    /\ \A p \in worker[t].req :
         /\ p.label = t.label /\ Active(p)
         /\ ~hasActiveRun(p.group, worker[t].view) /\ ~InBackoff(t, p.group)
         /\ PostRunDelay > 0 =>
              ~tooRecent(p.group, worker[t].view, worker[t].now, PostRunDelay)

WorkerInformed(t) ==
  /\ RunsCovered(t)
  /\ RequestFree(t)
  /\ worker[t].now <= clock

\* wg.Wait: between cycles no worker runs.
WorkersAwaited == loop.pc # "spawn" => \A t \in Targets : worker[t].pc = "off"

\* Why OneActivePerGroup and CooldownRespected hold: when a worker sends a create,
\* no run of the group is under way or has just ended, although what it read is
\* out of date.  The runs it could have missed are its own, and it knows of those
\* (runs = append(runs, *p), and the backoff after an error; reconcile starts a
\* target once per cycle).
DedupInv ==
  /\ OneActivePerGroup
  /\ \A t \in Targets : WorkerInformed(t)
  /\ WorkersAwaited
  /\ inflight = {}

\* The moment the adapter counts a run's cooldown from is the moment the run ended,
\* whichever of its conditions ended it; a run under way has none (terminalTime,
\* terminalConditionType, findFailedConditionType).
EndKnown ==
  \A r \in runs : /\ r.ended = IF Active(r) THEN NilTime ELSE terminalTime(r.conds)
                 /\ r.ended <= clock

NewRuns == {p \in runs' : p.name \notin runNames(runs)}

\* No run is created for a group while one of its runs ended less than
\* PostRunDelay ago (tooRecent, terminalTime), though the worker compares the
\* runs of its list with the time of its list.
CooldownRespected ==
  [][\A p \in NewRuns : \A r \in runs :
       SameGroup(r, p) /\ r.ended # NilTime => clock - r.ended >= PostRunDelay]_vars

Doublings[n \in Nat] == IF n = 0 THEN 1 ELSE 2 * Doublings[n - 1]

\* How long n failed creates in a row keep the next one back.
Delay(n) ==
  IF n = 0 THEN 0
  ELSE IF BackoffInitial * Doublings[n - 1] > BackoffMax THEN BackoffMax
  ELSE BackoffInitial * Doublings[n - 1]

Attempts(t) == {p \in worker'[t].req : worker[t].req = {}}

\* After n failed creates in a row a target tries a group again only after
\* the n-th backoff delay, which no other target's success shortens
\* (creationBackoffKey, IsInBackOffSinceUpdate, Next, Reset).
BackoffHonoured ==
  [][\A t \in Targets : \A p \in Attempts(t) :
       clock - streak[<<t, p.group>>].at >= Delay(streak[<<t, p.group>>].n)]_vars

\* The backoff still knows of a target and group's failures: the delay they have
\* earned, counted from the last one, is in the entry.
Remembered(t, g) ==
  LET entry == backoff[Key(t, g)]
      row   == streak[<<t, g>>]
  IN  entry.dur > 0 /\ entry.dur >= Delay(row.n) /\ entry.last = row.at

\* Why BackoffHonoured holds: an entry is forgotten only if the creates succeed
\* again, or so late that every delay is over, though GC, Next and
\* IsInBackOffSinceUpdate look at it with different times (reconcile,
\* reconcileTarget).
BackoffInv ==
  \A t \in Targets, g \in Groups :
    /\ worker[t].now <= clock /\ streak[<<t, g>>].at <= clock
    /\ backoff[Key(t, g)].dur > 0 => backoff[Key(t, g)].dur >= BackoffInitial
    /\ \/ streak[<<t, g>>].n = 0
       \/ clock - streak[<<t, g>>].at > 2 * BackoffMax
       \/ Remembered(t, g)

\* The number of rounds in which Slots workers get through all targets.
Rounds == (Cardinality(Targets) + Slots - 1) \div Slots

\* A cycle lasts at most one PollInterval per round of workers, however slow the
\* servers are: each worker's deadline counts from its own start, and the
\* workers of a round free their slots by then (reconcile).
CycleBounded == loop.pc = "spawn" => clock - loop.opened <= Rounds * PollInterval

\* The targets of a cycle not started q poll intervals after it has begun.
Unstarted(q) ==
  loop.pending \cup {t \in Running : worker[t].start - loop.opened > q * PollInterval}

\* Why CycleBounded holds: every poll interval of a cycle starts another Slots
\* targets, until none is left.  A target still waiting means that all slots are
\* taken by workers of the round before, which end when it does (the semaphore
\* and targetCtx in reconcile).
RoundsInv ==
  /\ WorkersAwaited
  /\ loop.pc = "spawn" =>
       /\ loop.opened <= clock
       /\ loop.pending \cap Running = {}
       /\ \A t \in Running : worker[t].start <= clock
       /\ \A q \in 0 .. Rounds :
            clock - loop.opened > q * PollInterval =>
              \/ Unstarted(q) = {}
              \/ Cardinality(Unstarted(q)) + (q + 1) * Slots <= Cardinality(Targets)

\* Suspension is only asked for before a cycle, and the answer may be long in
\* coming: a run created while the adapter is suspended is of a cycle that asked
\* before the suspension, and that has been at its targets no longer than a cycle
\* lasts (reconcile, Suspended).
SuspensionTakesHold ==
  [][NewRuns # {} /\ olsConfig = "suspended" =>
       /\ loop.asked <= suspendedSince
       /\ clock - loop.opened <= Rounds * PollInterval]_vars

\* Every cycle that has got past the suspension check ends, though no server may
\* ever answer its workers (the targetCtx deadline).
CycleEnds == loop.pc = "spawn" ~> loop.pc # "spawn"

\* After SIGTERM or SIGINT Run returns, whatever it was doing.
StopsOnSignal == cancelled ~> (loop.pc = "stopped" \/ ~cancelled)
==============================================================================
