---------------------------- MODULE RollingUpdate ----------------------------
(***************************************************************************)
(* The Deployment has one replica and the default strategy: a rolling      *)
(* update starts the new process before it stops the old one.  The old     *)
(* process is PollLoop's own, the new one an instance of PollLoop with     *)
(* variables of its own; they share the API server, the AlertManagers and  *)
(* the clock, and know nothing of each other.                              *)
(***************************************************************************)
EXTENDS PollLoop

VARIABLES
  newLoop, newWorker, newBackoff, newTicker, newCancelled, newStreak,
  handover     \* history: has the new process begun a cycle after the old one was gone?

newProcess == <<newLoop, newWorker, newBackoff, newTicker, newCancelled, newStreak>>
rollingVars == <<vars, newProcess, handover>>

New == INSTANCE PollLoop
  WITH loop <- newLoop, worker <- newWorker, backoff <- newBackoff,
       ticker <- newTicker, cancelled <- newCancelled, streak <- newStreak

\* The new process does not run yet, which looks as if it had stopped.
RollingInit ==
  /\ Init
  /\ newLoop = [Fresh.loop EXCEPT !.pc = "stopped"]
  /\ newWorker = Fresh.worker
  /\ newBackoff = Fresh.backoff
  /\ newTicker = Fresh.ticker
  /\ newCancelled = TRUE
  /\ newStreak = Fresh.streak
  /\ handover = FALSE

OldGone == loop.pc = "stopped" /\ Running = {}

\* Kubernetes starts the new process.
StartNew ==
  /\ newLoop.pc = "stopped" /\ newCancelled
  /\ clock <= LastTick
  /\ newLoop' = Fresh.loop
  /\ newCancelled' = FALSE
  /\ UNCHANGED <<vars, newWorker, newBackoff, newTicker, newStreak, handover>>

\* Then it sends the old one SIGTERM.
TerminateOld ==
  /\ ~newCancelled /\ ~cancelled
  /\ cancelled' = TRUE
  /\ UNCHANGED <<world, loop, worker, backoff, ticker, streak, newProcess, handover>>

\* SIGKILL, after the grace period.
KillOld ==
  /\ ~newCancelled /\ cancelled /\ ~OldGone
  /\ loop' = [loop EXCEPT !.pc = "stopped"]
  /\ worker' = Fresh.worker
  /\ Abandon(UNION {Unanswered(t) : t \in Targets})
  /\ UNCHANGED <<clock, runs, olsConfig, faults, suspendedSince,
                 backoff, ticker, cancelled, streak, newProcess, handover>>

OldStep ==
  /\ LoopStep \/ \E t \in Targets : WorkerStep(t) \/ ServerCreate(t)
  /\ UNCHANGED <<newProcess, handover>>

NewStep ==
  /\ New!LoopStep \/ \E t \in Targets : New!WorkerStep(t) \/ New!ServerCreate(t)
  /\ handover' = (handover \/ (OldGone /\ newLoop.pc # "spawn" /\ newLoop'.pc = "spawn"))
  /\ UNCHANGED process

BothWait == AdvanceClock /\ New!AdvanceClock /\ UNCHANGED handover

OtherStep ==
  /\ \E r \in runs, report \in Outcomes : OperatorStep(r, report)
  /\ UNCHANGED <<newProcess, handover>>

RollingNext == StartNew \/ TerminateOld \/ KillOld \/ OldStep \/ NewStep \/ BothWait \/ OtherStep

RollingSpec == RollingInit /\ [][RollingNext]_rollingVars
------------------------------------------------------------------------------
(* Properties *)

ActiveIn(label, group) == {r \in runs : r.label = label /\ r.group = group /\ Active(r)}

\* While two processes overlap a group may get one run too many, and no more:
\* each process knows the runs it has created itself (runs = append(runs, *p)).
OverlapBounded ==
  \A t \in Targets, g \in Groups : Cardinality(ActiveIn(t.label, g)) <= 2

\* An occurrence of an alert never has two runs under way, not even when two
\* processes ask for them, one is killed meanwhile, or a stopped run has been
\* replaced: the name is the occurrence's, and the server refuses it twice
\* (buildName, NextAvailableName, AlreadyExists).  Retry names that are cut tell
\* nothing of an occurrence.
OneActivePerOccurrence ==
  \A r, p \in runs :
    /\ Active(r) /\ Active(p)
    /\ r.name.stem = p.name.stem /\ r.name.hash = p.name.hash
    /\ r.name.stem \notin LongStems
    => r = p

\* From its first cycle after the old process is gone the new one alone decides,
\* and no run of a group is created beside one that is still under way.
DedupRestored ==
  [][handover => \A p \in NewRuns : ActiveIn(p.label, p.group) = {}]_rollingVars
==============================================================================
