----------------------------- MODULE CycleProofs -----------------------------
(***************************************************************************)
(* How long a cycle of the poll loop may last, which requests a run can    *)
(* come from and when a suspension takes hold, for every number of targets *)
(* and slots and every poll interval; that failed creates are spaced, for  *)
(* every delay of the backoff; and what all this becomes when spokes come  *)
(* to the registry and go between any two steps of the loop.               *)
(***************************************************************************)
EXTENDS Fleet, PollLoopProofs
------------------------------------------------------------------------------
(* Numbers *)

LEMMA SlotsType == Slots \in Nat \ {0}
BY TimeAssumption DEF Slots

LEMMA TargetsCount == Cardinality(Targets) \in Nat
BY TargetAssumption, FS_CardinalityType

\* A poll interval is a positive number, and q + 1 of them are one more than q.
LEMMA OneMoreInterval ==
  ASSUME NEW q \in Nat
  PROVE  /\ q * PollInterval \in Nat
         /\ (q + 1) * PollInterval = q * PollInterval + PollInterval
         /\ PollInterval \in Nat \ {0}
BY TimeAssumption

\* Division by a positive number rounds down by less than it.
LEMMA Division ==
  ASSUME NEW a \in Nat, NEW b \in Nat \ {0}
  PROVE  /\ a \div b \in Nat
         /\ b * (a \div b) <= a
         /\ a < b * (a \div b) + b
BY Z3

\* Rounds of Slots workers are enough for all targets.
LEMMA RoundsCover == Rounds \in Nat /\ Rounds * Slots >= Cardinality(Targets)
<1>. DEFINE a == Cardinality(Targets) + Slots - 1
            q == a \div Slots
<1>1. a \in Nat /\ Slots \in Nat \ {0}
  BY SlotsType, TargetsCount
<1>2. q \in Nat /\ a < Slots * q + Slots
  <2>. HIDE DEF a
  <2>. QED BY <1>1, Division
<1>3. Slots * q \in Nat /\ Slots * q = q * Slots
  <2>. HIDE DEF q
  <2>. QED BY <1>1, <1>2
<1>4. q * Slots >= Cardinality(Targets)
  <2>. HIDE DEF q
  <2>. QED BY <1>1, <1>2, <1>3, TargetsCount
<1>. QED BY <1>2, <1>4 DEF Rounds

\* Sets of targets are finite.
LEMMA TargetSets ==
  ASSUME NEW S \in SUBSET Targets
  PROVE  /\ IsFiniteSet(S) /\ Cardinality(S) \in Nat
         /\ Cardinality(S) <= Cardinality(Targets)
         /\ \A T \in SUBSET S : IsFiniteSet(T) /\ Cardinality(T) <= Cardinality(S)
BY TargetAssumption, FS_Subset, FS_CardinalityType
------------------------------------------------------------------------------
(* Steps *)

\* Within a cycle, at the same moment, targets only stop being unstarted.
LEMMA SameMoment ==
  ASSUME TypeInv, RoundsInv, loop.pc = "spawn", loop'.pc = "spawn",
         clock' = clock, loop'.opened = loop.opened,
         (loop.pending \cap Running = {})',
         (\A t \in Running : worker[t].start <= clock)',
         \A q \in 0 .. Rounds :
           clock - loop.opened > q * PollInterval => Unstarted(q)' \subseteq Unstarted(q)
  PROVE  RoundsInv'
<1>1. ASSUME NEW q \in 0 .. Rounds, clock' - loop'.opened > q * PollInterval
      PROVE  \/ Unstarted(q)' = {}
             \/ Cardinality(Unstarted(q)') + (q + 1) * Slots <= Cardinality(Targets)
  <2>1. Unstarted(q)' \subseteq Unstarted(q) /\ Unstarted(q) \subseteq Targets
    BY <1>1 DEF Unstarted, Running, TypeInv, TypeOK
  <2>2. CASE Unstarted(q) = {}
    BY <2>1, <2>2
  <2>3. CASE Cardinality(Unstarted(q)) + (q + 1) * Slots <= Cardinality(Targets)
    <3>. DEFINE n == (q + 1) * Slots
    <3>1. n \in Nat
      BY SlotsType, RoundsCover
    <3>2. /\ Cardinality(Unstarted(q)') <= Cardinality(Unstarted(q))
          /\ Cardinality(Unstarted(q)') \in Nat /\ Cardinality(Unstarted(q)) \in Nat
      BY <2>1, TargetSets
    <3>3. Cardinality(Unstarted(q)) + n <= Cardinality(Targets)
      BY <2>3
    <3>. HIDE DEF n
    <3>4. Cardinality(Unstarted(q)') + n <= Cardinality(Targets)
      BY <3>1, <3>2, <3>3, TargetsCount
    <3>. QED BY <3>4 DEF n
  <2>. QED BY <1>1, <2>2, <2>3 DEF RoundsInv
<1>2. loop'.opened <= clock'
  BY DEF RoundsInv
<1>. QED BY <1>1, <1>2 DEF RoundsInv, WorkersAwaited

\* Steps that start no worker.
LEMMA NoStart ==
  ASSUME TypeInv, RoundsInv, clock' = clock, loop' = loop,
         \A t \in Targets : worker'[t].pc # "off" =>
            worker[t].pc # "off" /\ worker'[t].start = worker[t].start
  PROVE  RoundsInv'
<1>1. CASE loop.pc = "spawn"
  <2>1. (loop.pending \cap Running = {})'
    BY <1>1 DEF RoundsInv, Running
  <2>2. (\A t \in Running : worker[t].start <= clock)'
    BY <1>1 DEF RoundsInv, Running
  <2>3. \A q \in 0 .. Rounds : Unstarted(q)' \subseteq Unstarted(q)
    BY DEF Unstarted, Running
  <2>. QED BY <1>1, <2>1, <2>2, <2>3, SameMoment
<1>2. CASE loop.pc # "spawn"
  BY <1>2 DEF RoundsInv, WorkersAwaited
<1>. QED BY <1>1, <1>2

\* Steps to a loop outside a cycle.
LEMMA OutsideCycle ==
  ASSUME loop'.pc # "spawn", \A t \in Targets : worker'[t].pc = "off"
  PROVE  RoundsInv'
BY DEF RoundsInv, WorkersAwaited

\* What a worker's step leaves alone: a worker goes on with the start it has, or ends.
LEMMA WorkerStepStart ==
  ASSUME TypeInv, NEW t \in Targets, WorkerStep(t)
  PROVE  /\ UNCHANGED <<clock, runs, loop, olsConfig, suspendedSince>>
         /\ \A u \in Targets : worker'[u].pc # "off" =>
              worker[u].pc # "off" /\ worker'[u].start = worker[u].start
<1>. DEFINE w == worker[t]
<1>0. w \in Worker /\ worker \in [Targets -> Worker] /\ Off.pc = "off"
  BY DEF TypeInv, TypeOK, Off
<1>1. UNCHANGED <<clock, runs, loop, olsConfig, suspendedSince>>
  BY DEF WorkerStep, FetchAlerts, ListRuns, ReadFails, SkipAlert, IssueCreate, EndTarget,
         CreateReturns, CreateFails, CreateAborted, world
<1>2. \A u \in Targets \ {t} : worker'[u] = worker[u]
  BY DEF WorkerStep, FetchAlerts, ListRuns, ReadFails, SkipAlert, IssueCreate, EndTarget,
         CreateReturns, CreateFails, CreateAborted, Continue, TypeInv, TypeOK
<1>3. worker'[t].pc # "off" => w.pc # "off" /\ worker'[t].start = w.start
  <2>1. CASE FetchAlerts(t)
    BY <1>0, <2>1 DEF FetchAlerts, Worker
  <2>2. CASE ListRuns(t)
    BY <1>0, <2>2 DEF ListRuns, Worker
  <2>3. CASE ReadFails(t) \/ EndTarget(t) \/ CreateAborted(t)
    BY <1>0, <2>3 DEF ReadFails, EndTarget, CreateAborted
  <2>4. CASE SkipAlert(t)
    BY <1>0, <2>4 DEF SkipAlert, AtAlert, Worker
  <2>5. CASE IssueCreate(t)
    BY <1>0, <2>5 DEF IssueCreate, AtAlert, Worker
  <2>6. CASE CreateReturns(t)
    BY <1>0, <2>6 DEF CreateReturns, Continue, Worker
  <2>7. CASE CreateFails(t)
    BY <1>0, <2>7 DEF CreateFails, Continue, Worker
  <2>. QED BY <2>1, <2>2, <2>3, <2>4, <2>5, <2>6, <2>7 DEF WorkerStep
<1>. QED BY <1>1, <1>2, <1>3

\* The clock moves on to the moment a round begins: whoever is still waiting now
\* was left behind by a full set of workers of the round before.
LEMMA AdvanceClockRounds == TypeInv /\ RoundsInv /\ AdvanceClock => RoundsInv'
<1>. SUFFICES ASSUME TypeInv, RoundsInv, AdvanceClock PROVE RoundsInv'
  OBVIOUS
<1>0. /\ clock \in Nat /\ clock' = clock + 1 /\ UNCHANGED <<loop, worker>> /\ MayPass
      /\ loop.opened \in Nat /\ loop.pending \subseteq Targets
      /\ \A t \in Targets : worker[t].start \in Nat
  BY DEF AdvanceClock, TypeInv, TypeOK, Worker
<1>1. CASE loop.pc # "spawn"
  BY <1>0, <1>1 DEF RoundsInv, WorkersAwaited
<1>2. CASE loop.pc = "spawn"
  <2>1. /\ loop.opened <= clock /\ loop.pending \cap Running = {}
        /\ \A t \in Running : worker[t].start <= clock
        /\ Running \subseteq Targets
    BY <1>2 DEF RoundsInv, Running
  <2>2. \A t \in Running : clock - worker[t].start < PollInterval
    BY <1>0, <2>1, TimeAssumption DEF MayPass, TimedOut
  <2>3. loop.pending = {} \/ Cardinality(Running) >= Slots
    <3>1. Cardinality(Running) \in Nat
      BY <2>1, TargetSets
    <3>. QED BY <1>0, <1>2, <3>1, SlotsType DEF MayPass, LoopWaits, SlotFree
  <2>4. ASSUME NEW q \in 0 .. Rounds, clock + 1 - loop.opened > q * PollInterval
        PROVE  \/ Unstarted(q) = {}
               \/ Cardinality(Unstarted(q)) + (q + 1) * Slots <= Cardinality(Targets)
    <3>0. q \in Nat /\ q * PollInterval \in Nat
      <4>1. q \in Nat
        BY RoundsCover
      <4>. QED BY <4>1, OneMoreInterval
    <3>1. CASE clock - loop.opened > q * PollInterval
      BY <1>2, <3>1 DEF RoundsInv
    <3>2. CASE clock - loop.opened = q * PollInterval /\ loop.pending = {}
      <4>1. \A t \in Running : worker[t].start - loop.opened <= q * PollInterval
        BY <1>0, <2>1, <3>0, <3>2
      <4>. QED BY <1>0, <2>1, <3>0, <3>2, <4>1 DEF Unstarted
    <3>3. CASE clock - loop.opened = q * PollInterval /\ loop.pending # {}
      <4>1. Unstarted(q) = loop.pending
        <5>1. \A t \in Running : ~(worker[t].start - loop.opened > q * PollInterval)
          BY <1>0, <2>1, <3>0, <3>3
        <5>. QED BY <5>1 DEF Unstarted
      <4>. DEFINE both == loop.pending \cup Running
      <4>2. /\ Cardinality(both) = Cardinality(loop.pending) + Cardinality(Running)
            /\ Cardinality(both) \in Nat /\ Cardinality(both) <= Cardinality(Targets)
            /\ Cardinality(loop.pending) \in Nat /\ Cardinality(Running) \in Nat
        <5>1. IsFiniteSet(loop.pending) /\ IsFiniteSet(Running)
          BY <1>0, <2>1, TargetSets
        <5>2. /\ Cardinality(loop.pending) \in Nat /\ Cardinality(Running) \in Nat
              /\ Cardinality(both) \in Nat /\ Cardinality(both) <= Cardinality(Targets)
          BY <1>0, <2>1, TargetSets
        <5>3. Cardinality(loop.pending \cap Running) = 0
          BY <2>1, FS_EmptySet
        <5>4. Cardinality(both) = Cardinality(loop.pending) + Cardinality(Running)
                                    - Cardinality(loop.pending \cap Running)
          BY <5>1, FS_Union
        <5>. QED BY <5>2, <5>3, <5>4
      <4>3. Cardinality(Running) >= Slots
        BY <2>3, <3>3
      <4>. HIDE DEF both
      <4>4. CASE q = 0
        <5>1. (q + 1) * Slots = Slots
          BY <4>4, SlotsType
        <5>. QED BY <4>1, <4>2, <4>3, <5>1, SlotsType, TargetsCount
      <4>5. CASE q # 0
        <5>. DEFINE p == q - 1
        <5>1. p \in 0 .. Rounds /\ p \in Nat /\ q = p + 1
          BY <3>0, <4>5, RoundsCover
        <5>. HIDE DEF p
        <5>2. /\ q * PollInterval = p * PollInterval + PollInterval
              /\ p * PollInterval \in Nat /\ PollInterval \in Nat \ {0}
          BY <5>1, OneMoreInterval
        <5>3. clock - loop.opened > p * PollInterval
          BY <1>0, <3>3, <5>2
        <5>4. \A t \in Running : worker[t].start - loop.opened > p * PollInterval
          BY <1>0, <2>1, <2>2, <3>3, <5>2
        <5>5. Unstarted(p) = both
          BY <5>4 DEF Unstarted, both
        <5>6. Cardinality(both) + (p + 1) * Slots <= Cardinality(Targets)
          BY <1>2, <3>3, <5>1, <5>3, <5>5 DEF RoundsInv, both
        <5>7. (p + 1) * Slots = q * Slots /\ q * Slots \in Nat
              /\ (q + 1) * Slots = q * Slots + Slots
          BY <3>0, <5>1, SlotsType
        <5>. QED BY <4>1, <4>2, <4>3, <5>6, <5>7, SlotsType, TargetsCount
      <4>. QED BY <4>4, <4>5
    <3>. QED BY <1>0, <2>4, <3>0, <3>1, <3>2, <3>3
  <2>5. \A q : Unstarted(q)' = Unstarted(q)
    BY <1>0 DEF Unstarted, Running
  <2>6. \A q \in 0 .. Rounds : clock' - loop'.opened > q * PollInterval =>
          \/ Unstarted(q)' = {}
          \/ Cardinality(Unstarted(q)') + (q + 1) * Slots <= Cardinality(Targets)
    BY <1>0, <2>4, <2>5
  <2>7. /\ loop'.opened <= clock' /\ (loop.pending \cap Running = {})'
        /\ (\A t \in Running : worker[t].start <= clock)'
    BY <1>0, <2>1 DEF Running
  <2>. QED BY <1>0, <1>2, <2>6, <2>7 DEF RoundsInv, WorkersAwaited
<1>. QED BY <1>1, <1>2

\* While a worker may still run, the last round is not over.
LEMMA AdvanceClockBounded ==
  TypeInv /\ RoundsInv /\ CycleBounded /\ AdvanceClock => CycleBounded'
<1>. SUFFICES ASSUME TypeInv, RoundsInv, CycleBounded, AdvanceClock PROVE CycleBounded'
  OBVIOUS
<1>0. /\ clock \in Nat /\ clock' = clock + 1 /\ UNCHANGED <<loop, worker>> /\ MayPass
      /\ loop.opened \in Nat
      /\ \A t \in Targets : worker[t].start \in Nat
  BY DEF AdvanceClock, TypeInv, TypeOK, Worker
<1>1. Rounds \in Nat /\ Rounds * PollInterval \in Nat
  BY RoundsCover, OneMoreInterval
<1>. SUFFICES ASSUME loop.pc = "spawn", clock - loop.opened = Rounds * PollInterval PROVE FALSE
  BY <1>0, <1>1 DEF CycleBounded
<1>2. PICK t \in Running : TRUE
  <2>1. loop.pending = {} => Running # {}
    BY <1>0 DEF MayPass, LoopWaits
  <2>2. loop.pending # {} => ~(Cardinality(Running) < Slots)
    BY <1>0 DEF MayPass, LoopWaits, SlotFree
  <2>3. Running = {} => Cardinality(Running) = 0
    BY FS_EmptySet
  <2>. QED BY <2>1, <2>2, <2>3, SlotsType
<1>3. t \in Targets /\ Rounds # 0
  <2>1. t \in Targets
    BY <1>2 DEF Running
  <2>2. Cardinality(Targets) # 0
    BY <2>1, TargetAssumption, FS_EmptySet
  <2>3. Rounds = 0 => Rounds * Slots = 0
    BY SlotsType
  <2>. QED BY <2>1, <2>2, <2>3, RoundsCover, TargetsCount
<1>. DEFINE q == Rounds - 1
<1>4. q \in 0 .. Rounds /\ q \in Nat /\ Rounds = q + 1
  BY <1>1, <1>3
<1>. HIDE DEF q
<1>5. /\ Rounds * PollInterval = q * PollInterval + PollInterval
      /\ q * PollInterval \in Nat /\ PollInterval \in Nat \ {0}
  BY <1>4, OneMoreInterval
<1>6. clock - loop.opened > q * PollInterval
  BY <1>0, <1>5
<1>7. t \in Unstarted(q)
  <2>1. clock - worker[t].start < PollInterval
    BY <1>0, <1>2, <1>3, <1>5 DEF MayPass, TimedOut
  <2>2. worker[t].start - loop.opened > q * PollInterval
    BY <1>0, <1>3, <1>5, <2>1
  <2>. QED BY <1>2, <2>2 DEF Unstarted
<1>8. Cardinality(Unstarted(q)) + (q + 1) * Slots <= Cardinality(Targets)
  BY <1>4, <1>6, <1>7 DEF RoundsInv
<1>9. Cardinality(Unstarted(q)) \in Nat \ {0}
  <2>1. Unstarted(q) \subseteq Targets
    BY DEF Unstarted, Running, TypeInv, TypeOK
  <2>. QED BY <1>7, <2>1, TargetSets, FS_EmptySet
<1>10. (q + 1) * Slots = Rounds * Slots /\ Rounds * Slots \in Nat
  BY <1>1, <1>4, SlotsType
<1>. QED BY <1>8, <1>9, <1>10, RoundsCover, TargetsCount

\* Every other step keeps the rounds, and the bound with them.
LEMMA LoopRounds == TypeInv /\ RoundsInv /\ CycleBounded /\ LoopStep => RoundsInv' /\ CycleBounded'
<1>. SUFFICES ASSUME TypeInv, RoundsInv, CycleBounded, LoopStep
              PROVE  RoundsInv' /\ CycleBounded'
  OBVIOUS
<1>0. clock \in Nat /\ loop.opened \in Nat /\ loop.pending \subseteq Targets
      /\ worker \in [Targets -> Worker]
  BY DEF TypeInv, TypeOK
<1>1. CASE ReadOLSConfig \/ GateFails \/ GateClosed \/ EndReconcile \/ Tick \/ Stop
  <2>1. /\ loop'.pc # "spawn" /\ worker' = worker
        /\ EndReconcile \/ loop.pc # "spawn"
    BY <1>1, LoopOutside
  <2>2. \A t \in Targets : worker[t].pc = "off"
    BY <2>1 DEF EndReconcile, RoundsInv, WorkersAwaited, Running
  <2>. QED BY <2>1, <2>2, OutsideCycle DEF CycleBounded
<1>2. CASE GateOpens
  <2>1. PICK snapshot \in Snapshots :
          loop' = [loop EXCEPT !.pc = "spawn", !.pending = snapshot, !.opened = clock]
    BY <1>2 DEF GateOpens
  <2>2. /\ UNCHANGED <<clock, worker>> /\ loop'.opened = clock
        /\ loop'.pc = "spawn"
    BY <1>2, <2>1 DEF GateOpens, world, TypeInv, TypeOK
  <2>3. Running' = {}
    BY <1>2, <2>2 DEF GateOpens, RoundsInv, WorkersAwaited, Running
  <2>4. \A q \in 0 .. Rounds : q * PollInterval \in Nat
    <3>1. \A q \in 0 .. Rounds : q \in Nat
      BY RoundsCover
    <3>. QED BY <3>1, OneMoreInterval
  <2>5. Rounds * PollInterval \in Nat
    BY RoundsCover, OneMoreInterval
  <2>. QED BY <1>0, <2>2, <2>3, <2>4, <2>5 DEF RoundsInv, WorkersAwaited, CycleBounded
<1>3. CASE StopSpawning
  <2>1. /\ loop.pc = "spawn" /\ loop'.pc = "spawn" /\ loop'.opened = loop.opened
        /\ loop'.pending = {} /\ UNCHANGED <<clock, worker>>
    BY <1>3 DEF StopSpawning, world, TypeInv, TypeOK
  <2>2. (\A t \in Running : worker[t].start <= clock)'
    BY <2>1 DEF RoundsInv, Running
  <2>3. \A q \in 0 .. Rounds : Unstarted(q)' \subseteq Unstarted(q)
    BY <2>1 DEF Unstarted, Running
  <2>4. RoundsInv'
    BY <2>1, <2>2, <2>3, SameMoment
  <2>. QED BY <2>1, <2>4 DEF CycleBounded
<1>4. ASSUME NEW t \in Targets, StartTarget(t) PROVE RoundsInv' /\ CycleBounded'
  <2>1. /\ loop.pc = "spawn" /\ loop'.pc = "spawn" /\ loop'.opened = loop.opened
        /\ t \in loop.pending /\ loop'.pending = loop.pending \ {t} /\ clock' = clock
        /\ worker' = [worker EXCEPT ![t] = [Off EXCEPT !.pc = "fetch", !.start = clock]]
    BY <1>4 DEF StartTarget, IsNext, world, TypeInv, TypeOK
  <2>2. /\ worker'[t].pc = "fetch" /\ worker'[t].start = clock
        /\ \A u \in Targets \ {t} : worker'[u] = worker[u]
    BY <1>0, <2>1 DEF Off
  <2>3. Running' = Running \cup {t}
    BY <2>2 DEF Running
  <2>4. (loop.pending \cap Running = {})'
    BY <2>1, <2>3 DEF RoundsInv
  <2>5. (\A u \in Running : worker[u].start <= clock)'
    BY <1>0, <2>1, <2>2, <2>3 DEF RoundsInv, Running
  <2>6. \A q \in 0 .. Rounds : Unstarted(q)' \subseteq Unstarted(q)
    BY <2>1, <2>2, <2>3 DEF Unstarted, Running
  <2>7. RoundsInv'
    BY <2>1, <2>4, <2>5, <2>6, SameMoment
  <2>. QED BY <2>1, <2>7 DEF CycleBounded
<1>. QED BY <1>1, <1>2, <1>3, <1>4 DEF LoopStep, GateStep, RunStep

LEMMA NextRounds ==
  TypeInv /\ RoundsInv /\ CycleBounded /\ [Next]_vars => RoundsInv' /\ CycleBounded'
<1>. SUFFICES ASSUME TypeInv, RoundsInv, CycleBounded, [Next]_vars
              PROVE  RoundsInv' /\ CycleBounded'
  OBVIOUS
<1>0. worker \in [Targets -> Worker]
  BY DEF TypeInv, TypeOK
<1>1. CASE LoopStep
  BY <1>1, LoopRounds
<1>2. ASSUME NEW t \in Targets, WorkerStep(t) PROVE RoundsInv' /\ CycleBounded'
  BY <1>2, WorkerStepStart, NoStart DEF CycleBounded
<1>3. CASE AdvanceClock
  BY <1>3, AdvanceClockRounds, AdvanceClockBounded
<1>4. CASE Restart
  <2>1. loop'.pc # "spawn" /\ \A t \in Targets : worker'[t].pc = "off"
    BY <1>4 DEF Restart, Fresh, Off
  <2>. QED BY <2>1, OutsideCycle DEF CycleBounded
<1>5. ASSUME NEW t \in Targets, ServerCreate(t) PROVE RoundsInv' /\ CycleBounded'
  <2>1. PICK answer : worker' = [worker EXCEPT ![t].answer = answer]
    BY <1>5 DEF ServerCreate
  <2>2. \A u \in Targets : worker'[u].pc # "off" =>
          worker[u].pc # "off" /\ worker'[u].start = worker[u].start
    BY <1>0, <2>1 DEF Worker
  <2>3. UNCHANGED <<clock, loop>>
    BY <1>5 DEF ServerCreate
  <2>. QED BY <2>2, <2>3, NoStart DEF CycleBounded
<1>6. CASE \/ Cancel \/ UNCHANGED vars
           \/ \E r \in runs, report \in Outcomes : OperatorStep(r, report)
           \/ \E r \in runs : DeleteRun(r)
           \/ \E state \in OLSConfigStates : SetOLSConfig(state)
           \/ \E p \in inflight : LandLate(p)
  <2>1. UNCHANGED <<clock, loop, worker>>
    BY <1>6 DEF Cancel, vars, world, process, OperatorStep, DeleteRun, SetOLSConfig, LandLate
  <2>. QED BY <2>1, NoStart DEF CycleBounded
<1>. QED BY <1>1, <1>2, <1>3, <1>4, <1>5, <1>6 DEF Next, Environment
------------------------------------------------------------------------------
(* Theorems *)

LEMMA CycleInvariant == Spec => [](RoundsInv /\ CycleBounded)
<1>1. Init => RoundsInv /\ CycleBounded
  BY DEF Init, Fresh, Off, RoundsInv, WorkersAwaited, CycleBounded
<1>. QED BY <1>1, NextRounds, TypeCorrect, PTL DEF Spec

\* Every poll interval of a cycle starts another Slots targets, until none is left.
THEOREM RoundsAdvance == Spec => []RoundsInv
BY CycleInvariant, PTL

\* No cycle lasts longer than one poll interval per round of workers, for any
\* number of targets and slots, however slow the servers are (reconcile).
THEOREM CycleIsBounded == Spec => []CycleBounded
BY CycleInvariant, PTL
------------------------------------------------------------------------------
(* Who creates runs, and for how long *)

\* Time stands still or moves on by one.
LEMMA NextClock == [Next]_vars => clock' = clock \/ clock' = clock + 1
BY LoopStepLocal
   DEF Next, WorkerStep, Environment, vars, world, process, FetchAlerts, ListRuns, ReadFails,
       SkipAlert, IssueCreate, EndTarget, CreateReturns,
       CreateFails, CreateAborted, AdvanceClock, Cancel, Restart, ServerCreate,
       OperatorStep, DeleteRun, SetOLSConfig, LandLate

\* A run that appears was a worker's request or a create the adapter gave up on.
LEMMA NewRunsRequested ==
  ASSUME TypeInv, [Next]_vars, NEW p \in NewRuns
  PROVE  \/ \E t \in Targets : ServerCreate(t) /\ p \in worker[t].req
         \/ LandLate(p) /\ p \in inflight
<1>0. p \in runs' /\ p.name \notin runNames(runs) /\ p \notin runs
  BY DEF NewRuns, runNames
<1>1. runs' # runs
  BY <1>0
<1>2. ~(LoopStep \/ UNCHANGED vars)
  BY <1>1, LoopStepLocal DEF vars, world
<1>3. ~ \E t \in Targets : WorkerStep(t)
  BY <1>1, WorkerStepStart
<1>4. ~(\/ AdvanceClock \/ Cancel \/ Restart
        \/ \E state \in OLSConfigStates : SetOLSConfig(state)
        \/ \E r \in runs : DeleteRun(r))
  BY <1>0 DEF AdvanceClock, Cancel, Restart, SetOLSConfig, DeleteRun
<1>5. ASSUME NEW r \in runs, NEW report \in Outcomes, OperatorStep(r, report) PROVE FALSE
  <2>1. PICK conds, ended : runs' = (runs \ {r}) \cup {[r EXCEPT !.conds = conds, !.ended = ended]}
    BY <1>5 DEF OperatorStep
  <2>2. [r EXCEPT !.conds = conds, !.ended = ended].name = r.name
    BY DEF TypeInv, TypeOK, Run
  <2>. QED BY <1>0, <2>1, <2>2 DEF runNames
<1>6. ASSUME NEW t \in Targets, ServerCreate(t) PROVE p \in worker[t].req
  <2>1. PICK q \in worker[t].req : runs' = Store(q)
    BY <1>6 DEF ServerCreate
  <2>. QED BY <1>0, <2>1 DEF Store
<1>7. ASSUME NEW q \in inflight, LandLate(q) PROVE p = q
  BY <1>0, <1>7 DEF LandLate, Store
<1>. QED BY <1>2, <1>3, <1>4, <1>5, <1>6, <1>7 DEF Next, Environment

\* A create the adapter gave up on is applied at once or never.
NothingInflight == inflight = {}

\* Workers ask for runs of their own target.
OwnRequests == \A t \in Targets : \A p \in worker[t].req : p.label = t.label

\* A cycle that may create runs, or has leave to, while the adapter is suspended
\* asked before the suspension.
AskedBefore ==
  loop.pc \in {"gate", "open", "spawn"} =>
    /\ loop.asked <= clock
    /\ loop.pc # "gate" /\ olsConfig = "suspended" => loop.asked <= suspendedSince

LEMMA NextNothingInflight ==
  ASSUME ~LateCreates, NothingInflight, [Next]_vars
  PROVE  NothingInflight'
BY LoopStepLocal
   DEF NothingInflight, Next, WorkerStep, Environment, vars, world, process, FetchAlerts,
       ListRuns, ReadFails, SkipAlert, IssueCreate, EndTarget, CreateReturns,
       CreateFails, CreateAborted, Abandon, AdvanceClock, Cancel, Restart, ServerCreate,
       OperatorStep, DeleteRun, SetOLSConfig, LandLate

\* A worker's request is the one it had, or it has just made it for an alert.
LEMMA RequestsMade ==
  ASSUME TypeInv, [Next]_vars, NEW t \in Targets, NEW p \in worker'[t].req
  PROVE  \/ p \in worker[t].req
         \/ /\ IssueCreate(t)
            /\ \E a \in Alert : /\ a = Head(worker[t].todo) /\ ~cannotBuild(a)
                               /\ p = requestFor(a, t, worker[t].view)
<1>0. worker \in [Targets -> Worker] /\ Off.req = {}
  BY DEF TypeInv, TypeOK, Off
<1>1. CASE UNCHANGED worker
  BY <1>1
<1>2. ASSUME NEW u \in Targets, NEW w, w.req \subseteq worker[u].req,
             worker' = [worker EXCEPT ![u] = w]
      PROVE  p \in worker[t].req
  BY <1>0, <1>2
<1>3. ~Restart
  BY <1>0 DEF Restart, Fresh
<1>4. ASSUME NEW u \in Targets, StartTarget(u) PROVE p \in worker[t].req
  <2>1. [Off EXCEPT !.pc = "fetch", !.start = clock].req = {}
    BY DEF Off
  <2>. QED BY <1>2, <1>4, <2>1 DEF StartTarget
<1>5. ASSUME NEW u \in Targets, IssueCreate(u), p \notin worker[t].req
      PROVE  u = t /\ \E a \in Alert : /\ a = Head(worker[t].todo) /\ ~cannotBuild(a)
                                      /\ p = requestFor(a, t, worker[t].view)
  <2>. DEFINE a == Head(worker[u].todo)
  <2>1. /\ ~cannotBuild(a) /\ worker'[u].req = {requestFor(a, u, worker[u].view)}
        /\ \A v \in Targets \ {u} : worker'[v] = worker[v]
    BY <1>0, <1>5 DEF IssueCreate, Skipped, Worker
  <2>2. a \in Alert
    BY <1>0, <1>5 DEF IssueCreate, AtAlert, Worker
  <2>. QED BY <1>5, <2>1, <2>2
<1>6. ASSUME NEW u \in Targets, ReadFails(u) \/ EndTarget(u) \/ CreateAborted(u)
      PROVE  p \in worker[t].req
  BY <1>0, <1>2, <1>6 DEF ReadFails, EndTarget, CreateAborted
<1>7. ASSUME NEW u \in Targets,
             \/ FetchAlerts(u) \/ ListRuns(u) \/ SkipAlert(u)
             \/ CreateReturns(u) \/ CreateFails(u) \/ ServerCreate(u)
      PROVE  p \in worker[t].req
  <2>1. /\ \A v \in Targets \ {u} : worker'[v] = worker[v]
        /\ worker'[u].req = {} \/ worker'[u].req = worker[u].req
    <3>1. CASE FetchAlerts(u)
      BY <1>0, <3>1 DEF FetchAlerts, Worker
    <3>2. CASE ListRuns(u)
      BY <1>0, <3>2 DEF ListRuns, Worker
    <3>3. CASE SkipAlert(u)
      BY <1>0, <3>3 DEF SkipAlert, Worker
    <3>4. CASE CreateReturns(u) \/ CreateFails(u)
      <4>1. PICK view : Continue(u, view)
        BY <3>4 DEF CreateReturns, CreateFails
      <4>. QED BY <1>0, <4>1 DEF Continue, Worker
    <3>5. CASE ServerCreate(u)
      BY <1>0, <3>5 DEF ServerCreate, Worker
    <3>. QED BY <1>7, <3>1, <3>2, <3>3, <3>4, <3>5
  <2>. QED BY <2>1
<1>8. CASE \/ AdvanceClock \/ Cancel \/ UNCHANGED vars
           \/ \E r \in runs, report \in Outcomes : OperatorStep(r, report)
           \/ \E r \in runs : DeleteRun(r)
           \/ \E state \in OLSConfigStates : SetOLSConfig(state)
           \/ \E q \in inflight : LandLate(q)
  BY <1>1, <1>8 DEF AdvanceClock, Cancel, vars, world, process, OperatorStep, DeleteRun,
                    SetOLSConfig, LandLate
<1>9. CASE LoopStep
  BY <1>1, <1>4, <1>9, LoopStepLocal DEF GateOpens
<1>. QED BY <1>3, <1>5, <1>6, <1>7, <1>8, <1>9 DEF Next, WorkerStep, Environment

\* A create the adapter has given up on was a worker's request.
LEMMA InflightRequested ==
  ASSUME [Next]_vars, NEW p \in inflight'
  PROVE  p \in inflight \/ \E t \in Targets : p \in worker[t].req
<1>1. ASSUME NEW t \in Targets, p \in Unanswered(t) PROVE p \in worker[t].req
  BY <1>1 DEF Unanswered
<1>. QED BY <1>1, LoopStepLocal
  DEF Next, WorkerStep, Environment, vars, world, process, FetchAlerts, ListRuns, ReadFails,
      SkipAlert, IssueCreate, EndTarget, CreateReturns,
      CreateFails, CreateAborted, Abandon, AdvanceClock, Cancel, Restart, ServerCreate,
      OperatorStep, DeleteRun, SetOLSConfig, LandLate

LEMMA NextOwnRequests == TypeInv /\ OwnRequests /\ [Next]_vars => OwnRequests'
BY RequestsMade, RequestType DEF OwnRequests, TypeInv, FiniteRuns

LEMMA NextAskedBefore == TypeInv /\ AskedBefore /\ [Next]_vars => AskedBefore'
<1>. SUFFICES ASSUME TypeInv, AskedBefore, [Next]_vars PROVE AskedBefore'
  OBVIOUS
<1>0. clock \in Nat /\ clock <= clock
  BY DEF TypeInv, TypeOK
<1>1. CASE LoopStep
  <2>0. UNCHANGED <<clock, olsConfig, suspendedSince>>
    BY <1>1, LoopStepLocal
  <2>1. CASE ReadOLSConfig
    <3>1. /\ loop.pc = "gate" /\ loop'.asked = loop.asked
          /\ loop'.pc = IF olsConfig = "suspended" THEN "closed" ELSE "open"
      BY <2>1 DEF ReadOLSConfig, Suspended, TypeInv, TypeOK
    <3>. QED BY <2>0, <3>1 DEF AskedBefore
  <2>2. CASE GateOpens
    <3>1. loop.pc = "open" /\ loop'.pc = "spawn" /\ loop'.asked = loop.asked
      BY <2>2 DEF GateOpens, TypeInv, TypeOK
    <3>. QED BY <2>0, <3>1 DEF AskedBefore
  <2>3. CASE GateFails \/ GateClosed \/ EndReconcile \/ Stop
    <3>1. loop'.pc \in {"idle", "stopped"}
      BY <2>3 DEF GateFails, GateClosed, EndReconcile, Stop, ReturnToRun, TypeInv, TypeOK
    <3>. QED BY <3>1 DEF AskedBefore
  <2>4. CASE Tick
    <3>1. loop'.pc = "gate" /\ loop'.asked = clock
      BY <2>4 DEF Tick, TypeInv, TypeOK
    <3>. QED BY <1>0, <2>0, <3>1 DEF AskedBefore
  <2>5. CASE StopSpawning \/ \E t \in Targets : StartTarget(t)
    <3>1. loop.pc = "spawn" /\ loop'.pc = "spawn" /\ loop'.asked = loop.asked
      BY <2>5 DEF StopSpawning, StartTarget, TypeInv, TypeOK
    <3>. QED BY <2>0, <3>1 DEF AskedBefore
  <2>. QED BY <1>1, <2>1, <2>2, <2>3, <2>4, <2>5 DEF LoopStep, GateStep, RunStep
<1>2. ASSUME NEW t \in Targets, WorkerStep(t) PROVE AskedBefore'
  BY <1>2, WorkerStepStart DEF AskedBefore
<1>3. ASSUME NEW state \in OLSConfigStates, SetOLSConfig(state) PROVE AskedBefore'
  BY <1>3 DEF SetOLSConfig, process, AskedBefore
<1>4. CASE Restart
  <2>1. loop'.pc = "gate" /\ loop'.asked = clock /\ clock' = clock
    BY <1>4 DEF Restart, Fresh
  <2>. QED BY <1>0, <2>1 DEF AskedBefore
<1>5. CASE AdvanceClock
  <2>1. UNCHANGED <<loop, olsConfig, suspendedSince>> /\ clock' = clock + 1 /\ loop.asked \in Nat
    BY <1>5 DEF AdvanceClock, TypeInv, TypeOK
  <2>. QED BY <1>0, <2>1 DEF AskedBefore
<1>6. CASE \/ Cancel \/ UNCHANGED vars
           \/ \E t \in Targets : ServerCreate(t)
           \/ \E r \in runs, report \in Outcomes : OperatorStep(r, report)
           \/ \E r \in runs : DeleteRun(r)
           \/ \E p \in inflight : LandLate(p)
  BY <1>6 DEF Cancel, vars, world, process, ServerCreate, OperatorStep,
              DeleteRun, LandLate, AskedBefore
<1>. QED BY <1>1, <1>2, <1>3, <1>4, <1>5, <1>6 DEF Next, Environment

\* If a create the adapter gave up on is applied at once or never, a suspension
\* stops the runs of every cycle that asks for AgenticOLSConfig after it; a cycle
\* that asked before, and may have waited for the answer for any time, creates
\* runs for as long as a cycle lasts.
THEOREM SuspensionHolds ==
  ASSUME ~LateCreates
  PROVE  Spec => SuspensionTakesHold
<1>. DEFINE Inv == TypeInv /\ RoundsInv /\ CycleBounded /\ NothingInflight /\ AskedBefore
<1>1. Init => NothingInflight /\ AskedBefore
  BY DEF Init, Fresh, NothingInflight, AskedBefore
<1>2. Inv /\ [Next]_vars => (NothingInflight /\ AskedBefore)'
  BY NextNothingInflight, NextAskedBefore
<1>3. ASSUME Inv, [Next]_vars, NewRuns # {}, olsConfig = "suspended"
      PROVE  loop.asked <= suspendedSince /\ clock - loop.opened <= Rounds * PollInterval
  <2>1. PICK t \in Targets : ServerCreate(t)
    BY <1>3, NewRunsRequested DEF NothingInflight
  <2>2. loop.pc = "spawn"
    BY <1>3, <2>1 DEF ServerCreate, RoundsInv, WorkersAwaited
  <2>. QED BY <1>3, <2>2 DEF CycleBounded, AskedBefore
<1>4. Inv /\ [Next]_vars =>
        [NewRuns # {} /\ olsConfig = "suspended" =>
           /\ loop.asked <= suspendedSince
           /\ clock - loop.opened <= Rounds * PollInterval]_vars
  BY <1>3
<1>5. Spec => []Inv
  BY <1>1, <1>2, TypeCorrect, CycleInvariant, PTL DEF Spec
<1>. QED BY <1>4, <1>5, PTL DEF Spec, SuspensionTakesHold
------------------------------------------------------------------------------
(* The backoff after failed creates *)

LEMMA DoublingsDef ==
  \A n \in Nat : Doublings[n] = IF n = 0 THEN 1 ELSE 2 * Doublings[n - 1]
<1>1. Doublings = [n \in Nat |-> IF n = 0 THEN 1 ELSE 2 * Doublings[n - 1]]
  BY DEF Doublings
<1>. QED BY <1>1, Zenon

LEMMA DoublingsType == \A n \in Nat : Doublings[n] \in Nat \ {0}
<1>. DEFINE S == {n \in Nat : Doublings[n] \notin Nat \ {0}}
<1>1. \A n \in Nat : Doublings[n] = IF n = 0 THEN 1 ELSE 2 * Doublings[n - 1]
  BY DoublingsDef
<1>. SUFFICES ASSUME S # {} PROVE FALSE
  OBVIOUS
<1>2. PICK n \in S : \A m \in S : n <= m
  <2>1. S \in SUBSET Nat
    OBVIOUS
  <2>. HIDE DEF S
  <2>. QED BY <2>1, LeastNatural
<1>3. n # 0
  BY <1>1
<1>4. Doublings[n - 1] \in Nat \ {0}
  BY <1>2, <1>3
<1>. QED BY <1>1, <1>3, <1>4

\* The next delay is at most twice the one before, and never more than BackoffMax.
LEMMA DelayStep ==
  /\ Delay(0) = 0
  /\ Delay(1) = BackoffInitial
  /\ \A n \in Nat \ {0} :
       /\ Delay(n) \in Nat /\ Delay(n) <= BackoffMax
       /\ Delay(n + 1) <= 2 * Delay(n) /\ Delay(n + 1) <= BackoffMax
<1>1. \A n \in Nat : Doublings[n] = IF n = 0 THEN 1 ELSE 2 * Doublings[n - 1]
  BY DoublingsDef
<1>2. BackoffInitial \in Nat /\ BackoffMax \in Nat /\ BackoffInitial <= BackoffMax
  BY TimeAssumption
<1>3. Delay(0) = 0 /\ Delay(1) = BackoffInitial
  BY <1>1, <1>2 DEF Delay
<1>4. ASSUME NEW n \in Nat \ {0}
      PROVE  /\ Delay(n) \in Nat /\ Delay(n) <= BackoffMax
             /\ Delay(n + 1) <= 2 * Delay(n) /\ Delay(n + 1) <= BackoffMax
  <2>. DEFINE d == BackoffInitial * Doublings[n - 1]
              e == BackoffInitial * Doublings[n]
  <2>1. d \in Nat /\ e = 2 * d
    <3>1. Doublings[n] = 2 * Doublings[n - 1] /\ Doublings[n - 1] \in Nat
      BY <1>1, DoublingsType
    <3>. QED BY <1>2, <3>1
  <2>2. /\ Delay(n) = IF d > BackoffMax THEN BackoffMax ELSE d
        /\ Delay(n + 1) = IF e > BackoffMax THEN BackoffMax ELSE e
    BY DEF Delay
  <2>. HIDE DEF d, e
  <2>. QED BY <1>2, <2>1, <2>2
<1>. QED BY <1>3, <1>4

\* Another failure: the entry grows as the row of failures does.
LEMMA FailureRemembered ==
  ASSUME NEW entry \in [dur : Nat, last : Nat], NEW row \in [n : Nat, at : Nat],
         NEW now \in Nat, clock \in Nat, now <= clock,
         entry.dur > 0 => entry.dur >= BackoffInitial,
         \/ row.n = 0
         \/ clock - row.at > 2 * BackoffMax
         \/ entry.dur > 0 /\ entry.dur >= Delay(row.n) /\ entry.last = row.at
  PROVE  /\ BackoffNext(entry, now, clock).dur >= BackoffInitial
         /\ BackoffNext(entry, now, clock).dur >= Delay(OneMore(row).n)
<1>. DEFINE d == BackoffNext(entry, now, clock).dur
            m == OneMore(row).n
<1>0. /\ BackoffInitial \in Nat \ {0} /\ BackoffMax \in Nat /\ BackoffInitial <= BackoffMax
      /\ entry.dur \in Nat /\ entry.last \in Nat /\ row.n \in Nat /\ row.at \in Nat
  BY TimeAssumption
<1>1. d = IF entry.dur = 0 \/ now - entry.last > 2 * BackoffMax THEN BackoffInitial
          ELSE IF 2 * entry.dur > BackoffMax THEN BackoffMax ELSE 2 * entry.dur
  BY DEF BackoffNext, hasExpired
<1>2. m = IF clock - row.at > 2 * BackoffMax THEN 1 ELSE row.n + 1
  BY DEF OneMore
<1>3. d \in Nat /\ d >= BackoffInitial
  BY <1>0, <1>1
<1>4. CASE m = 1
  BY <1>0, <1>3, <1>4, DelayStep
<1>5. CASE m # 1
  <2>1. /\ row.n \in Nat \ {0} /\ m = row.n + 1 /\ clock - row.at <= 2 * BackoffMax
    BY <1>0, <1>2, <1>5
  <2>2. entry.dur > 0 /\ entry.dur >= Delay(row.n) /\ entry.last = row.at
    BY <1>0, <2>1
  <2>3. d = IF 2 * entry.dur > BackoffMax THEN BackoffMax ELSE 2 * entry.dur
    BY <1>0, <1>1, <2>1, <2>2
  <2>4. /\ Delay(row.n) \in Nat /\ Delay(m) \in Nat
        /\ Delay(m) <= 2 * Delay(row.n) /\ Delay(m) <= BackoffMax
    BY <2>1, DelayStep
  <2>5. d >= Delay(m)
    <3>. HIDE DEF d, m
    <3>. QED BY <1>0, <2>2, <2>3, <2>4
  <2>. QED BY <1>3, <2>5
<1>. QED BY <1>4, <1>5

\* What BackoffInv asks about one target and group.
BackoffFine(now, row, entry) ==
  /\ now <= clock /\ row.at <= clock
  /\ entry.dur > 0 => entry.dur >= BackoffInitial
  /\ \/ row.n = 0
     \/ clock - row.at > 2 * BackoffMax
     \/ entry.dur > 0 /\ entry.dur >= Delay(row.n) /\ entry.last = row.at

LEMMA BackoffInvParts ==
  BackoffInv <=> \A t \in Targets, g \in Groups :
                   BackoffFine(worker[t].now, streak[<<t, g>>], backoff[Key(t, g)])
BY DEF BackoffInv, BackoffFine, Remembered

LEMMA BackoffTypes ==
  ASSUME TypeInv, NEW t \in Targets, NEW g \in Groups
  PROVE  /\ clock \in Nat /\ worker[t].now \in Nat
         /\ Key(t, g) \in BackoffKeys
         /\ backoff[Key(t, g)] \in [dur : Nat, last : Nat]
         /\ streak[<<t, g>>] \in [n : Nat, at : Nat]
<1>1. Key(t, g) \in BackoffKeys
  BY DEF Key, creationBackoffKey, BackoffKeys
<1>. QED BY <1>1 DEF TypeInv, TypeOK, Worker

\* A worker's now is the old one, zero, or the present.
LEMMA WorkerNow ==
  ASSUME TypeInv, NEW t \in Targets, WorkerStep(t)
  PROVE  /\ \A u \in Targets \ {t} : worker'[u] = worker[u]
         /\ worker'[t].now \in {worker[t].now, 0, clock}
<1>. DEFINE w == worker[t]
<1>0. w \in Worker /\ worker \in [Targets -> Worker] /\ Off.now = 0
  BY DEF TypeInv, TypeOK, Off
<1>2. \A u \in Targets \ {t} : worker'[u] = worker[u]
  BY DEF WorkerStep, FetchAlerts, ListRuns, ReadFails, SkipAlert, IssueCreate, EndTarget,
         CreateReturns, CreateFails, CreateAborted, Continue, TypeInv, TypeOK
<1>3. worker'[t].now \in {w.now, 0, clock}
  <2>1. CASE FetchAlerts(t)
    BY <1>0, <2>1 DEF FetchAlerts, Worker
  <2>2. CASE ListRuns(t)
    BY <1>0, <2>2 DEF ListRuns, Worker
  <2>3. CASE ReadFails(t) \/ EndTarget(t) \/ CreateAborted(t)
    BY <1>0, <2>3 DEF ReadFails, EndTarget, CreateAborted
  <2>4. CASE SkipAlert(t)
    BY <1>0, <2>4 DEF SkipAlert, Worker
  <2>5. CASE IssueCreate(t)
    BY <1>0, <2>5 DEF IssueCreate, Worker
  <2>6. CASE CreateReturns(t) \/ CreateFails(t)
    <3>1. PICK view : Continue(t, view)
      BY <2>6 DEF CreateReturns, CreateFails
    <3>. QED BY <1>0, <3>1 DEF Continue, Worker
  <2>. QED BY <2>1, <2>2, <2>3, <2>4, <2>5, <2>6 DEF WorkerStep
<1>. QED BY <1>2, <1>3

LEMMA NextBackoffInv ==
  ASSUME DistinctNames, TypeInv, BackoffInv, [Next]_vars
  PROVE  BackoffInv'
<1>. DEFINE Now(t) == worker[t].now
            Row(t, g) == streak[<<t, g>>]
            Entry(t, g) == backoff[Key(t, g)]
<1>0. clock \in Nat /\ (clock' = clock \/ clock' = clock + 1)
  BY NextClock DEF TypeInv, TypeOK
<1>1. \A t \in Targets, g \in Groups : BackoffFine(Now(t), Row(t, g), Entry(t, g))
  BY BackoffInvParts
<1>. SUFFICES ASSUME NEW t \in Targets, NEW g \in Groups
              PROVE  BackoffFine(Now(t), Row(t, g), Entry(t, g))'
  BY BackoffInvParts DEF BackoffInv, BackoffFine, Remembered
<1>2. /\ Now(t) \in Nat /\ Row(t, g) \in [n : Nat, at : Nat]
      /\ Entry(t, g) \in [dur : Nat, last : Nat] /\ Key(t, g) \in BackoffKeys
      /\ BackoffMax \in Nat /\ BackoffInitial \in Nat
  BY BackoffTypes, TimeAssumption
<1>3. ASSUME Now(t)' <= clock', UNCHANGED <<Row(t, g), Entry(t, g)>>
      PROVE  BackoffFine(Now(t), Row(t, g), Entry(t, g))'
  <2>. DEFINE row == Row(t, g)
              e == Entry(t, g)
  <2>1. row.at \in Nat /\ row.at <= clock' /\ row.at <= clock
    BY <1>0, <1>1, <1>2 DEF BackoffFine
  <2>2. clock - row.at > 2 * BackoffMax => clock' - row.at > 2 * BackoffMax
    BY <1>0, <1>2, <2>1
  <2>. QED BY <1>1, <1>3, <2>1, <2>2 DEF BackoffFine
<1>4. Now(t) <= clock /\ Now(t) <= clock'
  BY <1>0, <1>1, <1>2 DEF BackoffFine
<1>5. CASE UNCHANGED <<worker, streak, backoff>>
  BY <1>3, <1>4, <1>5
<1>6. CASE GateOpens
  <2>1. /\ UNCHANGED <<worker, streak, clock>>
        /\ Entry(t, g)' = IF hasExpired(Entry(t, g), clock) THEN NoEntry ELSE Entry(t, g)
    BY <1>2, <1>6 DEF GateOpens, BackoffGC, world, TypeInv, TypeOK
  <2>2. CASE ~hasExpired(Entry(t, g), clock)
    BY <1>3, <1>4, <2>1, <2>2
  <2>3. CASE hasExpired(Entry(t, g), clock)
    <3>1. /\ clock - Entry(t, g).last > 2 * BackoffMax
          /\ Entry(t, g)'.dur = 0 /\ Row(t, g)' = Row(t, g) /\ Now(t)' = Now(t)
      BY <2>1, <2>3 DEF hasExpired, NoEntry
    <3>. QED BY <1>1, <1>2, <2>1, <3>1 DEF BackoffFine
  <2>. QED BY <2>2, <2>3
<1>7. ASSUME NEW u \in Targets, StartTarget(u)
      PROVE  BackoffFine(Now(t), Row(t, g), Entry(t, g))'
  <2>1. Now(t)' \in {Now(t), 0} /\ UNCHANGED <<streak, backoff>>
    BY <1>7 DEF StartTarget, Off, TypeInv, TypeOK
  <2>. QED BY <1>0, <1>3, <1>4, <2>1
<1>8. CASE Restart
  <2>1. /\ Now(t)' = 0 /\ Row(t, g)' = NoStreak /\ Entry(t, g)' = NoEntry
    BY <1>2, <1>8 DEF Restart, Fresh, Off
  <2>. QED BY <1>0, <2>1 DEF BackoffFine, NoStreak, NoEntry
<1>9. ASSUME NEW u \in Targets, ServerCreate(u)
      PROVE  BackoffFine(Now(t), Row(t, g), Entry(t, g))'
  <2>1. Now(t)' = Now(t) /\ UNCHANGED <<streak, backoff>>
    BY <1>9 DEF ServerCreate, TypeInv, TypeOK, Worker
  <2>. QED BY <1>3, <1>4, <2>1
<1>10. ASSUME NEW u \in Targets, WorkerStep(u)
       PROVE  BackoffFine(Now(t), Row(t, g), Entry(t, g))'
  <2>1. Now(t)' <= clock' /\ clock' = clock
    BY <1>0, <1>2, <1>4, <1>10, WorkerNow, WorkerStepStart
  <2>2. CASE UNCHANGED <<streak, backoff>>
    BY <1>3, <2>1, <2>2
  <2>3. ASSUME NEW p \in worker[u].req, NEW e, NEW row,
               backoff' = backoff \/ backoff' = [backoff EXCEPT ![Key(u, p.group)] = e],
               streak' = [streak EXCEPT ![<<u, p.group>>] = row],
               <<t, g>> # <<u, p.group>>
        PROVE  BackoffFine(Now(t), Row(t, g), Entry(t, g))'
    <3>1. p.group \in Groups
      BY DEF TypeInv, TypeOK, Worker, Run
    <3>2. Key(t, g) # Key(u, p.group)
      BY <2>3, <3>1, DistinctKeys
    <3>3. Row(t, g)' = Row(t, g) /\ Entry(t, g)' = Entry(t, g)
      BY <1>2, <2>3, <3>2 DEF TypeInv, TypeOK
    <3>. QED BY <1>3, <2>1, <3>3
  <2>4. CASE CreateReturns(u)
    <3>1. PICK p \in worker[u].req :
            /\ backoff' = IF worker[u].hadBackoff
                          THEN [backoff EXCEPT ![Key(u, p.group)] = NoEntry] ELSE backoff
            /\ streak' = [streak EXCEPT ![<<u, p.group>>] = NoStreak]
      BY <2>4 DEF CreateReturns
    <3>2. CASE <<t, g>> # <<u, p.group>>
      BY <2>3, <3>1, <3>2
    <3>3. CASE t = u /\ g = p.group
      <4>1. Row(t, g)' = NoStreak /\ (Entry(t, g)' = NoEntry \/ Entry(t, g)' = Entry(t, g))
        BY <1>2, <3>1, <3>3 DEF TypeInv, TypeOK
      <4>2. Row(t, g)'.n = 0 /\ Row(t, g)'.at = 0
        BY <4>1 DEF NoStreak
      <4>3. Entry(t, g)'.dur > 0 => Entry(t, g)'.dur >= BackoffInitial
        BY <1>1, <4>1 DEF NoEntry, BackoffFine
      <4>. QED BY <1>0, <2>1, <4>2, <4>3 DEF BackoffFine
    <3>. QED BY <3>2, <3>3
  <2>5. CASE CreateFails(u)
    <3>1. PICK p \in worker[u].req :
            /\ backoff' = [backoff EXCEPT ![Key(u, p.group)] =
                             BackoffNext(backoff[Key(u, p.group)], worker[u].now, clock)]
            /\ streak' = [streak EXCEPT ![<<u, p.group>>] = OneMore(streak[<<u, p.group>>])]
      BY <2>5 DEF CreateFails
    <3>2. CASE <<t, g>> # <<u, p.group>>
      BY <2>3, <3>1, <3>2
    <3>3. CASE t = u /\ g = p.group
      <4>1. /\ Row(t, g)' = OneMore(Row(t, g))
            /\ Entry(t, g)' = BackoffNext(Entry(t, g), Now(t), clock)
        BY <1>2, <3>1, <3>3 DEF TypeInv, TypeOK
      <4>2. /\ BackoffNext(Entry(t, g), Now(t), clock).dur >= BackoffInitial
            /\ BackoffNext(Entry(t, g), Now(t), clock).dur >= Delay(OneMore(Row(t, g)).n)
        BY <1>0, <1>1, <1>2, <1>4, FailureRemembered DEF BackoffFine
      <4>3. Row(t, g)'.at = clock /\ Entry(t, g)'.last = clock
        BY <4>1 DEF OneMore, BackoffNext
      <4>4. Entry(t, g)'.dur > 0
        <5>1. Entry(t, g)'.dur \in Nat
          BY <1>0, <1>2, <4>1 DEF BackoffNext
        <5>. QED BY <4>1, <4>2, <5>1, TimeAssumption
      <4>. QED BY <1>0, <2>1, <4>1, <4>2, <4>3, <4>4 DEF BackoffFine
    <3>. QED BY <3>2, <3>3
  <2>. QED BY <1>10, <2>2, <2>4, <2>5
    DEF WorkerStep, FetchAlerts, ListRuns, ReadFails, SkipAlert, IssueCreate, EndTarget,
        CreateAborted
<1>11. CASE \/ AdvanceClock \/ Cancel \/ UNCHANGED vars
            \/ \E r \in runs, report \in Outcomes : OperatorStep(r, report)
            \/ \E r \in runs : DeleteRun(r)
            \/ \E state \in OLSConfigStates : SetOLSConfig(state)
            \/ \E p \in inflight : LandLate(p)
  BY <1>5, <1>11
     DEF AdvanceClock, Cancel, vars, world, process, OperatorStep, DeleteRun, SetOLSConfig,
         LandLate
<1>12. CASE LoopStep
  BY <1>5, <1>6, <1>7, <1>12, LoopStepLocal
<1>. QED BY <1>8, <1>9, <1>10, <1>11, <1>12 DEF Next, Environment

LEMMA InitBackoffInv == Init => BackoffInv
<1>. SUFFICES ASSUME Init, NEW t \in Targets, NEW g \in Groups
              PROVE  BackoffFine(worker[t].now, streak[<<t, g>>], backoff[Key(t, g)])
  BY BackoffInvParts
<1>1. Key(t, g) \in BackoffKeys
  BY DEF Key, creationBackoffKey, BackoffKeys
<1>2. /\ worker[t].now = 0 /\ streak[<<t, g>>] = NoStreak /\ backoff[Key(t, g)] = NoEntry
      /\ clock = 0
  BY <1>1 DEF Init, Fresh, Off
<1>. QED BY <1>2 DEF BackoffFine, NoStreak, NoEntry

\* If targets have different names, the backoff keeps what failed creates have
\* earned: through the cycles' garbage collection, restarts and other targets'
\* successes, whatever the server does with creates the adapter gave up on.
THEOREM FailuresRemembered ==
  ASSUME DistinctNames
  PROVE  Spec => []BackoffInv
BY InitBackoffInv, NextBackoffInv, TypeCorrect, PTL DEF Spec

\* Under the same condition a target tries a group again only after the delay its
\* failures in a row have earned (IsInBackOffSinceUpdate in reconcileTarget).
THEOREM BackoffHolds ==
  ASSUME DistinctNames
  PROVE  Spec => BackoffHonoured
<1>. DEFINE Inv == TypeInv /\ BackoffInv
<1>1. ASSUME Inv, [Next]_vars, NEW t \in Targets, NEW p \in Attempts(t)
      PROVE  clock - streak[<<t, p.group>>].at >= Delay(streak[<<t, p.group>>].n)
  <2>1. PICK a \in Alert : /\ IssueCreate(t) /\ a = Head(worker[t].todo) /\ ~cannotBuild(a)
                           /\ p = requestFor(a, t, worker[t].view)
    <3>1. p \in worker'[t].req /\ p \notin worker[t].req
      BY DEF Attempts
    <3>. QED BY <1>1, <3>1, RequestsMade
  <2>2. p.group = a.group /\ p.group \in Groups
    BY <1>1, <2>1, RequestType DEF Alert, TypeInv, FiniteRuns
  <2>. DEFINE e == backoff[Key(t, p.group)]
              row == streak[<<t, p.group>>]
              now == worker[t].now
  <2>3. ~IsInBackOffSinceUpdate(e, now)
    BY <2>1, <2>2 DEF IssueCreate, Skipped, InBackoff
  <2>4. /\ e \in [dur : Nat, last : Nat] /\ row \in [n : Nat, at : Nat]
        /\ now \in Nat /\ clock \in Nat
    BY <1>1, <2>2, BackoffTypes
  <2>5. BackoffFine(now, row, e)
    BY <1>1, <2>2, BackoffInvParts
  <2>6. /\ BackoffMax \in Nat /\ Delay(0) = 0
        /\ \A n \in Nat \ {0} : Delay(n) \in Nat /\ Delay(n) <= BackoffMax
    BY DelayStep, TimeAssumption
  <2>. HIDE DEF e, row, now
  <2>7. clock - row.at >= Delay(row.n)
    <3>1. CASE row.n = 0
      BY <2>4, <2>5, <2>6, <3>1 DEF BackoffFine
    <3>2. CASE row.n # 0 /\ clock - row.at > 2 * BackoffMax
      BY <2>4, <2>6, <3>2
    <3>3. CASE row.n # 0 /\ e.dur > 0 /\ e.dur >= Delay(row.n) /\ e.last = row.at
      <4>1. Delay(row.n) \in Nat /\ Delay(row.n) <= BackoffMax /\ now <= clock
        BY <2>4, <2>5, <2>6, <3>3 DEF BackoffFine
      <4>2. now - e.last > 2 * BackoffMax \/ now - e.last >= e.dur
        BY <2>3, <2>4, <3>3 DEF IsInBackOffSinceUpdate, hasExpired
      <4>. QED BY <2>4, <2>6, <3>3, <4>1, <4>2
    <3>. QED BY <2>5, <3>1, <3>2, <3>3 DEF BackoffFine
  <2>. QED BY <2>7 DEF row
<1>2. Inv /\ [Next]_vars =>
        [\A t \in Targets : \A p \in Attempts(t) :
           clock - streak[<<t, p.group>>].at >= Delay(streak[<<t, p.group>>].n)]_vars
  BY <1>1
<1>3. Spec => []Inv
  BY TypeCorrect, FailuresRemembered, PTL
<1>. QED BY <1>2, <1>3, PTL DEF Spec, BackoffHonoured
------------------------------------------------------------------------------
(* The registry under the loop *)

\* The registry constrains what a cycle works on, and nothing else.
LEMMA FleetPolls == FleetSpec => Spec
<1>1. FleetInit => Init
  BY DEF FleetInit
<1>2. [FleetNext]_fleetVars => [Next]_vars
  BY DEF FleetNext, PollStep, SetSpoke, RemoveSpoke, fleetVars
<1>. QED BY <1>1, <1>2, PTL DEF FleetSpec, Spec

\* What is in the registry is not removed, and a cycle still at work on a target
\* that is removed began before the removal.
RemovalInv ==
  /\ goneSince \in [Targets -> Nat \cup {NilTime}]
  /\ \A t \in Targets : t \in registry => ~Removed(t)
  /\ loop.pc = "spawn" =>
       \A t \in loop.pending \cup Running : Removed(t) => loop.opened <= goneSince[t]

LEMMA InitRemovalInv == FleetInit => RemovalInv
BY DEF FleetInit, Init, Fresh, RemovalInv, Removed, NilTime

LEMMA PollRemovalInv ==
  ASSUME TypeInv, RoundsInv, RemovalInv, [Next]_vars, TakeTargets,
         UNCHANGED <<registry, goneSince>>
  PROVE  RemovalInv'
<1>0. /\ loop.pending \subseteq Targets /\ worker \in [Targets -> Worker]
      /\ \A t : Removed(t)' <=> Removed(t)
  BY DEF TypeInv, TypeOK, Removed
<1>1. ASSUME loop'.pc = "spawn" => loop.pc = "spawn",
             loop.pc = "spawn" => loop'.opened = loop.opened,
             (loop.pending \cup Running)' \subseteq loop.pending \cup Running
      PROVE  RemovalInv'
  BY <1>0, <1>1 DEF RemovalInv
<1>2. ASSUME loop'.pc # "spawn" PROVE RemovalInv'
  BY <1>0, <1>2 DEF RemovalInv
<1>3. CASE GateOpens
  <2>1. /\ loop.pc = "open" /\ worker' = worker /\ loop'.pc = "spawn"
        /\ loop'.pending \in Snapshots
    BY <1>3 DEF GateOpens, TypeInv, TypeOK
  <2>2. loop'.pending = registry /\ Running' = {}
    BY <2>1 DEF TakeTargets, RoundsInv, WorkersAwaited, Running
  <2>3. loop'.pending \subseteq Targets
    BY <2>1, TargetAssumption
  <2>. QED BY <1>0, <2>2, <2>3 DEF RemovalInv
<1>4. CASE \/ ReadOLSConfig \/ GateFails \/ GateClosed \/ EndReconcile \/ Tick \/ Stop
           \/ Restart
  <2>1. Fresh.loop.pc # "spawn"
    BY DEF Fresh
  <2>. QED BY <1>2, <1>4, <2>1, LoopOutside DEF Restart
<1>5. CASE StopSpawning
  <2>1. /\ loop.pc = "spawn" /\ loop'.opened = loop.opened
        /\ loop'.pending = {} /\ worker' = worker
    BY <1>5 DEF StopSpawning, TypeInv, TypeOK
  <2>. QED BY <1>1, <2>1 DEF Running
<1>6. ASSUME NEW t \in Targets, StartTarget(t) PROVE RemovalInv'
  <2>1. /\ loop.pc = "spawn" /\ loop'.opened = loop.opened
        /\ t \in loop.pending /\ loop'.pending = loop.pending \ {t}
        /\ \A u \in Targets \ {t} : worker'[u] = worker[u]
    BY <1>0, <1>6 DEF StartTarget, IsNext, TypeInv, TypeOK
  <2>2. Running' \subseteq Running \cup {t}
    BY <2>1 DEF Running
  <2>. QED BY <1>1, <2>1, <2>2
<1>7. ASSUME NEW t \in Targets, WorkerStep(t) PROVE RemovalInv'
  <2>1. loop' = loop /\ Running' \subseteq Running
    BY <1>7, WorkerStepStart DEF Running
  <2>. QED BY <1>1, <2>1
<1>8. ASSUME NEW t \in Targets, ServerCreate(t) PROVE RemovalInv'
  <2>1. PICK answer : worker' = [worker EXCEPT ![t].answer = answer]
    BY <1>8 DEF ServerCreate
  <2>2. loop' = loop /\ Running' \subseteq Running
    BY <1>0, <1>8, <2>1 DEF ServerCreate, Running, Worker
  <2>. QED BY <1>1, <2>2
<1>9. CASE \/ AdvanceClock \/ Cancel \/ UNCHANGED vars
           \/ \E r \in runs, report \in Outcomes : OperatorStep(r, report)
           \/ \E r \in runs : DeleteRun(r)
           \/ \E state \in OLSConfigStates : SetOLSConfig(state)
           \/ \E p \in inflight : LandLate(p)
  <2>1. UNCHANGED <<loop, worker>>
    BY <1>9 DEF AdvanceClock, Cancel, vars, process, OperatorStep, DeleteRun, SetOLSConfig,
                LandLate
  <2>. QED BY <1>1, <2>1 DEF Running
<1>. QED BY <1>3, <1>4, <1>5, <1>6, <1>7, <1>8, <1>9
         DEF Next, LoopStep, GateStep, RunStep, Environment

LEMMA NextRemovalInv ==
  TypeInv /\ RoundsInv /\ RemovalInv /\ [FleetNext]_fleetVars => RemovalInv'
<1>. SUFFICES ASSUME TypeInv, RoundsInv, RemovalInv, [FleetNext]_fleetVars PROVE RemovalInv'
  OBVIOUS
<1>0. clock \in Nat /\ loop.opened \in Nat /\ loop.pending \subseteq Targets
  BY DEF TypeInv, TypeOK
<1>1. CASE PollStep
  BY <1>1, PollRemovalInv DEF PollStep
<1>2. ASSUME NEW t \in Targets, SetSpoke(t) PROVE RemovalInv'
  <2>1. /\ goneSince' = [goneSince EXCEPT ![t] = NilTime]
        /\ registry' = registry \cup {t} /\ UNCHANGED <<loop, worker>>
    BY <1>2 DEF SetSpoke, vars, process
  <2>2. goneSince' \in [Targets -> Nat \cup {NilTime}]
    BY <2>1 DEF RemovalInv
  <2>3. ~Removed(t)' /\ \A u \in Targets \ {t} : goneSince'[u] = goneSince[u]
    BY <2>1 DEF RemovalInv, Removed
  <2>. QED BY <1>0, <2>1, <2>2, <2>3 DEF RemovalInv, Removed, Running
<1>3. ASSUME NEW t \in Targets, RemoveSpoke(t) PROVE RemovalInv'
  <2>1. /\ goneSince' = [goneSince EXCEPT ![t] = clock]
        /\ registry' = registry \ {t} /\ UNCHANGED <<loop, worker>>
    BY <1>3 DEF RemoveSpoke, vars, process
  <2>2. goneSince' \in [Targets -> Nat \cup {NilTime}]
    BY <1>0, <2>1 DEF RemovalInv
  <2>3. goneSince'[t] = clock /\ \A u \in Targets \ {t} : goneSince'[u] = goneSince[u]
    BY <2>1 DEF RemovalInv
  <2>4. loop.pc = "spawn" => loop.opened <= clock
    BY DEF RoundsInv
  <2>. QED BY <1>0, <2>1, <2>2, <2>3, <2>4 DEF RemovalInv, Removed, Running
<1>4. CASE UNCHANGED fleetVars
  <2>1. UNCHANGED <<loop, worker, registry, goneSince>>
    BY <1>4 DEF fleetVars, vars, process
  <2>. QED BY <2>1 DEF RemovalInv, Removed, Running
<1>. QED BY <1>1, <1>2, <1>3, <1>4 DEF FleetNext

\* If a create the adapter gave up on is applied at once or never, no run is
\* created for a spoke the controller has removed longer ago than the longest
\* cycle, unless it has been added again.
THEOREM RemovalIsHonoured ==
  ASSUME ~LateCreates
  PROVE  FleetSpec => RemovalHonoured
<1>. DEFINE Inv == /\ TypeInv /\ RoundsInv /\ CycleBounded /\ NothingInflight
                   /\ OwnRequests /\ RemovalInv
<1>1. Init => NothingInflight /\ OwnRequests
  BY DEF Init, Fresh, Off, NothingInflight, OwnRequests
<1>2. TypeInv /\ NothingInflight /\ OwnRequests /\ [Next]_vars => (NothingInflight /\ OwnRequests)'
  BY NextNothingInflight, NextOwnRequests
<1>3. ASSUME Inv, [FleetNext]_fleetVars, NEW t \in Targets, NEW p \in NewRuns, Removed(t),
             p.label = t.label
      PROVE  clock - goneSince[t] <= Rounds * PollInterval
  <2>1. [Next]_vars
    BY <1>3 DEF FleetNext, PollStep, SetSpoke, RemoveSpoke, fleetVars
  <2>2. PICK u \in Targets : ServerCreate(u) /\ p \in worker[u].req
    BY <1>3, <2>1, NewRunsRequested DEF NothingInflight
  <2>3. u = t
    BY <1>3, <2>2, DistinctLabels DEF OwnRequests
  <2>4. loop.pc = "spawn" /\ t \in Running
    BY <1>3, <2>2, <2>3 DEF ServerCreate, RoundsInv, WorkersAwaited, Running
  <2>5. /\ clock - loop.opened <= Rounds * PollInterval /\ loop.opened <= goneSince[t]
        /\ clock \in Nat /\ goneSince[t] \in Nat /\ loop.opened \in Nat
    BY <1>3, <2>4 DEF CycleBounded, RemovalInv, Removed, TypeInv, TypeOK
  <2>6. Rounds * PollInterval \in Nat
    BY RoundsCover, OneMoreInterval
  <2>. QED BY <2>5, <2>6
<1>4. Inv /\ [FleetNext]_fleetVars =>
        [\A t \in Targets : \A p \in NewRuns :
           Removed(t) /\ p.label = t.label
             => clock - goneSince[t] <= Rounds * PollInterval]_fleetVars
  BY <1>3
<1>5. Spec => [](TypeInv /\ RoundsInv /\ CycleBounded /\ NothingInflight /\ OwnRequests)
  BY <1>1, <1>2, TypeCorrect, CycleInvariant, PTL DEF Spec
<1>6. FleetSpec => []Inv
  BY <1>5, FleetPolls, InitRemovalInv, NextRemovalInv, PTL DEF FleetSpec
<1>. QED BY <1>4, <1>6, PTL DEF FleetSpec, RemovalHonoured
==============================================================================
