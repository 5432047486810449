--------------------------- MODULE AdmissionProofs ---------------------------
(***************************************************************************)
(* The poll loop implements Admission: what the adapter promises about the *)
(* runs it creates, the cooldown included, for every value of the          *)
(* constants.                                                              *)
(***************************************************************************)
EXTENDS PollLoopAdmission, CycleProofs

\* What the operator reports ends a run with a condition the adapter looks for: a
\* run that completes is verified, and only the three steps of a run fail.
EndsReported ==
  \A o \in Outcomes :
    /\ o.reason # "NoActionRequired"
    /\ o.status = "False" => o.type \in {"Analyzed", "Executed", "Verified"}

\* The conditions of every run are reports of the operator.
OutcomesOnly == \A r \in runs : \A i \in DOMAIN r.conds : r.conds[i].report \in Outcomes

LEMMA MinOfOne ==
  ASSUME NEW x \in Int
  PROVE  Min({x}) = x
BY DEF Min

\* A run ends with the condition just added, and terminalTime finds that one.
LEMMA LastConditionEnds ==
  ASSUME EndsReported, NEW conds \in Seq(Condition),
         \A i \in DOMAIN conds : conds[i].report \in Outcomes,
         ~isTerminal(DerivePhase(conds)),
         NEW report \in Outcomes, NEW at \in Nat,
         \A i \in DOMAIN conds : conds[i].report.type # report.type,
         isTerminal(DerivePhase(Append(conds, [report |-> report, at |-> at])))
  PROVE  terminalTime(Append(conds, [report |-> report, at |-> at])) = at
<1>. DEFINE c == [report |-> report, at |-> at]
            all == Append(conds, c)
            n == Len(conds) + 1
<1>1. /\ n \in DOMAIN all /\ all[n] = c /\ n \in Int
      /\ \A i \in DOMAIN all : i = n \/ (i \in DOMAIN conds /\ all[i] = conds[i])
      /\ DOMAIN conds \subseteq DOMAIN all
  <2>1. c \in Condition
    BY AlertAssumption DEF Condition
  <2>. QED BY <2>1
<1>2. all[n].report = report /\ all[n].at = at
  BY <1>1
<1>. HIDE DEF c, n, all
<1>3. {i \in DOMAIN all : all[i].report.type = report.type} = {n}
  BY <1>1, <1>2
<1>4. terminalConditionType(all) = report.type => terminalTime(all) = at
  BY <1>1, <1>2, <1>3, MinOfOne DEF terminalTime
<1>5. \A type, status : Holds(all, type, status) /\ ~Holds(conds, type, status) =>
          report.type = type /\ report.status = status
  BY <1>1, <1>2 DEF Holds
<1>6. \A type \in {"EmergencyStopped", "Denied", "Escalated", "Verified"} :
          ~Holds(conds, type, "True")
  BY DEF DerivePhase, isTerminal
<1>7. \A type \in {"Analyzed", "Executed", "Verified"} : ~Holds(conds, type, "False")
  BY DEF DerivePhase, isTerminal
<1>8. ~NoActionRequired(all)
  <2>1. \A i \in DOMAIN all : all[i].report \in Outcomes
    BY <1>1, <1>2
  <2>2. \A i \in DOMAIN all : all[i].report.reason # "NoActionRequired"
    BY <2>1 DEF EndsReported
  <2>. QED BY <2>2 DEF NoActionRequired
<1>9. CASE \E type \in {"EmergencyStopped", "Denied", "Escalated"} : DerivePhase(all) = type
  <2>1. PICK type \in {"EmergencyStopped", "Denied", "Escalated"} : DerivePhase(all) = type
    BY <1>9
  <2>2. Holds(all, type, "True")
    BY <2>1 DEF DerivePhase
  <2>3. report.type = type
    BY <1>5, <1>6, <2>2
  <2>. QED BY <1>4, <2>1, <2>3 DEF terminalConditionType, all, c
<1>10. CASE DerivePhase(all) = "Completed"
  <2>1. Holds(all, "Verified", "True")
    BY <1>8, <1>10 DEF DerivePhase
  <2>2. report.type = "Verified"
    BY <1>5, <1>6, <2>1
  <2>. QED BY <1>4, <1>10, <2>2 DEF terminalConditionType, all, c
<1>11. CASE DerivePhase(all) = "Failed"
  <2>1. PICK type \in {"Analyzed", "Executed", "Verified"} : Holds(all, type, "False")
    BY <1>11 DEF DerivePhase
  <2>2. report.type = type /\ report.status = "False"
    BY <1>5, <1>7, <2>1
  <2>3. \A i \in DOMAIN conds : conds[i].report.status # "False"
    BY <1>7 DEF EndsReported, Holds
  <2>4. {i \in DOMAIN all : all[i].report.status = "False"} = {n}
    BY <1>1, <1>2, <2>2, <2>3
  <2>5. findFailedConditionType(all) = report.type
    BY <1>1, <1>2, <2>4, MinOfOne DEF findFailedConditionType
  <2>. QED BY <1>4, <1>11, <2>5 DEF terminalConditionType, all, c
<1>. QED BY <1>9, <1>10, <1>11 DEF isTerminal, all, c

\* What the API server is asked to keep has no conditions yet.
RequestsNew ==
  \A p \in inflight \cup UNION {worker[t].req : t \in Targets} :
    p.conds = <<>> /\ p.ended = NilTime

LEMMA NextRequestsNew == TypeInv /\ RequestsNew /\ [Next]_vars => RequestsNew'
<1>. SUFFICES ASSUME TypeInv, RequestsNew, [Next]_vars PROVE RequestsNew'
  OBVIOUS
<1>1. \A p \in inflight' : p.conds = <<>> /\ p.ended = NilTime
  BY InflightRequested DEF RequestsNew
<1>2. \A t \in Targets : \A p \in worker'[t].req : p.conds = <<>> /\ p.ended = NilTime
  BY RequestsMade, RequestType DEF RequestsNew, TypeInv, FiniteRuns
<1>. QED BY <1>1, <1>2 DEF RequestsNew

\* A run the API server keeps after a step: one it had, a new one, or one with a
\* condition more.
LEMMA RunsMade ==
  ASSUME TypeInv, RequestsNew, [Next]_vars, NEW q \in runs'
  PROVE  \/ q \in runs
         \/ q.conds = <<>> /\ q.ended = NilTime
         \/ \E r \in runs, report \in Outcomes :
              OperatorStep(r, report) /\ q \notin runs
<1>1. CASE LoopStep \/ UNCHANGED vars
  BY <1>1, LoopStepLocal DEF vars, world
<1>2. CASE \E t \in Targets : WorkerStep(t)
  BY <1>2, WorkerStepStart
<1>3. CASE \/ AdvanceClock \/ Cancel \/ Restart
           \/ \E state \in OLSConfigStates : SetOLSConfig(state)
           \/ \E r \in runs : DeleteRun(r)
  BY <1>3 DEF AdvanceClock, Cancel, Restart, SetOLSConfig, DeleteRun
<1>4. ASSUME NEW t \in Targets, ServerCreate(t) PROVE q \in runs \/ q \in worker[t].req
  BY <1>4 DEF ServerCreate, Store
<1>5. ASSUME NEW p \in inflight, LandLate(p) PROVE q \in runs \/ q = p
  BY <1>5 DEF LandLate, Store
<1>. QED BY <1>1, <1>2, <1>3, <1>4, <1>5 DEF Next, Environment, RequestsNew

EndInv == EndKnown /\ OutcomesOnly /\ RequestsNew

LEMMA NextEndInv ==
  ASSUME EndsReported, TypeInv, EndInv, [Next]_vars
  PROVE  EndInv'
<1>0. clock \in Nat /\ (clock' = clock \/ clock' = clock + 1)
  BY NextClock DEF TypeInv, TypeOK
<1>1. RequestsNew'
  BY NextRequestsNew DEF EndInv
<1>. DEFINE End(r) == IF Active(r) THEN NilTime ELSE terminalTime(r.conds)
            Fine(r, time) == /\ r.ended = End(r) /\ r.ended <= time
                             /\ \A i \in DOMAIN r.conds : r.conds[i].report \in Outcomes
<1>2. ASSUME NEW q \in runs' PROVE Fine(q, clock')
  <2>1. CASE q \in runs
    <3>1. q.ended \in Int
      BY <2>1 DEF TypeInv, TypeOK, Run, NilTime
    <3>. QED BY <1>0, <2>1, <3>1 DEF EndInv, EndKnown, OutcomesOnly
  <2>2. CASE q.conds = <<>> /\ q.ended = NilTime
    <3>1. DOMAIN q.conds = {} /\ NilTime <= clock'
      BY <1>0, <2>2 DEF NilTime
    <3>. QED BY <2>2, <3>1, NewRunActive
  <2>3. ASSUME NEW r \in runs, NEW report \in Outcomes, OperatorStep(r, report), q \notin runs
        PROVE  Fine(q, clock')
    <3>. DEFINE conds == Append(r.conds, [report |-> report, at |-> clock])
                ended == IF isTerminal(DerivePhase(conds)) THEN clock ELSE NilTime
    <3>1. r \in Run /\ r.conds \in Seq(Condition)
      BY DEF TypeInv, TypeOK, Run
    <3>2. q = [r EXCEPT !.conds = conds, !.ended = ended] /\ clock' = clock
      BY <2>3 DEF OperatorStep
    <3>3. q.conds = conds /\ q.ended = ended
      <4>. HIDE DEF conds, ended
      <4>. QED BY <3>1, <3>2 DEF Run
    <3>4. /\ ~isTerminal(DerivePhase(r.conds))
          /\ \A i \in DOMAIN r.conds : r.conds[i].report.type # report.type
      BY <2>3 DEF OperatorStep, Active
    <3>5. \A i \in DOMAIN r.conds : r.conds[i].report \in Outcomes
      BY DEF EndInv, OutcomesOnly
    <3>6. isTerminal(DerivePhase(conds)) => terminalTime(conds) = clock
      BY <1>0, <3>1, <3>4, <3>5, LastConditionEnds
    <3>7. \A i \in DOMAIN conds : conds[i].report \in Outcomes
      <4>1. [report |-> report, at |-> clock] \in Condition
        BY <1>0, AlertAssumption DEF Condition
      <4>. QED BY <3>1, <3>5, <4>1
    <3>8. ended = End(q) /\ ended <= clock
      <4>. HIDE DEF conds
      <4>. QED BY <1>0, <3>3, <3>6 DEF Active, NilTime
    <3>. HIDE DEF conds, ended
    <3>. QED BY <3>2, <3>3, <3>7, <3>8
  <2>. QED BY <2>1, <2>2, <2>3, RunsMade DEF EndInv
<1>. QED BY <1>1, <1>2 DEF EndInv, EndKnown, OutcomesOnly

LEMMA InitEndInv == Init => EndInv
BY DEF Init, Fresh, Off, EndInv, EndKnown, OutcomesOnly, RequestsNew

\* If runs end the way the operator's conditions say (EndsReported), the moment the
\* adapter counts a run's cooldown from is the moment the run ended (terminalTime).
THEOREM EndsAreKnown ==
  ASSUME EndsReported
  PROVE  Spec => []EndKnown
<1>1. Spec => []EndInv
  BY InitEndInv, NextEndInv, TypeCorrect, PTL DEF Spec
<1>. QED BY <1>1, PTL DEF EndInv
------------------------------------------------------------------------------
(* The cooldown *)

\* A create that reaches the API server finds the runs of its group ended, and
\* ended PostRunDelay ago.
LEMMA CreateCooledDown ==
  ASSUME TypeInv, DedupInv, EndKnown,
         NEW t \in Targets, worker[t].pc = "create", NEW p \in worker[t].req,
         worker[t].answer = "none", NEW r \in runs, SameGroup(r, p)
  PROVE  ~Active(r) /\ (r.ended # NilTime => clock - r.ended >= PostRunDelay)
<1>. DEFINE w == worker[t]
<1>0. /\ clock \in Nat /\ w.now \in Nat /\ r.ended \in Nat \cup {NilTime}
      /\ PostRunDelay \in Nat
  BY TimeAssumption DEF TypeInv, TypeOK, Worker, Run
<1>1. /\ p.label = t.label /\ w.now <= clock
      /\ ~hasActiveRun(p.group, w.view) /\ ~InBackoff(t, p.group)
      /\ PostRunDelay > 0 => ~tooRecent(p.group, w.view, w.now, PostRunDelay)
  BY DEF DedupInv, WorkerInformed, RequestFree
<1>2. ~Active(r) /\ r \in w.view
  BY <1>1 DEF DedupInv, WorkerInformed, RunsCovered, Covered, ListAgenticRuns, SameGroup
<1>3. r.ended = terminalTime(r.conds) /\ r.ended <= clock
  BY <1>2 DEF EndKnown
<1>4. PostRunDelay > 0 /\ r.ended # NilTime => ~(w.now - r.ended < PostRunDelay)
  BY <1>1, <1>2, <1>3 DEF tooRecent, SameGroup
<1>. QED BY <1>0, <1>1, <1>2, <1>3, <1>4

\* Targets have different names, a create the adapter gave up on is applied at once
\* or never, and runs end the way the operator's conditions say.
Orderly == DistinctNames /\ ~LateCreates /\ EndsReported

\* If all is orderly, no run is created for a group within PostRunDelay of the end
\* of one of its runs, though lists, workers and the operator's reports interleave.
THEOREM CooldownHolds ==
  ASSUME Orderly
  PROVE  Spec => CooldownRespected
<1>. DEFINE Inv == TypeInv /\ DedupInv /\ EndKnown
<1>1. ASSUME Inv, [Next]_vars, NEW p \in NewRuns, NEW r \in runs,
             SameGroup(r, p), r.ended # NilTime
      PROVE  clock - r.ended >= PostRunDelay
  <2>1. PICK t \in Targets : ServerCreate(t) /\ p \in worker[t].req
    BY <1>1, NewRunsRequested DEF DedupInv
  <2>. QED BY <1>1, <2>1, CreateCooledDown DEF ServerCreate
<1>2. Inv /\ [Next]_vars =>
        [\A p \in NewRuns : \A r \in runs :
           SameGroup(r, p) /\ r.ended # NilTime => clock - r.ended >= PostRunDelay]_vars
  BY <1>1
<1>3. Spec => []Inv
  BY TypeCorrect, DedupInvariant, EndsAreKnown, PTL DEF Orderly
<1>. QED BY <1>2, <1>3, PTL DEF Spec, CooldownRespected
------------------------------------------------------------------------------
(* The refinement *)

SlotOf(r) == <<r.label, r.group>>

ActiveIn(slot) == {r \in RunsIn(slot) : Active(r)}
EndsIn(slot)   == {r.ended : r \in RunsIn(slot)} \cup {NilTime}

LEMMA SlotType ==
  ASSUME NEW r \in Run
  PROVE  SlotOf(r) \in AdmissionSlots
BY DEF SlotOf, AdmissionSlots, Run

\* The runs of a slot are those with its label and group.
LEMMA SlotRuns ==
  ASSUME NEW slot \in AdmissionSlots
  PROVE  RunsIn(slot) = {r \in runs : SlotOf(r) = slot}
BY DEF RunsIn, SlotOf, AdmissionSlots

LEMMA SlotGroup ==
  ASSUME NEW r, NEW q
  PROVE  SlotOf(r) = SlotOf(q) <=> SameGroup(r, q)
BY DEF SlotOf, SameGroup

\* Moments up to now have a last one.
LEMMA LastMoment ==
  ASSUME NEW n \in Nat, NEW S, S # {}, \A x \in S : x \in Int /\ x <= n
  PROVE  Max(S) \in S /\ \A x \in S : x <= Max(S)
<1>. DEFINE T == {n - x : x \in S}
<1>1. T \in SUBSET Nat /\ T # {}
  OBVIOUS
<1>2. PICK i \in T : \A j \in T : i <= j
  <2>. HIDE DEF T
  <2>. QED BY <1>1, LeastNatural
<1>3. PICK m \in S : i = n - m
  OBVIOUS
<1>4. \A x \in S : m >= x
  BY <1>2, <1>3
<1>. QED BY <1>4 DEF Max

LEMMA EndsType ==
  ASSUME TypeInv, EndKnown, NEW slot
  PROVE  /\ \A e \in EndsIn(slot) : e \in Int /\ NilTime <= e /\ e <= clock
         /\ Max(EndsIn(slot)) \in EndsIn(slot)
         /\ \A e \in EndsIn(slot) : e <= Max(EndsIn(slot))
<1>1. clock \in Nat
  BY DEF TypeInv, TypeOK
<1>2. \A r \in runs : r.ended \in Int /\ NilTime <= r.ended /\ r.ended <= clock
  BY <1>1 DEF TypeInv, TypeOK, Run, NilTime, EndKnown
<1>3. \A e \in EndsIn(slot) : e \in Int /\ NilTime <= e /\ e <= clock
  BY <1>1, <1>2 DEF EndsIn, RunsIn, NilTime
<1>4. EndsIn(slot) # {}
  BY DEF EndsIn
<1>. QED BY <1>1, <1>3, <1>4, LastMoment

LEMMA OneOrNone ==
  /\ Cardinality({}) = 0
  /\ \A r : Cardinality({r}) = 1
BY FS_EmptySet, FS_Singleton

\* A step that changes the runs of one slot only.
LEMMA OneSlotChanges ==
  ASSUME NEW slot \in AdmissionSlots,
         \A r : SlotOf(r) # slot => (r \in runs' <=> r \in runs)
  PROVE  /\ ActiveCount' = [ActiveCount EXCEPT ![slot] = Cardinality(ActiveIn(slot)')]
         /\ LastEnd' = [LastEnd EXCEPT ![slot] = Max(EndsIn(slot)')]
<1>1. ASSUME NEW s \in AdmissionSlots \ {slot} PROVE RunsIn(s)' = RunsIn(s)
  <2>1. \A r \in RunsIn(s) \cup RunsIn(s)' : SlotOf(r) # slot
    BY DEF RunsIn, SlotOf, AdmissionSlots
  <2>. QED BY <2>1 DEF RunsIn
<1>2. \A s \in AdmissionSlots \ {slot} :
        ActiveIn(s)' = ActiveIn(s) /\ EndsIn(s)' = EndsIn(s)
  BY <1>1 DEF ActiveIn, EndsIn
<1>3. /\ ActiveCount = [s \in AdmissionSlots |-> Cardinality(ActiveIn(s))]
      /\ ActiveCount' = [s \in AdmissionSlots |-> Cardinality(ActiveIn(s)')]
  BY DEF ActiveCount, ActiveIn
<1>4. /\ LastEnd = [s \in AdmissionSlots |-> Max(EndsIn(s))]
      /\ LastEnd' = [s \in AdmissionSlots |-> Max(EndsIn(s)')]
  BY DEF LastEnd, EndsIn
<1>. QED BY <1>2, <1>3, <1>4

LEMMA InitAdmitted == Init => Admitted!Init
<1>. SUFFICES ASSUME Init PROVE Admitted!Init
  OBVIOUS
<1>1. clock = 0 /\ runs = {}
  BY DEF Init
<1>2. \A s \in AdmissionSlots : {r \in RunsIn(s) : Active(r)} = {}
                               /\ {r.ended : r \in RunsIn(s)} \cup {NilTime} = {NilTime}
  BY <1>1 DEF RunsIn
<1>3. Max({NilTime}) = Admitted!Never
  BY DEF Max, NilTime, Admitted!Never
<1>. QED BY <1>1, <1>2, <1>3, OneOrNone DEF Admitted!Init, ActiveCount, LastEnd

\* A slot has no run under way, or one.
LEMMA ActiveInSlot ==
  ASSUME OneActivePerGroup, NEW slot \in AdmissionSlots, NEW r \in ActiveIn(slot)
  PROVE  ActiveIn(slot) = {r}
BY SlotRuns, SlotGroup DEF ActiveIn, OneActivePerGroup

LEMMA CountsAndEnds ==
  \A s \in AdmissionSlots : /\ ActiveCount[s] = Cardinality(ActiveIn(s))
                            /\ LastEnd[s] = Max(EndsIn(s))
BY DEF ActiveCount, LastEnd, ActiveIn, EndsIn

\* The API server keeps a new run: its slot admits it.
LEMMA CreateAdmitted ==
  ASSUME TypeInv, DedupInv, EndKnown, RequestsNew, NEW t \in Targets, ServerCreate(t)
  PROVE  Admitted!Next \/ UNCHANGED Admitted!vars
<1>1. PICK p \in worker[t].req : runs' = Store(p)
  BY DEF ServerCreate
<1>2. /\ worker[t].pc = "create" /\ worker[t].answer = "none" /\ clock' = clock
      /\ p \in Run /\ p.ended = NilTime /\ p.conds = <<>>
  BY DEF ServerCreate, RequestsNew, TypeInv, TypeOK, Worker
<1>3. CASE p.name \in runNames(runs)
  <2>1. runs' = runs
    BY <1>1, <1>3 DEF Store
  <2>. QED BY <1>2, <2>1 DEF Admitted!vars, ActiveCount, LastEnd, RunsIn
<1>4. CASE p.name \notin runNames(runs)
  <2>. DEFINE slot == SlotOf(p)
  <2>0. slot \in AdmissionSlots
    BY <1>2, SlotType
  <2>1. runs' = runs \cup {p}
    BY <1>1, <1>4 DEF Store
  <2>2. /\ ActiveCount' = [ActiveCount EXCEPT ![slot] = Cardinality(ActiveIn(slot)')]
        /\ LastEnd' = [LastEnd EXCEPT ![slot] = Max(EndsIn(slot)')]
    BY <2>0, <2>1, OneSlotChanges
  <2>3. RunsIn(slot)' = RunsIn(slot) \cup {p}
    BY <2>0, <2>1 DEF RunsIn, SlotOf
  <2>4. \A r \in RunsIn(slot) : r \in runs /\ SameGroup(r, p)
    BY <2>0, SlotRuns, SlotGroup
  <2>5. \A r \in RunsIn(slot) : ~Active(r) /\ (r.ended # NilTime => clock - r.ended >= PostRunDelay)
    BY <1>2, <2>4, CreateCooledDown
  <2>6. ActiveIn(slot) = {} /\ ActiveIn(slot)' = {p}
    BY <1>2, <2>3, <2>5, NewRunActive DEF ActiveIn
  <2>7. EndsIn(slot)' = EndsIn(slot)
    BY <1>2, <2>3 DEF EndsIn
  <2>8. ActiveCount[slot] = 0 /\ ActiveCount' = [ActiveCount EXCEPT ![slot] = 1]
    BY <2>0, <2>2, <2>6, OneOrNone, CountsAndEnds
  <2>9. LastEnd' = LastEnd
    BY <2>0, <2>2, <2>7 DEF LastEnd, EndsIn
  <2>10. LastEnd[slot] = NilTime \/ clock - LastEnd[slot] >= PostRunDelay
    <3>1. LastEnd[slot] \in EndsIn(slot)
      BY <2>0, EndsType, CountsAndEnds
    <3>. QED BY <2>5, <3>1 DEF EndsIn
  <2>11. Admitted!Admit(slot)
    BY <1>2, <2>8, <2>9, <2>10 DEF Admitted!Admit, Admitted!CooledDown, Admitted!Never, NilTime
  <2>. QED BY <2>0, <2>11 DEF Admitted!Next
<1>. QED BY <1>3, <1>4

\* The operator adds a condition: the run goes on, or its slot's run finishes.
LEMMA ReportAdmitted ==
  ASSUME TypeInv, TypeInv', DedupInv, EndKnown, EndKnown', NEW r \in runs, NEW report \in Outcomes,
         OperatorStep(r, report)
  PROVE  Admitted!Next \/ UNCHANGED Admitted!vars
<1>. DEFINE conds == Append(r.conds, [report |-> report, at |-> clock])
            ended == IF isTerminal(DerivePhase(conds)) THEN clock ELSE NilTime
            q == [r EXCEPT !.conds = conds, !.ended = ended]
            slot == SlotOf(r)
<1>1. /\ runs' = (runs \ {r}) \cup {q} /\ clock' = clock /\ Active(r) /\ r \in Run
      /\ clock \in Nat
  BY DEF OperatorStep, TypeInv, TypeOK
<1>2. SlotOf(q) = slot /\ q.conds = conds /\ q.ended = ended
  <2>. HIDE DEF conds, ended
  <2>. QED BY <1>1 DEF SlotOf, Run
<1>3. ended = IF Active(q) THEN NilTime ELSE clock
  <2>. HIDE DEF conds, q
  <2>. QED BY <1>2 DEF Active
<1>. HIDE DEF conds, ended, q
<1>4. slot \in AdmissionSlots
  BY <1>1, SlotType
<1>5. /\ ActiveCount' = [ActiveCount EXCEPT ![slot] = Cardinality(ActiveIn(slot)')]
      /\ LastEnd' = [LastEnd EXCEPT ![slot] = Max(EndsIn(slot)')]
  BY <1>1, <1>2, <1>4, OneSlotChanges
<1>6. RunsIn(slot)' = (RunsIn(slot) \ {r}) \cup {q} /\ r \in RunsIn(slot)
  <2>1. RunsIn(slot)' = {x \in runs' : SlotOf(x) = slot}
    BY <1>4 DEF RunsIn, SlotOf
  <2>2. RunsIn(slot) = {x \in runs : SlotOf(x) = slot}
    BY <1>4, SlotRuns
  <2>3. SlotOf(r) = slot
    OBVIOUS
  <2>. HIDE DEF slot
  <2>. QED BY <1>1, <1>2, <2>1, <2>2, <2>3
<1>7. ActiveIn(slot) = {r} /\ r.ended = NilTime
  BY <1>1, <1>4, <1>6, ActiveInSlot DEF ActiveIn, EndKnown, DedupInv
<1>8. ActiveIn(slot)' = IF Active(q) THEN {q} ELSE {}
  <2>1. \A x \in RunsIn(slot) : Active(x) => x = r
    BY <1>7 DEF ActiveIn
  <2>. QED BY <1>6, <2>1 DEF ActiveIn
<1>9. EndsIn(slot)' = EndsIn(slot) \cup {ended}
  BY <1>2, <1>6, <1>7 DEF EndsIn
<1>10. ActiveCount[slot] = 1
  BY <1>4, <1>7, OneOrNone, CountsAndEnds
<1>11. CASE Active(q)
  <2>1. EndsIn(slot)' = EndsIn(slot)
    BY <1>3, <1>9, <1>11 DEF EndsIn
  <2>2. ActiveCount' = ActiveCount
    BY <1>4, <1>5, <1>8, <1>10, <1>11, OneOrNone DEF ActiveCount
  <2>3. LastEnd' = LastEnd
    BY <1>4, <1>5, <2>1 DEF LastEnd, EndsIn
  <2>. QED BY <1>1, <2>2, <2>3 DEF Admitted!vars
<1>12. CASE ~Active(q)
  <2>1. ActiveCount' = [ActiveCount EXCEPT ![slot] = 0]
    BY <1>5, <1>8, <1>12, OneOrNone
  <2>2. Max(EndsIn(slot)') = clock
    <3>1. \A e \in EndsIn(slot) : e \in Int /\ e <= clock
      BY EndsType
    <3>2. \A e \in EndsIn(slot)' : e <= clock
      BY <1>1, <1>3, <1>9, <1>12, <3>1
    <3>3. clock \in EndsIn(slot)'
      BY <1>3, <1>9, <1>12
    <3>. HIDE DEF slot
    <3>4. \A e \in EndsIn(slot)' : e \in Int
      BY <1>1, <1>3, <1>9, <1>12, <3>1
    <3>5. /\ Max(EndsIn(slot)') \in EndsIn(slot)'
          /\ \A e \in EndsIn(slot)' : e <= Max(EndsIn(slot)')
      BY <1>1, <3>2, <3>3, <3>4, LastMoment
    <3>6. ASSUME NEW m \in Int, clock <= m, m <= clock PROVE m = clock
      BY <1>1, <3>6
    <3>. QED BY <3>2, <3>3, <3>4, <3>5, <3>6
  <2>3. Admitted!Finish(slot)
    BY <1>1, <1>5, <1>10, <2>1, <2>2 DEF Admitted!Finish
  <2>. QED BY <1>4, <2>3 DEF Admitted!Next
<1>. QED BY <1>11, <1>12

\* Somebody deletes a run: the one under way, or one that has ended.
LEMMA DeleteAdmitted ==
  ASSUME TypeInv, TypeInv', DedupInv, EndKnown, EndKnown', NEW r \in runs, DeleteRun(r)
  PROVE  Admitted!Next
<1>. DEFINE slot == SlotOf(r)
<1>1. runs' = runs \ {r} /\ clock' = clock /\ r \in Run
  BY DEF DeleteRun, TypeInv, TypeOK
<1>2. slot \in AdmissionSlots
  BY <1>1, SlotType
<1>3. /\ ActiveCount' = [ActiveCount EXCEPT ![slot] = Cardinality(ActiveIn(slot)')]
      /\ LastEnd' = [LastEnd EXCEPT ![slot] = Max(EndsIn(slot)')]
  BY <1>1, <1>2, OneSlotChanges
<1>4. RunsIn(slot)' = RunsIn(slot) \ {r} /\ r \in RunsIn(slot)
  <2>1. r \in RunsIn(slot)
    BY <1>2, SlotRuns
  <2>. QED BY <1>1, <2>1 DEF RunsIn
<1>5. CASE Active(r)
  <2>1. ActiveIn(slot) = {r} /\ r.ended = NilTime
    BY <1>2, <1>4, <1>5, ActiveInSlot DEF ActiveIn, EndKnown, DedupInv
  <2>2. ActiveIn(slot)' = {}
    <3>1. \A x \in RunsIn(slot) : Active(x) => x = r
      BY <2>1 DEF ActiveIn
    <3>. QED BY <1>4, <3>1 DEF ActiveIn
  <2>3. EndsIn(slot)' = EndsIn(slot)
    BY <1>4, <2>1 DEF EndsIn
  <2>4. ActiveCount[slot] = 1 /\ ActiveCount' = [ActiveCount EXCEPT ![slot] = 0]
    BY <1>2, <1>3, <2>1, <2>2, OneOrNone, CountsAndEnds
  <2>5. LastEnd' = LastEnd
    BY <1>2, <1>3, <2>3 DEF LastEnd, EndsIn
  <2>6. Admitted!Discard(slot)
    BY <1>1, <2>4, <2>5 DEF Admitted!Discard
  <2>. QED BY <1>2, <2>6 DEF Admitted!Next
<1>6. CASE ~Active(r)
  <2>1. ActiveIn(slot)' = ActiveIn(slot)
    BY <1>4, <1>6 DEF ActiveIn
  <2>2. ActiveCount' = ActiveCount
    BY <1>2, <1>3, <2>1 DEF ActiveCount, ActiveIn
  <2>3. EndsIn(slot)' \subseteq EndsIn(slot)
    BY <1>4 DEF EndsIn
  <2>. DEFINE earlier == Max(EndsIn(slot)')
  <2>4. earlier \in EndsIn(slot)
    <3>1. \A e \in EndsIn(slot)' : e \in Int /\ e <= clock
      BY <2>3, EndsType
    <3>2. clock \in Nat /\ EndsIn(slot)' # {}
      BY DEF EndsIn, TypeInv, TypeOK
    <3>. QED BY <2>3, <3>1, <3>2, LastMoment
  <2>5. earlier \in NilTime .. LastEnd[slot]
    <3>1. /\ earlier \in Int /\ NilTime <= earlier /\ earlier <= Max(EndsIn(slot))
          /\ Max(EndsIn(slot)) \in Int
      BY <2>4, EndsType
    <3>2. LastEnd[slot] = Max(EndsIn(slot))
      BY <1>2, CountsAndEnds
    <3>3. ASSUME NEW m \in Int, NEW n \in Int, NilTime <= m, m <= n PROVE m \in NilTime .. n
      BY <3>3 DEF NilTime
    <3>. QED BY <3>1, <3>2, <3>3
  <2>6. Admitted!Forget(slot)
    <3>. HIDE DEF earlier
    <3>1. LastEnd' = [LastEnd EXCEPT ![slot] = earlier]
      BY <1>3 DEF earlier
    <3>. QED BY <1>1, <2>2, <2>5, <3>1 DEF Admitted!Forget, Admitted!Never, NilTime
  <2>. QED BY <1>2, <2>6 DEF Admitted!Next
<1>. QED BY <1>5, <1>6

\* Every step of the poll loop and its environment is one Admission allows.
LEMMA NextAdmitted ==
  ASSUME TypeInv, TypeInv', DedupInv, EndKnown, EndKnown', RequestsNew, [Next]_vars
  PROVE  [Admitted!Next]_Admitted!vars
<1>1. CASE UNCHANGED <<clock, runs>>
  BY <1>1 DEF Admitted!vars, ActiveCount, LastEnd, RunsIn
<1>2. CASE LoopStep \/ UNCHANGED vars
  BY <1>1, <1>2, LoopStepLocal DEF vars, world
<1>3. CASE \E t \in Targets : WorkerStep(t)
  BY <1>1, <1>3, WorkerStepStart
<1>4. CASE AdvanceClock
  <2>1. clock' = clock + 1 /\ runs' = runs
    BY <1>4 DEF AdvanceClock
  <2>2. Admitted!Tick
    BY <2>1 DEF Admitted!Tick, ActiveCount, LastEnd, RunsIn
  <2>. QED BY <2>2 DEF Admitted!Next
<1>5. CASE Cancel \/ Restart \/ \E state \in OLSConfigStates : SetOLSConfig(state)
  BY <1>1, <1>5 DEF Cancel, Restart, SetOLSConfig
<1>6. ASSUME NEW p \in inflight PROVE FALSE
  BY <1>6 DEF DedupInv
<1>. QED BY <1>2, <1>3, <1>4, <1>5, <1>6, CreateAdmitted, ReportAdmitted, DeleteAdmitted
         DEF Next, Environment

\* If all is orderly, the poll loop implements Admission: the runs the API server
\* keeps for a target's group come and go as an admission control would let them,
\* one at a time and PostRunDelay apart.
THEOREM PollLoopImplementsAdmission ==
  ASSUME Orderly
  PROVE  Spec => ImplementsAdmission
<1>1. Spec => []EndInv
  BY InitEndInv, NextEndInv, TypeCorrect, PTL DEF Spec, Orderly
<1>2. EndInv => EndKnown /\ RequestsNew
  BY DEF EndInv
<1>3. Spec => []TypeInv /\ []DedupInv
  BY TypeCorrect, DedupInvariant, PTL DEF Orderly
<1>. QED BY <1>1, <1>2, <1>3, InitAdmitted, NextAdmitted, PTL
         DEF Spec, ImplementsAdmission, Admitted!Spec
==============================================================================
